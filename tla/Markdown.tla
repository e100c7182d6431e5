------------------------------ MODULE Markdown ------------------------------
(***************************************************************************)
(* A daily log file of mem7, line by line: what markdownWriter formats and *)
(* appends to it, and what parseDailyFile reads back.  A value is the      *)
(* sequence of its lines; of a line nothing matters but what the parser    *)
(* can take it for.  Facts.ReadBack, the conversion that Store is built    *)
(* on, is what the properties below compare the parser with.               *)
(***************************************************************************)
EXTENDS Facts, SequencesExt

CONSTANTS Writers,    \* processes that append to the file
          Journaled,  \* the entries they append
          MaxAppends, \* bound of the model: appends begun
          MaxTears    \* bound of the model: writes that fail half-way

ASSUME JournaledAssumption == Journaled \subseteq Entries
ASSUME MarkdownBoundsAssumption == MaxAppends \in Nat /\ MaxTears \in Nat

VARIABLES
    file,    \* the lines of the file
    open,    \* the last line has no newline yet
    pc,      \* where each writer is
    loc,     \* the entry each writer appends, and the lines it counted
    begun,   \* how many appends have begun: the clock of the entries
    written, \* history: the appends that returned without error
    torn     \* history: Len(written) at each write that failed half-way

vars == <<file, open, pc, loc, begun, written, torn>>
-----------------------------------------------------------------------------
(* Lines.  "is" is what the parser compares, "of" the payload. *)

Plain(kind) == [is |-> kind, of |-> NoKey]
Blank == Plain("blank")
Text == Plain("text")
Sep == Plain("sep")
Open == Plain("open")
Close == Plain("close")
Heading(k) == [is |-> "heading", of |-> k]
Field(name, v) == [is |-> "field", of |-> <<name, v>>]

\* A line of more than a mebibyte, more than the parser's buffer.
Long == Plain("long")

\* What the line of a body can be taken for.  The lines of a field occur in an
\* envelope only: in a body they are text.
BodyLines ==
    {Plain(kind) : kind \in {"blank", "text", "sep", "open", "close", "long",
                             "escaped sep", "escaped open", "escaped close"}}
    \cup {Heading(k) : k \in Keys \cup {NoKey}}

\* A body line the parser would take for a marker gets a backslash before it.
EscapeLine(l) ==
    CASE l.is = "sep" -> Plain("escaped sep")
      [] l.is = "open" -> Plain("escaped open")
      [] l.is = "close" -> Plain("escaped close")
      [] OTHER -> l

EscapeBody(body) == [i \in DOMAIN body |-> EscapeLine(body[i])]

Envelope(fields) == <<Blank, Open>> \o fields \o <<Close, Blank>>

Optional(name, v, default) == IF v = default THEN <<>> ELSE <<Field(name, v)>>

\* (Faulty variant.) The body is written without escaping its markers.
ContentUnescaped(e) == IF Last(e.val) = Blank THEN Front(e.val) ELSE e.val

\* The lines of a body that ends in a newline end with an empty one, and that
\* is then the line that every body is followed by.
Content(e) == EscapeBody(IF Last(e.val) = Blank THEN Front(e.val) ELSE e.val)

StoreBlock(e) ==
    <<Blank, Heading(e.key)>>
    \o Envelope(<<Field("op", "store")>>
                \o Optional("agent", e.agent, NoAgent)
                \o Optional("tags", e.tags, {})
                \o Optional("ttl", WrittenTtl(e.ttl), 0)
                \o <<Field("created", e.created), Field("updated", e.time)>>)
    \o Content(e)
    \o <<Blank, Sep>>

DeleteBlock(e) ==
    <<Blank, Heading(e.key)>>
    \o Envelope(<<Field("op", "delete"), Field("deleted", e.time)>>)
    \o <<Sep>>

DeleteTagsBlock(e) ==
    <<Blank, Heading(NoKey)>>
    \o Envelope(<<Field("op", "delete_tags"), Field("tags", e.tags),
                  Field("deleted", e.time)>>)
    \o <<Sep>>

Block(e) ==
    CASE e.op = "store" -> StoreBlock(e)
      [] e.op = "delete" -> DeleteBlock(e)
      [] e.op = "delete_tags" -> DeleteTagsBlock(e)
-----------------------------------------------------------------------------
(* parseDailyFile *)

\* strings.Trim(body, "\n")
TrimBlank(body) ==
    LET solid == {i \in DOMAIN body : body[i] # Blank}
    IN  IF solid = {} THEN <<>> ELSE SubSeq(body, Min(solid), Max(solid))

\* parseEnvelopeLine.  A tombstone's "deleted" and an entry's "updated" are both
\* the time of the entry.  A line that is not a field has no colon.
EnvelopeLine(e, l) ==
    IF l.is # "field" THEN e
    ELSE LET v == l.of[2] IN
         CASE l.of[1] = "op" -> [e EXCEPT !.op = v]
           [] l.of[1] = "agent" -> [e EXCEPT !.agent = v]
           [] l.of[1] = "tags" -> [e EXCEPT !.tags = v]
           [] l.of[1] = "ttl" -> [e EXCEPT !.ttl = v]
           [] l.of[1] = "created" -> [e EXCEPT !.created = v]
           [] l.of[1] \in {"updated", "deleted"} -> [e EXCEPT !.time = v]

\* What the scanning loop holds: the state, the line number, the entry it is in
\* with the line of its heading, the body so far, and the entries found.
Scanner == [state |-> "idle", lineNo |-> 0, current |-> BlankEntry, line |-> 0,
            body |-> <<>>, entries |-> <<>>, failed |-> FALSE]

\* Only a store entry has a body that anything reads.
Found(s) ==
    [entry |-> IF s.current.op = "store"
               THEN [s.current EXCEPT !.val = TrimBlank(s.body)] ELSE s.current,
     line |-> s.line]

\* (Faulty variant.) The body buffer is not reset at a heading.
StartedWithOldBody(s, k) ==
    [s EXCEPT !.state = "seeking_envelope", !.line = s.lineNo,
              !.current = [BlankEntry EXCEPT !.key = k]]

\* A heading starts an entry.
Started(s, k) ==
    [s EXCEPT !.state = "seeking_envelope", !.line = s.lineNo, !.body = <<>>,
              !.current = [BlankEntry EXCEPT !.key = k]]

ScanLine(s, l) ==
    LET t == [s EXCEPT !.lineNo = @ + 1] IN
    IF l = Long THEN [t EXCEPT !.failed = TRUE] ELSE
    CASE s.state = "idle" /\ l.is = "heading" ->
            Started(t, l.of)
      [] s.state = "seeking_envelope" /\ l = Open ->
            [t EXCEPT !.state = "in_envelope"]
      [] s.state = "in_envelope" /\ l = Close ->
            [t EXCEPT !.state = "in_body"]
      [] s.state = "in_envelope" /\ l # Close ->
            [t EXCEPT !.current = EnvelopeLine(s.current, l)]
      [] s.state = "in_body" /\ l = Sep ->
            [t EXCEPT !.state = "idle", !.entries = Append(@, Found(s))]
      [] s.state = "in_body" /\ l # Sep ->
            [t EXCEPT !.body = Append(@, l)]
      [] OTHER -> t

\* The loop of the scanner.
Scan == INSTANCE Loops WITH Step <- ScanLine

\* The result of the scan: no entry at all if it fails.
Parsed(lines) ==
    LET end == Scan!After(Scanner, lines)
    IN  [ok |-> ~end.failed, entries |-> IF end.failed THEN <<>> ELSE end.entries]

\* A stored body has a line at least, and Facts.ParsedBody says what the parser
\* must give back for it.  Other entries are tombstones.
ASSUME BodiesAssumption ==
    \A e \in Journaled :
        e.op = "store" => /\ e.val \in Seq(BodyLines) \ {<<>>}
                          /\ ParsedBody[e.val] = TrimBlank(EscapeBody(e.val))
ASSUME TombstonesAssumption ==
    \A e \in Journaled :
        e.op # "store" => \/ \E k \in Keys : e = KeyTombstone(k, 0)
                          \/ \E T \in SUBSET Tags : e = TagsTombstone(T, 0)
-----------------------------------------------------------------------------
(* appendToDaily *)

NoAppend == [entry |-> BlankEntry, existing |-> 0]

Init ==
    /\ file = <<>>
    /\ open = FALSE
    /\ pc = [w \in Writers |-> "idle"]
    /\ loc = [w \in Writers |-> NoAppend]
    /\ begun = 0
    /\ written = <<>>
    /\ torn = <<>>

\* The lines of the file are counted, an unfinished one included.
CountLines(w, e) ==
    /\ pc[w] = "idle"
    /\ begun < MaxAppends
    /\ begun' = begun + 1
    /\ loc' = [loc EXCEPT ![w] = [entry |-> [e EXCEPT !.time = begun],
                                  existing |-> Len(file)]]
    /\ pc' = [pc EXCEPT ![w] = "write"]
    /\ UNCHANGED <<file, open, written, torn>>

\* The newline that a block starts with ends an unfinished line, if there is one,
\* and is an empty line if there is none.
Extended(lines) == IF open THEN file \o Tail(lines) ELSE file \o lines

\* (Faulty variant.) The blank line before the heading is not counted.
HeadingLineShort(existing) == existing + 1

\* The line number that AppendStore returns for the heading.
HeadingLine(existing) == IF existing > 0 THEN existing + 2 ELSE existing + 1

WriteBlock(w) ==
    /\ pc[w] = "write"
    /\ file' = Extended(Block(loc[w].entry))
    /\ open' = FALSE
    /\ written' = Append(written, [entry |-> loc[w].entry,
                                   line |-> HeadingLine(loc[w].existing)])
    /\ pc' = [pc EXCEPT ![w] = "idle"]
    /\ loc' = [loc EXCEPT ![w] = NoAppend]
    /\ UNCHANGED <<begun, torn>>

\* A line cut short.  A cut heading names no key, and what is left of any other
\* line is no marker and no field.
Cut(l) == IF l.is = "heading" THEN Heading(NoKey) ELSE Text

\* What a write that fails, or a crash, can leave of a block: a number of whole
\* lines, with the last one cut or lacking its newline.
Pieces(lines) ==
    {[lines |-> SubSeq(lines, 1, n), open |-> FALSE] : n \in 1 .. Len(lines) - 1}
    \cup UNION {{[lines |-> SubSeq(lines, 1, n), open |-> TRUE],
                 [lines |-> Append(SubSeq(lines, 1, n - 1), Cut(lines[n])), open |-> TRUE]}
                  : n \in {m \in 2 .. Len(lines) : lines[m] # Blank}}

TearBlock(w) ==
    /\ pc[w] = "write"
    /\ Len(torn) < MaxTears
    /\ \E piece \in Pieces(Block(loc[w].entry)) :
        /\ file' = Extended(piece.lines)
        /\ open' = piece.open
    /\ torn' = Append(torn, Len(written))
    /\ pc' = [pc EXCEPT ![w] = "idle"]
    /\ loc' = [loc EXCEPT ![w] = NoAppend]
    /\ UNCHANGED <<begun, written>>

\* The model stops when its appends are used up.
Next ==
    \E w \in Writers :
        \/ \E e \in Journaled : CountLines(w, e)
        \/ WriteBlock(w)
        \/ TearBlock(w)

Spec == Init /\ [][Next]_vars
=============================================================================
