----------------------------- MODULE MCMarkdown -----------------------------
(* Values of the constants of Markdown for model checking. *)
EXTENDS MarkdownProperties

CONSTANTS k1, k2, t1, noAgent, a1, w1, w2

\* Bodies: plain, with the markers inside, with blank lines around, and with
\* what a log entry looks like.
Simple == <<Text>>
Markers == <<Sep, Text, Close>>
Fenced == <<Open, Close, Sep>>
Padded == <<Blank, Text, Blank, Text, Blank>>
EntryLike == <<Blank, Heading(k2), Open, Close, Sep, Blank>>
OverLong == <<Text, Long>>

Padding == Simple :> Simple
    @@ Markers :> <<Plain("escaped sep"), Text, Plain("escaped close")>>
    @@ Fenced :> <<Plain("escaped open"), Plain("escaped close"), Plain("escaped sep")>>
    @@ Padded :> <<Text, Blank, Text>>
    @@ EntryLike :> <<Heading(k2), Plain("escaped open"), Plain("escaped close"), Plain("escaped sep")>>
    @@ OverLong :> OverLong

Bodies == DOMAIN Padding
BodiesRead == Bodies \cup {Padding[b] : b \in Bodies}
ReadAs == [b \in BodiesRead |-> IF b \in Bodies THEN Padding[b] ELSE b]

Store(k, b, T, a, ttl) ==
    [BlankEntry EXCEPT !.op = "store", !.key = k, !.val = b, !.tags = T,
                       !.agent = a, !.ttl = ttl]

Tombstones == {KeyTombstone(k1, 0), TagsTombstone({t1}, 0)}

AnyEntries ==
    {Store(k1, b, {}, noAgent, 0) : b \in Bodies \ {OverLong}}
    \cup {Store(k2, Simple, {t1}, a1, 1), Store(k2, Simple, {t1}, noAgent, -1)}
    \cup Tombstones

FewEntries == {Store(k1, Markers, {t1}, a1, 0), Store(k2, EntryLike, {}, noAgent, 0)}
              \cup Tombstones

TwoEntries == {Store(k1, EntryLike, {t1}, a1, 0), KeyTombstone(k2, 0)}

HardEntries == AnyEntries \cup {Store(k2, OverLong, {}, noAgent, 0)}
=============================================================================
