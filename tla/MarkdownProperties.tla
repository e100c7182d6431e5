------------------------- MODULE MarkdownProperties -------------------------
(***************************************************************************)
(* What the log file must keep for the index to be rebuilt from it.        *)
(***************************************************************************)
EXTENDS Markdown

ReadBackAll(ws) == [i \in DOMAIN ws |-> ReadBack(ws[i].entry)]

FoundEntries == LET found == Parsed(file).entries
                IN  [i \in DOMAIN found |-> found[i].entry]

\* INV1: the parser returns exactly the entries that were appended, in their
\* order, whatever markers, headings and blank lines their bodies contain; of
\* a body it gives back ParsedBody, the conversion that Store assumes.
ReadsWhatWasWritten == torn = <<>> => FoundEntries = ReadBackAll(written)

\* Not the entry appended right after a write that failed half-way.
Undamaged == {i \in DOMAIN written : i - 1 \notin Range(torn)}

\* at tells which of the entries found is which of the undamaged ones.
Matches(at, found) ==
    /\ \A i \in Undamaged : found[at[i]] = ReadBack(written[i].entry)
    /\ \A i, j \in Undamaged : i < j => at[i] < at[j]
    /\ \A n \in DOMAIN found \ Range(at) :
          \A i \in Undamaged : found[n] # ReadBack(written[i].entry)

\* INV2: a write that fails half-way costs at most the entry appended after it:
\* every other entry whose append returned is still read back, in order.
TearsStayLocal ==
    LET found == FoundEntries
    IN  \E at \in [Undamaged -> DOMAIN found] : Matches(at, found)

\* INV3: the line that the append reports, which a store puts into the index, is
\* the line that the parser reports, which a rescan puts there; except for the
\* first entry of a file (one process, no torn writes).
LinesAgree ==
    torn = <<>> =>
        LET found == Parsed(file).entries
        IN  \A i \in DOMAIN written : i > 1 => written[i].line = found[i].line
-----------------------------------------------------------------------------
(* What comments, tests and the README say and the code does not keep. *)

\* store_test.go:627 "dropping the SQLite index and calling Rescan reconstructs
\* an identical live state from the markdown workspace alone": the entries come
\* back with the bodies they were stored with.
BodiesComeBack ==
    torn = <<>> => FoundEntries = [i \in DOMAIN written |-> written[i].entry]

\* rescan.go:13 "Safe to call at any time : if the index is corrupted or out of
\* sync with the markdown, running rescan restores consistency": what the
\* writer appended can be parsed.
AlwaysParses == Parsed(file).ok

\* README.md:274 "If the index is corrupted or out of sync, mem7 rescan drops it
\* and replays the markdown chronologically to reconstruct a consistent state":
\* every entry whose append succeeded is replayed.
AcknowledgedEntriesReplayed ==
    \A i \in DOMAIN written :
        \E j \in DOMAIN FoundEntries : FoundEntries[j] = ReadBack(written[i].entry)
=============================================================================
