# mem7: a verification project

mem7 is a memory server for agents. It appends every change to daily markdown
files and keeps a SQLite index derived from them. The README of mem7 calls the
files the source of truth and the index a cache that can be rebuilt at any time.
This directory models the program in TLA+, checks the models with TLC and proves with TLAPS
every safety property that the passing runs check, for all constants of the models
or under hypotheses that section 5 explains.

All source lines below are in `src/internal/memory/` unless another path is given.

## 1. Inventory

| Component | State | Operations | Interacts with |
|---|---|---|---|
| Write path (`store.go`, `rescan.go`, `sqlite.go`) | `Store.mu`; the daily files; tables `facts`, `fact_tags`, `facts_fts`; the AUTOINCREMENT sequence | memory_store, memory_forget, Prune, Rescan | the markdown writer, SQLite, other mem7 processes on the same directory |
| Daily log files (`markdown.go`) | the lines of a file | AppendStore, AppendDelete, AppendDeleteTags, parseDailyFile | called under `Store.mu`; read by Rescan |
| Reads and access counters (`store.go`, `sqlite.go`) | access_count, last_accessed | memory_recall, memory_list, memory_search, memory_get | the tables |
| Neighbour expansion (`neighbors.go`) | none | expandWithNeighbors | called by the search |
| Full-text search (`sqlite.go`) | `facts_fts`, kept by triggers | Search, sanitizeFTSQuery | the tables |
| Hybrid search (`hybrid.go`, `embed.go`, `store.go:451`) | column `embedding` (if the table has it); `Store.embCache` | hybridSearch, cosineSearch, mergeRRF, Embed | an Ollama-like HTTP server; row ids |
| Natural queries (`naturalquery.go`) | none | naturalizeFTSQuery | the search |
| Dispatcher (`dispatcher.go`) | none | Call, toolsCall | Store |
| Transports (`internal/transport/`, `cmd/mem7/main.go`) | one goroutine per HTTP request; the stdio loop | handleRPC, handleSnapshotReminder, ListenAndServe, serveStdio | Dispatcher; shutdown closes the database |
| Command line (`cmd/mem7/main.go`) | none | rescan, prune, serve, stdio | starts a process of its own on the shared directory |

What is hard in it:

* A tool call is the append of a log block followed by several SQL statements
  without a transaction. A crash, or an error, can fall between any two.
* `Store.mu` orders the calls of one process. Several clients usually mean several
  processes (each stdio client starts one, `mem7 rescan` and `mem7 prune` are
  others), and between those only single SQL statements and single appends are
  atomic.
* Rescan drops the tables before it reads the files.
* TTLs are compared inside SQLite, between values of two storage classes.
* The log is a text format; whatever a body contains has to stay in the body.
* Log times have whole seconds, so the replay relies on a stable sort.
* Vectors are keyed by row id, in the table and in the memory of each server, while a
  rescan in another process gives the ids out again and makes a table without their column.
* An embedding call of up to 30 s is made under `Store.mu`; a shutdown waits for 5 s and
  then closes the database under the handlers that are left.
* Clients of the HTTP server may be slow, silent or gone.
* FTS5 has a syntax of its own, and both quotes and rewriting stand between it and the client.
* A recall goes by row ids from one statement to the next.

`PROJECT.json` lists every such hazard at its line, with the properties about it.

What makes each component correct:

* Write path: the index between calls is the state that the log describes; it is
  never ahead of the log; a rescan restores it; a fact has no tags but its own;
  deletions by tags hit facts with those tags; the capacity is kept
  (softly, with several processes); calls return; a client sees a bounded map.
* Log files: what is parsed is what was appended; damage stays local; the reported
  line is the line of the heading.
* Neighbour expansion: the ranking is kept, the neighbours that exist are returned
  once, and they stand in sequence.
* Hybrid search: a hit is a live fact and is returned once; a vector belongs to the key
  of its id; stale vectors displace at most half of an answer; the merge respects what
  both rankings agree on.
* Reads: they answer what the log says; a recall counts what it returned and nothing else.
* Queries: what FTS5 is passed it can read; words, prefixes, phrases and parentheses reach it
  unchanged; a question asks for its keywords only.
* Transports and dispatcher: calls reach the index in order; what was answered is kept; what
  did not reach the index was reported; what was turned away leaves no trace; a slow client delays no other; the process ends, and cuts
  a call off only if the wait for it ran out.

## 2. Modules

| Module | What it is |
|---|---|
| `Facts` | Data: log entries, rows, the upsert, liveness, the replay's test, the order of a replay |
| `Store` | The write path, one action per statement, any number of processes |
| `KeyValue` | Abstract specification: a bounded map with tags |
| `StoreProperties` | What the write path keeps, its refinement of `KeyValue`, and what comments and docs say and it does not keep |
| `StoreProofs` | Theorems about `Store`: with any number of processes; then with one process, index, rescan, deletions by tags and the refinement of `KeyValue` |
| `Loops` | A loop over the members of a sequence, as a recursive function |
| `LoopProofs` | The rule of the loop invariant, and what a loop does over one sequence after another |
| `Markdown` | The log file line by line: formats, append, torn writes, parser |
| `MarkdownProperties` | What the file keeps; claims it does not keep |
| `MarkdownProofs` | Theorems about the log file: it is read back, damage stays local, it parses |
| `Neighbors` | Candidates, fetch and weave, with their properties |
| `NeighborProofs` | Theorems about the weave |
| `Reads` | memory_recall and memory_list over `Store`, and the access counters |
| `ReadProperties` | What reads keep |
| `ReadProofs` | Theorems about `Reads`, which implements `Store` |
| `Hybrid` | Stores, searches and rescans with embeddings: vectors in the table and in each server's cache, the merge |
| `HybridProperties` | What hybrid search keeps; claims it does not keep |
| `HybridProofs` | Theorems about `Hybrid`: its vectors, and its answers (scores, merge, what a search knows) |
| `Queries` | naturalizeFTSQuery and sanitizeFTSQuery |
| `QueryProperties` | The lexer of FTS5, and what it reads in the rewritten query |
| `QueryProofs` | Theorems about the rewriting |
| `Server` | A serving process: transports, Dispatcher, `Store.mu`, shutdown |
| `ServerProperties` | What a serving process keeps; a claim it does not keep |
| `ServerProofs` | Theorems about `Server` |
| `MCStore`, `MCReads`, `MCMarkdown`, `MCNeighbors`, `MCHybrid`, `MCQueries`, `MCServer` | Constants for TLC |

`Markdown`, `Neighbors`, `Queries` and `QueryProperties` write their loops as instances of `Loops`, one for
each body of a loop; their proofs instantiate `LoopProofs` with the same bodies.

`Facts` is extended by `Store` and `Markdown`. `Store` takes a log entry to come
back from a file as `ReadBack(e)`; `Markdown` models the text and checks that the
parser returns exactly `ReadBack` of what was appended (`ReadsWhatWasWritten`). That
is the composition of the two: `Store` is built on a conversion, `Markdown` is
what justifies it.

`Store`, `Server` and `Hybrid` look at the same calls from three sides, each coarse where another
is fine. `Store` takes a call apart into statements and interleaves processes; one process has one
call at a time. `Server` shows why: it interleaves the handlers of one process and checks that
`Store.mu` makes their entries reach log and index in one order (`IndexInLogOrder`); a write or a
statement fails there at any time, for whatever reason, and always once the index was closed. `Hybrid` takes the log entry and the upsert as one
action and takes apart what comes after them, and the search.

A definition marked *(Faulty variant.)* is not part of a model. It is a plausible
bug, written next to the definition it would replace; replacing it makes the
property named in `PROJECT.json` fail, which shows that the property can fail.

### Store and the code

| Model | Code |
|---|---|
| `log` | the daily files, concatenated in the order of their appends |
| `facts`, `factTags`, `nextId`, `tables` | the SQLite tables, the sequence, and which tables exist |
| `pc`, `loc` | the place and the local variables of the call each process executes |
| `BeginStore`, `LookUp` | ToolStore: Count; then Query, capacity check, time stamp |
| `AppendEntry`, `AppendFails` | appendToDaily |
| `Upsert`, `ClearTags`, `InsertTag` | the statements of Put, for ToolStore and Rescan |
| `BeginForget`, `DeleteByEntity`, `DeleteByTags` | ToolForget: tombstone of the key and its deletion, then of the tags |
| `Prune` | Prune: one statement |
| `BeginRescan`, `DropFacts`, `CreateFacts`, `CreateFactTags` | Reset: DROP fact_tags, DROP facts, the schema script |
| `Parse`, `SkipExpired`, `Replay`, `EndOfReplay`, `RescanReturns` | the rest of Rescan |
| `NoSuchTable` | a statement whose table another process has dropped |
| `StepFails`, `Crash`, `Restart` | any other error; the death of a process; newSQLiteStore |
| `Tick` | the clock |

Domain and abstractions of `Store`:

* Keys are trimmed one-line texts, tags contain no comma, every fact has the
  predicate `note` (the tools set no other), `ttl` is any integer. Values are a
  small set with the function `ParsedBody`: what the file gives back for a body.
* The clock may step back, as one of the faults. Times are seconds. The log has no line for a ttl
  of 0 or less (`WrittenTtl`). `Span(ttl)` is the product of ttl and a second in an int64 of
  nanoseconds: it wraps beyond `MaxSpan`, which is about 9.2e9 s in the program and 4 in the runs. An entry whose TTL ends in the
  current second may be replayed or skipped, because the program compares with a
  clock that has fractions of a second.
* Prune takes the time as a value of its own statement; Parse reads the files and
  then the clock as one step, because nothing that another process does between
  them has an effect that it would not have just before or after.
* The table `facts` and its unique index are created by one action. The schema
  script at a restart is one action.
* No embedder is configured. `facts_fts` is maintained by triggers inside the
  statements and has no step of its own. access_count is added by `Reads`.
* A torn append is left to `Markdown`; in `Store` an append happens or fails.

### Reads and the code

`Reads` extends `Store` and lets the steps of every process go on beside the reads of the others (`WritePath`,
`Disturbed`). `access` is the column access_count, which a step of the write path keeps with its row
(`CountersFollowRows`). `Recall` and `List` are the SELECT of selectFacts with its filters, order and limit,
`Touch` and `TouchFails` the UPDATE of TouchAccessed, whose error nobody looks at. Within a process
Store.mu lets no other call into a read: `Select` needs an idle process, and `WritePath` one that does not read.
last_accessed is left out. In the filter a `limit` of 0 is a list, which has none; the default of a recall is a member of the
small sets of the runs like any other.

### Markdown and the code

`Block(e)` is what the three format functions write, `Parsed(lines)` the scanner loop of
parseDailyFile: the loop `Scan`, whose body is `ScanLine`. A line is what the parser can take it for
(a marker, a heading, a field, blank, other text, or longer than the buffer). `CountLines` and
`WriteBlock` are the two halves of appendToDaily: it counts the lines of the file,
then opens it and appends. `TearBlock` is a write that fails half-way; the model lets
it stop at any line, within it, or before its newline. There is one file; its name
and the day are not modelled. Of a delete entry the agent is not modelled, because nothing
reads it back.

### Neighbors and the code

A sequential key is a prefix, a number and a width; a number has `MaxDigits` digits at most, in the runs and in the
proofs (in the program as many as an int has). `CandidatesOf` and `NeighborCandidates` are neighborCandidates, with
`BuildNeighborKey` and its Sprintf. weaveNeighbors is a loop in a loop: `Walked` goes over the hits, and `Walk` emits the
keys around one of them, each once (`Emit`). What is around a hit, `Around`, is the walk back (`Before`) and the walk on
(`Following`) to where the next number has no neighbour (`Reached`). `Leftovers` is what the last loop emits, in
the order of a Go map. byPrefixIdx has one place for a prefix and a number; which of two rows gets it depends on the order of
the rows and is a choice of `Groups`. So where both `t5` and `t05` are fetched, one of them is dropped: the keys of the run have no
such pair, and `ReturnsNeighborhood` is proved without one. From `t9` the search looks for `t10`, but from `t10` for `t09`: unpadded
keys are neighbours in one direction only where a digit is added (`WrittenLike`).

### Hybrid and the code

| Model | Code |
|---|---|
| `log`, `rows`, `nextId`, `column` | the daily files, the table `facts`, its sequence, whether it has the column `embedding` |
| `cache` | embCache of each server; `NotLoaded` is nil |
| `Put`, then `EmbedFails` or `StoreEmbedding` | ToolStore: append and upsert; then Embed, the UPDATE by row id, the cache |
| `Forget` | ToolForget for a key |
| `KeywordSearch`, `Bm25`, `LoadEmbeddings`, `FetchAndMerge`, `Answer` | hybridSearch after a failed or a successful Embed: the keyword ranking of twice the limit, the cache on first use, cosineSearch with FetchByIDs and mergeRRF |
| `Score`, `Merges`, `KeptOf` | mergeRRF: exact fractions for the scores, every order of equal ones, the cut, and the ids that are no live fact dropped after it |
| `Reset`, `Parse`, `Replay`, `RescanReturns` | `mem7 rescan` |
| `Restart` | a server dies, at any point, and starts again: migrate adds the column |
| `Open` | another mem7 starts (a client's, or a command): migrate adds the column |
| `Prune` | `mem7 prune`, at any time: the rows with a TTL go, and a later store of the key makes a row with a new id |

A vector is the text it embeds, so a ranking by cosine is any order of the cache, and a ranking by
keyword any choice and order of live facts that pass the filter. A fact is permanent or has a TTL,
and the latter is never live (see store_ttl_count) and goes with the next prune. So while a search is under way a key
can lose its row and come back under another id, without a rescan; if it had a TTL then, both ids may be in one answer.
`OneHitPerFact` speaks of the keys that never had one. Vectors of length or norm 0 and the capacity check are left out.
So are neighbours: hybridSearch passes the flag on to Search, so they enter the keyword ranking (a ranking is
any choice of live facts here), and ToolSearch adds them to the merged result again, which `Neighbors` covers.
FetchByIDs and the merge are one action: the cache cannot change during a search (`Store.mu`),
and between the two nothing else is read. Statements about vectors may fail at any time; those whose failure ends the call
with an error (of the search) are left out, for such a call has no answer to speak of.

### Queries and the code

A query is a sequence of words and marks. `SanitizeFTSQuery` is the loop of sanitizeFTSQuery over
tokens, phrases, spaces and parentheses: `Sanitizing` runs over the places of the query, and `SanitizePlace` passes over
those inside the piece (`AfterPiece`, `Written`) that was copied last. naturalizeFTSQuery is two loops: `Taking` collects the
keywords, `Joining` joins them, each with its `Stem`. Of ToLower the model knows that it maps words to words
and leaves no capital, so that no keyword is the operator `OR` (`LowerAssumption`). The lexer in `QueryProperties` is that of FTS5,
written from its documentation: it reads words, strings, stars, parentheses and the operators of one character
(`: + - ^ , { }`, all of them the mark `operator`), and refuses every other mark. Its grammar (what may stand beside an operator) is
not modelled. Letters outside ASCII are left out.

### Server and the code

| Model | Code |
|---|---|
| `mode`, `phase`, `end` | runServe or runStdio; where ListenAndServe, or main, is; why it returned |
| `open`, `holder` | the database handle; `Store.mu` |
| `stage`, `kind`, `reply` | where the handler of each request is, what the request is, what it is answered |
| `log`, `index` | who wrote each log entry; which entries were applied |
| `Accept`, `ReadBody`, `Write` | the mux, authMiddleware and the method checks; handleRPC; the response |
| `ReadLine` | serveStdio: one line, whose answer is written before the next is read |
| `Dispatch` | Dispatcher.Call and toolsCall |
| `Lock`, `Check`, `AppendEntry`, `Apply`, `Embed`, `Select`, `Unlock` | the tools: ToolStore, ToolForget with one or two tombstones, the reading tools, SnapshotReminder |
| `Listen`, `ListenerFails`, `Signal`, `Drained`, `TimesOut` | http.Server and ListenAndServe |
| `EndOfInput` | the scanner ends, with or without the error of a line beyond 4 MiB |
| `CloseStore`, `Exit`, `Kill` | the deferred Close; the return of main, which ends every handler; a signal that is not caught |

Put is one step here, and `index` has the entries of which it succeeded. `AppendEntry`, `Check`, `Apply` and `Select` may fail at
any time (the disk is full, the database is busy, another process has dropped the tables); then the tool returns an
error, and an entry that is in the log already waits for a rescan. Requests are accepted while the server drains, and after a shutdown
that did not end in time, because a connection may have been open before (`Connected`). A signal before the port is bound ends the
server at once. SIGTERM kills the stdio server, and a second signal does nothing to the HTTP
server. An HTTP request without an id is executed and answered, a line without one is skipped; the stdio
server does not look at the version. Both are as in the code.

## 3. Runs

### Passing

| Run | Property | Bounds |
|---|---|---|
| store_recovery | `IndexFollowsLog`, `RescanRestores` | 1 process, 2 keys, 3 log entries, ttl -1, 0, 1, 3 and 5 with `MaxSpan` 4, times 0 to 2, prune at any time, two faults anywhere, steps of the clock included |
| store_shared | `TypeOK`, `IndexNeverAhead` | 2 processes that both serve and rescan, 2 keys, 3 log entries, one fault |
| store_liveness | `CallsReturn` | 2 processes that both serve and rescan, 1 key, 3 log entries, one fault, under `FairSpec` |
| reads_single | `IndexFollowsLog`, `MemoryRefinement`, `TagDeletionsMatch`, `ReadsAnswerTheLog` | 1 process that also prunes and rescans, 3 keys, 4 log entries, limit 2, plain and padded values, two tags and an agent, forgets by key, by tags and by both, recalls by key, tag and agent and of the newest, a list, times 0 and 1 |
| reads_shared | `SoftCeiling`, `TagsOfOwnKey`, `CountsOnlyReturned` | 2 processes without rescans, 3 keys, 4 log entries with and without a TTL, limit 1, prune, one fault |
| markdown_log | `ReadsWhatWasWritten`, `TearsStayLocal`, `LinesAgree` | 1 writer, 3 appends of entries with every kind of body and of tombstones, one of them torn anywhere |
| neighbors_weave | `KeepsRanking`, `ReturnsNeighborhood`, `StandsInSequence` | 9 keys, two of them unpadded around ten, any subset stored, up to 3 hits, radius 1 or 2 |
| hybrid_search | `HalfTheAnswerIsSafe`, `AgreementKept`, `OneHitPerFact`, `ForgottenNotFound`, `VectorsOfOwnKey` | 2 servers, one of them searching with limit 2, 2 keys, one of them stored with and without a TTL, 3 log entries, one rescan, prunes and restarts at any time, the embedder and the statements fail at any time |
| queries_rewriting | `ClosedQuotesSuffice`, `SyntaxIsKept`, `QuestionAsksForKeywords` | every query of up to 5 words and marks (8 marks, 7 words), in both modes; 2 keywords where the program has 12 |
| server_serve | `IndexInLogOrder`, `AnsweredIsKept`, `OneUnreportedOrphan`, `CutOnlyByTimeout`, `TurnedAwayLeavesNoTrace`, `OneCallInDoubt`, `CallsAreCarriedOut`, `ShutdownEnds` | 2 requests, each of 18 sorts, both modes, any write or statement fails, under `FairSpec` |

Symmetry is used where keys, or processes with equal roles, are interchangeable: in reads_single,
reads_shared and store_shared, whose properties name no key and no process. It is not used
with fairness. The exact constants are in the `.cfg` files. Why the bounds are enough:

* Two keys are what it takes for a value of one to be mixed with that of the other
  (ids, tags, capacity); the properties speak of at most two keys at a time. Three keys are
  used where the number of live facts may exceed the limit by more than one.
* Three log entries are a store, its forget and the store that takes the soft-deleted row
  again, or two versions and a tombstone; they also give a rescan entries of one second
  and of two seconds to order. A fourth is the tombstone of the tags that a forget writes after that
  of the key.
* Two faults are a call that leaves a half-done state and a rescan that is cut
  in turn; with the third call, a rescan still has to repair both.
* Two processes are what it takes to interleave two calls, and one writer of a log file what the run needs. That nothing
  new happens with more is proved (section 5) wherever it is true, not assumed.
* In `Hybrid` two keys give three ids when one of them is pruned and stored again, so with a limit of 2 a search has more
  candidates than places, some of them dead. A rescan that gives out ids again needs two keys stored
  in another order than before.
* Five symbols hold a phrase with a token beside it on either side, or three keywords and their
  separators, one more than `KeywordCap`. Longer queries, more hits and longer files are covered by the proofs.
* Two requests are a call in progress and one that waits for it. For any number of them, all the safety
  properties are proved (section 5).
* In the log file, damage reaches to the next separator, so the entries before and after a torn
  write show all of it.

`MaxLog`, `MaxTime`, `MaxFaults`, `MaxAppends`, `MaxTears`, `MaxDigits`, `MaxResults`, `MaxRadius`, `MaxRescans`, `MaxAccess` and `MaxSymbols` are bounds
of the models and are named so. `MaxEntries` is the configuration value MEM7_MAX_ENTRIES.
In `Store` and `Reads` a process between calls can always prune, so deadlock is checked. In `Hybrid` a server can always
restart. The runs of `Markdown`, `Neighbors` and `Queries` end when their inputs are used up, and a process of
`Server` exits: they switch the deadlock check off.

### Disagreements between the program and its documentation

Each of these runs checks one sentence of a comment, a test or the README; TLC finds a
behaviour of the code in which it is false.

| Run | Sentence | What happens |
|---|---|---|
| store_ttl_count | storage.go:52 | INTEGER sorts before TEXT: a fact with a TTL is never live |
| hybrid_column | README.md:102 | Reset makes the table without its column `embedding`; until it restarts, a running server computes embeddings that no statement can store |

More configurations of the same kind are kept here and are not part of the suite, because they show
the same causes at work elsewhere, or smaller disagreements. Each violates the properties it names:

| Configuration | Property | Sentence | What happens |
|---|---|---|---|
| MCStore_prune_expired | `PruneTakesOnlyExpired` | storage.go:55 | prune deletes every fact with a TTL, for the reason of store_ttl_count |
| MCStore_rescan_expired | `ExpiredNeverComeBack` | store.go:421 | the expired version is skipped, the version before it comes back |
| MCStore_shared_order | `IndexReconstructible` | storage.go:9 | two processes store and forget in opposite orders in log and index |
| MCStore_rescan_fails | `RescanSafeAtAnyTime` | rescan.go:13 | a rescan that fails leaves an empty index |
| MCStore_rescan_race | `IndexReconstructible` | storage.go:9 | a store of another process is lost from the index |
| MCStore_shared_tags | `TagDeletionsMatch` | storage.go:35 | interleaved Puts leave the tags of both in `fact_tags` |
| MCReads_rescan | `CountsOnlyReturned` | README.md:171 | a rescan between SELECT and UPDATE: another fact has the id and is counted |
| MCMarkdown_bodies | `AlwaysParses` | rescan.go:13 | a line of more than 1 MiB stops every later rescan |
| | `BodiesComeBack` | store_test.go:627 | escaping and trimming are not undone by the parser (with TLC's option `-continue`) |
| MCMarkdown_replayed | `AcknowledgedEntriesReplayed` | README.md:274 | a torn entry swallows the complete one after it |
| MCHybrid_filters | `HitsPassTheFilter` | README.md:192 | the cosine ranking covers the whole cache: facts without the tag, of other agents and outside the time range are returned |
| MCHybrid_topn | `FinalTopN` | README.md:102 | dead ids are dropped after the cut to N, so fewer than N facts are returned |
| MCHybrid_stale | `VectorsCurrent` | README.md:159 | Embed fails on an update, and the old vector stays |
| MCHybrid_rescan | `VectorsOfOwnKeyAlways` | README.md:274 | after a rescan by `mem7 rescan` the cache of a server gives the new ids the vectors of the old ones |
| MCQueries_verbatim | `SyntaxVerbatim` | sqlite.go:326 | `^paint`, `object:paint` and the comma of `NEAR(paint cat, 10)` are put between quotes and become text to search for |
| MCServer_graceful | `GracefulShutdown` | http.go:44 | a call that takes more than 5 s is cut off |

`IndexFollowsLog` and `RescanRestores` speak of keys that never had a TTL because of the runs above.
`LinesAgree` speaks of all entries but the first of a file: its heading is on line 2, below the title, and 1 is
reported (markdown.go:45 promises the line of the heading).

## 4. Fairness

`store_liveness` and `server_serve` need fairness.

`Store!FairSpec` assumes weak fairness of `Step(p)`: a call that has begun takes its next step. The
code justifies it: a goroutine of a call is scheduled by Go, an SQL statement succeeds or fails
(busy_timeout), and a write to a file returns. Nothing is assumed about calls being made, about
faults, restarts or the clock.

`Server!FairSpec` assumes weak fairness of the steps of a tool (as above; Embed has a client
timeout of 30 s), strong fairness of `Lock(r)`, because sync.Mutex hands the lock over to a
waiter that has waited for a millisecond, and weak fairness of what main and ListenAndServe do by themselves: the 5 s
run out, Close and the return of main follow. Nothing is assumed of clients: `ReadBody` and `Write`, which
wait for them, may never happen. Nor is `Signal`.

## 5. Proofs

The theorems hold for every value of the constants that satisfies the named assumptions of
`Facts`, `Store`, `StoreProperties`, `Reads`, `Markdown`, `Neighbors`, `Hybrid`, `Queries` and `Server` (types of the constants, `NoKey`,
`NoValue`, `NoRow`, `None` not among the real values, every forget names a key or a tag, `ParsedBody` is what escaping and trimming make of a body, a number is
written in at least the digits it needs, words are no marks, what the routes call). Keys, log, time, faults, rescans and
requests need no bound and may be infinitely many. A theorem that needs more says so in its statement;
each such hypothesis is explained below.

### The write path, any number of processes

* `StoreProofs!TypeCorrect`: `Spec => []TypeOK`. One lemma per action.
* `StoreProofs!IndexIsNeverAhead`: `Spec => []IndexNeverAhead`. The invariant is not inductive: an upsert
  puts into the index what is in the local variables of its call. `NeverAheadInv` adds `InFlightLogged`: a
  process that is about to change the index holds an entry that is in the log, as it was appended
  or as a replay reads it back, and the entries a rescan has yet to replay are in the log. It is preserved
  because the log only grows (`LogGrows`), and because a call gets to its index statements only through
  its append or through a replay (`WayToIndex`).
* `StoreProofs!TagsAreOwn`: `Rescanners = {}` implies `Spec => []TagsOfOwnKey`, for any number of processes and faults. A Put
  joins its tags one statement after the other to the id that its upsert returned, so the invariant (`TagsInv`) speaks of that id while others
  go on: it has been given out, no row of another key has it or will have it (`IdsUnique`, `IdsMoveOn`, without Reset:
  `NoReplay`), and each tag that is joined to an id, also one that a prune or a failed Put left behind, was stored under
  the key of every row with that id (`TagsFit`).
* `StoreProofs!CeilingIsSoft`: `Spec => []SoftCeiling`, for finitely many processes (the bound counts them) of which
  none rescans (while a rescan rebuilds the table, others count a part of it). The number of live facts alone is not
  inductive: a call that has passed the check adds its key later. `CeilingInv` counts the keys that are live together with
  those that calls in flight may make live (`Occupied`). Only a count that finds room lets a call in, so at that moment the
  live keys are below the limit, and each other process holds one key at most.

### The write path, one process

Most users have one process on a directory. With two, `IndexFollowsLog` and `TagDeletionsMatch` are false
(`MCStore_shared_order.cfg`, `MCStore_rescan_race.cfg`, `MCStore_shared_tags.cfg`), so the hypothesis `Procs = {p}` is what the code needs.

* `StoreProofs!IndexIsDerived`: `Spec => []IndexFollowsLog`. `SoloInv` states, at every step of a call or of a rescan, which
  entries of the log the index reflects: all of them, but the one in flight and those that a replay has left (`RowsReflect`);
  that the entries which are left are later than the others (`InTurn`), because the clock orders the log and the replay
  takes the earliest; and that the join table has the tags of every row, but of the one that is being put (`TagsPut`, `OthersJoined`).
  An upsert or a soft deletion then adds one entry to what is reflected.
* `StoreProofs!RescanRecovers`: `Spec => []RescanRestores`, with any number of crashes, failing statements and clock steps. It is
  the same invariant: from the end of Reset on, what it says of a replay does not depend on what happened before (`InOrder`).
* `StoreProofs!TagDeletionsAreExact`: `Spec => TagDeletionsMatch`, where `MaxFaults = 0`, for a Put that fails half-way leaves the tags of
  two versions behind.
* `StoreProofs!OneProcessIsAMap`: `Spec => MemoryRefinement`, the refinement of `KeyValue`, one lemma per kind of step. `MemoryInv`
  adds to `SoloInv` that a store which has passed the capacity check still fits. The hypotheses are in `Setting`: nothing fails
  (a call that failed after its append is carried out by the next rescan, which the map does not allow); facts have no TTL (one that has is never live,
  but stays in the log); and `ParsedBody` is idempotent: what a rescan read from the files once, it reads again. The last is so in the program
  for every body of which no line ends in two carriage returns or more (the scanner takes one off each time): escaping adds a
  backslash once, and trimming is done after the first time. The constants of reads_single satisfy `Setting`.

### Reads

* `ReadProofs!ReadsKeepTheWritePath`: `ReadsSpec => Spec`. Each step of `Reads` is
  one of `Store` or leaves it alone (`ReadsStep`), so each theorem above holds of `Reads`.
* `ReadProofs!OnlyReturnedAreCounted`: `Rescanners = {}` implies `ReadsSpec => CountsOnlyReturned`. `CountInv` adds that an id
  among the hits of a read has been given out, and belongs to the key of the hit if any row has it (`HitsKnown`): without
  Reset (`NoReplay`) rows keep their ids, go, or come with a new one (`IdsMoveOn`), also after a prune, because of AUTOINCREMENT.
  With a rescan it is false (`MCReads_rescan.cfg`).
* `ReadProofs!AnswersComeFromTheLog`: `ReadsSpec => []ReadsAnswerTheLog`, for one process, with any lists, limits and filters, and with facts
  with and without a TTL. `AnswerInv` carries `SoloInv` over and adds that the hits of a read are still a selection
  from the rows: its own process cannot have changed them. `FindsWhatTheLogSays` relates the rows to the log,
  `AnswersTheLog` the order and the limit of the SELECT to the dates in the log. It supposes that `ParsedBody` is idempotent, as above.

### Hybrid search

* `HybridProofs!VectorsAreOfOwnKey`: `Spec => []VectorsOfOwnKey`. Not inductive: `StoreEmbedding` writes what the
  call has carried in its local variables while other processes went on. `OwnInv` adds that ids are unique and
  below the sequence (`IdsGivenOnce`), and that every vector that is in the table, in a cache or on its way belongs
  under its id (`Known`). `KnownStays` is the argument: a row that is made later gets a later id, so a vector whose
  id is below the sequence cannot come to be that of another key, and the texts of a key only grow with the log.
  A rescan breaks this (`MCHybrid_rescan.cfg`), therefore the invariant speaks of the time before the first.
* The four other properties are proved without hypotheses, in two parts. The first is about mergeRRF as
  operators, for lists of any length. `MergedAgreement`: what both rankings put above another has the greater score (`AgreementScores`, which is arithmetic on the fractions) and stands above it; if the cut
  leaves the other, it leaves it too. `MergedHalf`: let h be half of the limit, or the length of the keyword ranking if that is less. One of the first h of that ranking has
  a score above that of any id that only the cosine ranking has at a later place (`KeywordScores`). So if one of them is cut, only the
  first h of the cosine ranking can stand above it without being of the keyword ranking, and the other places, at
  least h, are taken by keyword hits (`MergedKeywords`, by counting); those were found as live facts, which the last loop keeps.
  The second part is `SearchInv`: what a search has found so far still holds of the table
  it meets now (`FoundOK`). Ids are given once between two rescans (`IdsGivenOnce`), so the ids of the keyword ranking are those of different facts
  until a rescan begins, or until one of them is pruned and stored again, which only a fact with a TTL can be
  (`StoredWithTtl`: the log knows); `LiveRows` says that the index shows no fact that the log has deleted before the first rescan.
  * `HalfIsKept`: `Spec => []HalfTheAnswerIsSafe`, `MergeRespectsAgreement`: `Spec => []AgreementKept`,
    `FactsAreFoundOnce`: `Spec => []OneHitPerFact`, `ForgottenStaysForgotten`: `Spec => []ForgottenNotFound`.

### Loops

A loop is the recursive function `Loops!After`. What it computes for every input needs induction, and the induction theorems of
the library take a predicate, which the provers cannot instantiate. `LoopProofs` states induction with a set in
the place of the predicate (`Induction`, from the library's theorem that every nonempty set has a least number by the
well-founded order `<`), shows that the recursion has a solution (`RunExists`) and that it is the only one (`RunsAgree`), and
derives what the other modules use: `AfterAppend`, `AfterConcat`, and `AfterInvariant`, the rule of the loop invariant. There `I[n]` is
the set of the states allowed after `n` members: a state of `I[0]` before the loop and steps from `I[n]` to `I[n + 1]`
give a state of `I[Len(s)]` after it.

### Log files

`NoLongLines` says that no body has a line longer than the scanner's buffer. `MCMarkdown_bodies.cfg` shows that the code needs it; every body
may hold any other lines, headings and separators included. The entries, their number, the writers and the torn writes are any.

* `MarkdownProofs!LogAlwaysParses`: `Spec => []AlwaysParses`, where `NoLongLines`. So a long line is the only thing that stops a rescan.
* `MarkdownProofs!LogIsReadBack`: `Spec => []ReadsWhatWasWritten`, and `MarkdownProofs!TearsAreLocal`: `Spec => []TearsStayLocal`, where
  `NoLongLines`. The argument is about the state of the scanner at the end of the file. From the state between two entries,
  it takes a block to one more entry and comes back to that state (the sections on blocks and their parts). From any other state, which
  only a torn write can leave, the separator of the next block brings it back; the block may be lost on the way, and what
  was collected before becomes an entry of its own. `FileInv` says so of the file: `Leftovers` (the scanner is in the midst
  of something only if the last write was torn), `Whole` (without torn writes the entries found are those appended) and `Matched`
  (the appended entries that do not follow a torn write are found, in order, and every other entry found has another time). The last
  needs `TimesDiffer`: the model gives each append a time of its own, to tell entries with equal contents apart.
* `MarkdownProofs!LinesAreReported`: `Spec => []LinesAgree`, where `NoLongLines` and for one writer. `Counted` adds that the lines it
  counted are still those of the file when it writes. With a second process it is false: between the count
  and the append another block may be written.

### Neighbours

* `NeighborProofs!RankingIsKept`: `Spec => []KeepsRanking`, without hypotheses. The loop invariant of `Walked` is `RankedIn`: the first hits
  stand in what was emitted, in their order, and no other hit does. It rests on the fact that a walk meets neighbours
  only, and no neighbour is a hit.
* `NeighborProofs!NeighborsAreReturned`: `Spec => []ReturnsNeighborhood`, where `UniqueNumbers`: no number of a prefix is stored in
  two ways. The candidates that are live are the neighbours a client asked for (`FoundAreNeighbors`), and the walks and the
  leftovers emit each of them once.
* `NeighborProofs!SequencesStandTogether`: `Spec => []StandsInSequence`, where `UniqueNumbers`. Walks of several hits meet and overlap, so the loop
  invariant has two parts: of the neighbours that follow each other without a gap, all were emitted or none (`AllOrNone`), and each
  that was emitted stands next to the one before it or after it (`Standing`). Then a side of a hit is put whole or not at all. A neighbour that
  no gap parts from a hit is no leftover: the last hit on the way to it walks to it (`ConnectedAreWalked`).

### Queries

Words, stop words, the cap and the length of a query are any.

* `QueryProofs!QueriesAreReadable`: `Spec => []ClosedQuotesSuffice`. The loop invariant of sanitizeFTSQuery: after every piece
  the lexer is outside strings (`Settled`), and the quotes before that place are even in number. If they are all even in number, a phrase that is
  opened is closed (`EvenMeansClosed`). The lexer takes a closing quote and an opening one beside it for a doubled quote; the string
  then goes on, and is closed by the next piece's last quote all the same, for a piece ends with a quote if it begins with one
  (`PieceSettles`).
* `QueryProofs!SyntaxReachesFTS5`: `Spec => []SyntaxIsKept`. What was written so far is the query up to that place. A token
  that needs quotes has a mark that the lexer refuses, an operator of one character, or a star inside; such a query is not one that FTS5
  can read, or not one that is free of operators, or not one whose stars end its tokens (`TokenIsKept`). What the lexer
  has met it does not forget: neither an error nor an operator outside strings can be undone by what follows (`OperatorsRemain`, `MetRemains`).
* `QueryProofs!QuestionsAskForKeywords`: `Spec => []QuestionAsksForKeywords`. `KeywordsAre`: the first loop collects words that are
  due, each once, and all of them or as many as the cap. `KeywordAdded`: if what the lexer has read asks for the
  first `n` keywords (`AsksFor`), then with OR, a word and a star for a long one it asks for the first `n + 1`. The expression is one
  that `SyntaxIsWrittenAsItWas` speaks of, so sanitizeFTSQuery adds nothing to it.

### Server

* `ServerProofs!ServerTypeCorrect`: `Spec => []TypeOK`, with how many entries a call still has to write
  (`TypeInv`).
* `ServerProofs!IndexFollowsLogOrder`: `Spec => []IndexInLogOrder`. Not inductive alone: `Apply` appends the
  entry that its request wrote some steps before. `OrderInv` adds that only the holder of `Store.mu` is between
  `Lock` and `Unlock` (`MutexHeld`), and that an entry that is yet to be applied is the last of the log and above all
  that were applied (`PendingIsLast`): no other request can have appended since.
* `ServerProofs!AnsweredWritesAreKept`: `Spec => []AnsweredIsKept`. `KeptInv` follows each request from `Lock` on: how
  many entries it has written, which of them are applied, and that its reply is an error as soon as a statement
  failed. It rests on `OrderInv`, because the entry a request applies has to be the one it wrote.
* `ServerProofs!ShutdownWaits`: `Spec => []CutOnlyByTimeout`. `EndOK` says which ends leave handlers at work, and that none is cut
  off before the process exits.
* `ServerProofs!NoTraceOfTheTurnedAway`: `Spec => []TurnedAwayLeavesNoTrace`. `TraceInv` follows a request from the transport's
  checks to its tool, and says that nothing else writes to the log.
* `ServerProofs!OneLineAtATime`: `Spec => []OneCallInDoubt`. `OneLine`: a line is read only when no other is at work, or has been cut off.
* `ServerProofs!OrphansAreReported`: `Spec => []OneUnreportedOrphan`. `SilentInv` adds that whoever sends a result has one. A write with
  an entry that the index lacks, and no error, is then between the file and its statement, or was cut off there (`SilentAt`);
  the former holds `Store.mu`, so at the one moment at which calls are cut off there is one of it at most.

### Only model-checked

`CallsReturn`, `CallsAreCarriedOut` and `ShutdownEnds`: liveness under fairness is out of the prover's reach.

## 6. Not modelled

* The ranking of full-text search (SQLite's bm25), and which queries beyond their tokens the grammar of FTS5 accepts.
* memory_get, which returns lines of a file; it changes nothing. The column last_accessed, which nothing reads.
* The arithmetic of vectors, the two wire formats of embedding providers, and their encoding as BLOBs.
* JSON, HTTP beyond what ends a handler, flags, environment variables, printing.

## 7. Plan

Done: `Facts`, `Store`, `Reads`, `Markdown`, `Neighbors`, `Hybrid`, `Queries`, `Server`, their properties and claims;
proofs of every safety property that a passing run checks. What could come next: facts with a TTL in the refinement of
`KeyValue`, several log files and the days they are named for, and the grammar of FTS5 above its tokens.
