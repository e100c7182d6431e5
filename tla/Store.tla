------------------------------- MODULE Store -------------------------------
(***************************************************************************)
(* The write path of mem7: memory.Store over its markdown log and its      *)
(* SQLite index, in several processes that share one data directory.       *)
(*                                                                         *)
(* A process is one mem7: the stdio server of one client or "mem7 serve",  *)
(* which serve the tools, or the command line's rescan and prune; one      *)
(* process of the model may be several of them in turn.  Store.mu lets one *)
(* tool call run at a time in a process, so a process is one sequence of   *)
(* steps; between processes nothing but a single SQL statement, or the     *)
(* append of one log block, is atomic, and that is the granularity of the  *)
(* actions below.                                                          *)
(* No embedder is configured (Store.emb = nil).                            *)
(***************************************************************************)
EXTENDS Facts

CONSTANTS Procs,       \* the processes that share the data directory
          Servers,     \* the processes that serve memory_store and memory_forget
          Rescanners,  \* the processes that run Rescan
          StoreCalls,  \* the arguments memory_store is called with
          ForgetCalls, \* the arguments memory_forget is called with
          MaxEntries,  \* MEM7_MAX_ENTRIES
          MaxLog,      \* bound of the model: calls begin below this log length
          MaxTime,     \* bound of the model: where the clock stops
          MaxFaults    \* bound of the model: crashes and failing statements

ASSUME ProcsAssumption == Servers \subseteq Procs /\ Rescanners \subseteq Procs
ASSUME StoreCallsAssumption ==
    StoreCalls \subseteq [key : Keys, val : Values, tags : SUBSET Tags,
                          agent : Agents, ttl : Int]
ASSUME ForgetCallsAssumption ==
    /\ ForgetCalls \subseteq [key : Keys \cup {NoKey}, tags : SUBSET Tags]
    /\ \A call \in ForgetCalls : call.key # NoKey \/ call.tags # {}
ASSUME BoundsAssumption ==
    /\ MaxEntries \in Nat \ {0}
    /\ MaxLog \in Nat
    /\ MaxTime \in Nat
    /\ MaxFaults \in Nat

VARIABLES
    now,      \* the clock of the machine, in seconds
    log,      \* the daily markdown files, in the order of their appends
    tables,   \* the tables that exist: "facts", "fact_tags"
    facts,    \* the table facts: the row of each key, or NoRow
    factTags, \* the table fact_tags: <<fact_id, tag>> pairs
    nextId,   \* the AUTOINCREMENT sequence of facts
    pc,       \* where each process is
    loc,      \* the local variables of the call each process executes
    faults    \* how many faults have happened

disk == <<log, tables, facts, factTags, nextId>>
vars == <<now, disk, pc, loc, faults>>

\* The local variables of a call.
\*   ent     the fact or tombstone being written, or replayed
\*   full    ToolStore counted maxCount live facts or more
\*   rowid   the id that the upsert of Put returned
\*   pend    the tags that Put has yet to insert into fact_tags, or the tags
\*           that ToolForget has yet to bury after the key
\*   replay  the call is a Rescan
\*   todo    the parsed log entries that Rescan has yet to replay
\*   asof    the time Rescan read before its replay
Locals == [ent : Entries,
           full : BOOLEAN,
           rowid : Nat,
           pend : SUBSET Tags,
           replay : BOOLEAN,
           todo : SUBSET Nat,
           asof : Nat]

NoLocals == [ent |-> BlankEntry, full |-> FALSE, rowid |-> 0, pend |-> {},
             replay |-> FALSE, todo |-> {}, asof |-> 0]

Places == {"down", "idle", "lookup", "append", "upsert", "clear_tags",
           "insert_tag", "delete", "drop_facts", "create_facts",
           "create_fact_tags", "parse", "next", "count"}

TypeOK ==
    /\ now \in Nat
    /\ log \in Seq(Entries)
    /\ tables \subseteq {"facts", "fact_tags"}
    /\ facts \in [Keys -> Rows \cup {NoRow}]
    /\ factTags \subseteq Nat \X Tags
    /\ nextId \in Nat
    /\ pc \in [Procs -> Places]
    /\ loc \in [Procs -> Locals]
    /\ faults \in Nat

Init ==
    /\ now = 0
    /\ log = <<>>
    /\ tables = {"facts", "fact_tags"}
    /\ facts = [k \in Keys |-> NoRow]
    /\ factTags = {}
    /\ nextId = 1
    /\ pc = [p \in Procs |-> "idle"]
    /\ loc = [p \in Procs |-> NoLocals]
    /\ faults = 0
-----------------------------------------------------------------------------
\* Count: the number of live rows.
LiveKeys == {k \in Keys : Live(facts[k], now)}
LiveCount == Cardinality(LiveKeys)

Goto(p, place) == pc' = [pc EXCEPT ![p] = place]

\* The call returns, with a result or with an error.
Return(p) ==
    /\ Goto(p, "idle")
    /\ loc' = [loc EXCEPT ![p] = NoLocals]

\* A call that appends is begun while the log has room for it (MaxLog).
LogHasRoom ==
    Len(log) + Cardinality({p \in Procs : pc[p] \in {"lookup", "append"}}) < MaxLog
-----------------------------------------------------------------------------
(* memory_store *)

\* ToolStore with its first statement, Count.  Without the table it fails.
BeginStore(p, call) ==
    /\ pc[p] = "idle"
    /\ p \in Servers
    /\ LogHasRoom
    /\ "facts" \in tables
    /\ loc' = [loc EXCEPT ![p].ent =
                   [BlankEntry EXCEPT !.op = "store", !.key = call.key,
                        !.val = call.val, !.tags = call.tags,
                        !.agent = call.agent, !.ttl = call.ttl],
               ![p].full = LiveCount >= MaxEntries]
    /\ Goto(p, "lookup")
    /\ UNCHANGED <<now, disk, faults>>

\* The fact of ToolStore: an existing live fact keeps its created time, and its
\* agent when the call names none.
Stamped(e, old) ==
    IF Live(old, now)
    THEN [e EXCEPT !.time = now, !.created = old.created,
                   !.agent = IF e.agent = NoAgent THEN old.agent ELSE e.agent]
    ELSE [e EXCEPT !.time = now, !.created = now]

\* (Faulty variant.) ToolStore without its capacity check.
LookUpUnchecked(p) ==
    LET e == loc[p].ent IN
    /\ pc[p] = "lookup"
    /\ "facts" \in tables
    /\ loc' = [loc EXCEPT ![p].ent = Stamped(e, facts[e.key])]
    /\ Goto(p, "append")
    /\ UNCHANGED <<now, disk, faults>>

\* ToolStore's Query of the key, the capacity check, and the time stamp.
LookUp(p) ==
    LET e == loc[p].ent
        old == facts[e.key]
    IN
    /\ pc[p] = "lookup"
    /\ "facts" \in tables
    /\ IF ~Live(old, now) /\ loc[p].full
       THEN Return(p)
       ELSE /\ loc' = [loc EXCEPT ![p].ent = Stamped(e, old)]
            /\ Goto(p, "append")
    /\ UNCHANGED <<now, disk, faults>>

\* appendToDaily: one write of the whole block to a file opened for appending.
AppendEntry(p) ==
    /\ pc[p] = "append"
    /\ log' = Append(log, loc[p].ent)
    /\ Goto(p, IF loc[p].ent.op = "store" THEN "upsert" ELSE "delete")
    /\ UNCHANGED <<now, tables, facts, factTags, nextId, loc, faults>>

\* (Faulty variant.) The error of a failed append is not looked at.
AppendFailsUnnoticed(p) ==
    /\ pc[p] = "append"
    /\ faults < MaxFaults
    /\ faults' = faults + 1
    /\ Goto(p, IF loc[p].ent.op = "store" THEN "upsert" ELSE "delete")
    /\ UNCHANGED <<now, disk, loc>>

\* The append fails, and the call returns the error.
AppendFails(p) ==
    /\ pc[p] = "append"
    /\ faults < MaxFaults
    /\ faults' = faults + 1
    /\ Return(p)
    /\ UNCHANGED <<now, disk>>
-----------------------------------------------------------------------------
(* The statements of Put, for ToolStore and for Rescan *)

\* Rescan goes on to the next entry, ToolStore returns.
PutReturns(p) ==
    IF loc[p].replay
    THEN /\ Goto(p, "next")
         /\ loc' = [loc EXCEPT ![p].ent = BlankEntry, ![p].rowid = 0, ![p].pend = {}]
    ELSE Return(p)

\* (Faulty variant.) The table has no AUTOINCREMENT: a new row gets the id after
\* the highest that is in use.
UpsertReusingIds(p) ==
    LET e == loc[p].ent
        ids == {0} \cup {facts[k].id : k \in {l \in Keys : facts[l] # NoRow}}
        row == Upserted(facts[e.key], (CHOOSE i \in ids : \A j \in ids : j <= i) + 1, e)
    IN
    /\ pc[p] = "upsert"
    /\ "facts" \in tables
    /\ facts' = [facts EXCEPT ![e.key] = row]
    /\ nextId' = nextId + 1
    /\ loc' = [loc EXCEPT ![p].rowid = row.id, ![p].pend = e.tags]
    /\ Goto(p, "clear_tags")
    /\ UNCHANGED <<now, log, tables, factTags, faults>>

\* INSERT ... ON CONFLICT DO UPDATE.  Both outcomes take a sequence number.
Upsert(p) ==
    LET e == loc[p].ent
        row == Upserted(facts[e.key], nextId, e)
    IN
    /\ pc[p] = "upsert"
    /\ "facts" \in tables
    /\ facts' = [facts EXCEPT ![e.key] = row]
    /\ nextId' = nextId + 1
    /\ loc' = [loc EXCEPT ![p].rowid = row.id, ![p].pend = e.tags]
    /\ Goto(p, "clear_tags")
    /\ UNCHANGED <<now, log, tables, factTags, faults>>

\* (Faulty variant.) The old tags of the fact are left in the join table.
ClearTagsNot(p) ==
    /\ pc[p] = "clear_tags"
    /\ "fact_tags" \in tables
    /\ IF loc[p].pend = {}
       THEN PutReturns(p)
       ELSE Goto(p, "insert_tag") /\ UNCHANGED loc
    /\ UNCHANGED <<now, disk, faults>>

\* DELETE FROM fact_tags WHERE fact_id = ?
ClearTags(p) ==
    /\ pc[p] = "clear_tags"
    /\ "fact_tags" \in tables
    /\ factTags' = {ft \in factTags : ft[1] # loc[p].rowid}
    /\ IF loc[p].pend = {}
       THEN PutReturns(p)
       ELSE Goto(p, "insert_tag") /\ UNCHANGED loc
    /\ UNCHANGED <<now, log, tables, facts, nextId, faults>>

\* INSERT INTO fact_tags, once for each tag.
InsertTag(p) ==
    /\ pc[p] = "insert_tag"
    /\ "fact_tags" \in tables
    /\ \E tag \in loc[p].pend :
        /\ factTags' = factTags \cup {<<loc[p].rowid, tag>>}
        /\ IF loc[p].pend = {tag}
           THEN PutReturns(p)
           ELSE /\ loc' = [loc EXCEPT ![p].pend = @ \ {tag}]
                /\ UNCHANGED pc
    /\ UNCHANGED <<now, log, tables, facts, nextId, faults>>
-----------------------------------------------------------------------------
(* memory_forget *)

\* ToolForget reads the clock once.  It buries the key, then the tags.
BeginForget(p, call) ==
    /\ pc[p] = "idle"
    /\ p \in Servers
    /\ LogHasRoom
    /\ loc' = [loc EXCEPT
                 ![p].ent = IF call.key # NoKey THEN KeyTombstone(call.key, now)
                                                ELSE TagsTombstone(call.tags, now),
                 ![p].pend = IF call.key # NoKey THEN call.tags ELSE {}]
    /\ Goto(p, "append")
    /\ UNCHANGED <<now, disk, faults>>

\* After a delete: Rescan takes the next entry; ToolForget writes the tombstone
\* of the tags if it still has to, and else returns.
DeleteReturns(p) ==
    CASE loc[p].replay ->
            /\ Goto(p, "next")
            /\ loc' = [loc EXCEPT ![p].ent = BlankEntry]
      [] ~loc[p].replay /\ loc[p].pend # {} ->
            /\ Goto(p, "append")
            /\ loc' = [loc EXCEPT ![p].pend = {},
                         ![p].ent = TagsTombstone(loc[p].pend, loc[p].ent.time)]
      [] OTHER -> Return(p)

SoftDeleted(row) == [row EXCEPT !.deleted = TRUE]

\* UPDATE facts SET deleted_at WHERE entity = ? AND deleted_at IS NULL.  A row
\* already deleted keeps its stamp, so it is enough to say it is deleted.
DeleteByEntity(p) ==
    /\ pc[p] = "delete"
    /\ loc[p].ent.op = "delete"
    /\ "facts" \in tables
    /\ facts' = [k \in Keys |->
                    IF k = loc[p].ent.key /\ facts[k] # NoRow
                    THEN SoftDeleted(facts[k]) ELSE facts[k]]
    /\ DeleteReturns(p)
    /\ UNCHANGED <<now, log, tables, factTags, nextId, faults>>

\* UPDATE facts SET deleted_at WHERE deleted_at IS NULL AND EXISTS (...) ...
DeleteByTags(p) ==
    /\ pc[p] = "delete"
    /\ loc[p].ent.op = "delete_tags"
    /\ {"facts", "fact_tags"} \subseteq tables
    /\ facts' = [k \in Keys |->
                    IF /\ facts[k] # NoRow
                       /\ TaggedWithAll(facts[k], loc[p].ent.tags, factTags)
                    THEN SoftDeleted(facts[k]) ELSE facts[k]]
    /\ DeleteReturns(p)
    /\ UNCHANGED <<now, log, tables, factTags, nextId, faults>>
-----------------------------------------------------------------------------
(* prune and rescan *)

\* Prune: DELETE FROM facts WHERE ...; the rows of fact_tags stay, because the
\* foreign_keys pragma that would make ON DELETE CASCADE work is off.
Prune(p) ==
    /\ pc[p] = "idle"
    /\ "facts" \in tables
    /\ facts' = [k \in Keys |-> IF Purged(facts[k], now) THEN NoRow ELSE facts[k]]
    /\ UNCHANGED <<now, log, tables, factTags, nextId, pc, loc, faults>>

\* Reset drops fact_tags, drops facts, and runs the schema script again.
\* First, DROP TABLE fact_tags.
BeginRescan(p) ==
    /\ pc[p] = "idle"
    /\ p \in Rescanners
    /\ tables' = tables \ {"fact_tags"}
    /\ factTags' = {}
    /\ loc' = [loc EXCEPT ![p].replay = TRUE]
    /\ Goto(p, "drop_facts")
    /\ UNCHANGED <<now, log, facts, nextId, faults>>

\* DROP TABLE facts, and with it its AUTOINCREMENT sequence.
DropFacts(p) ==
    /\ pc[p] = "drop_facts"
    /\ tables' = tables \ {"facts"}
    /\ facts' = [k \in Keys |-> NoRow]
    /\ nextId' = 1
    /\ Goto(p, "create_facts")
    /\ UNCHANGED <<now, log, factTags, loc, faults>>

CreateFacts(p) ==
    /\ pc[p] = "create_facts"
    /\ tables' = tables \cup {"facts"}
    /\ Goto(p, "create_fact_tags")
    /\ UNCHANGED <<now, log, facts, factTags, nextId, loc, faults>>

CreateFactTags(p) ==
    /\ pc[p] = "create_fact_tags"
    /\ tables' = tables \cup {"fact_tags"}
    /\ Goto(p, "parse")
    /\ UNCHANGED <<now, log, facts, factTags, nextId, loc, faults>>

\* Rescan reads and parses every daily file, and then the clock.
Parse(p) ==
    /\ pc[p] = "parse"
    /\ loc' = [loc EXCEPT ![p].todo = 1 .. Len(log), ![p].asof = now]
    /\ Goto(p, "next")
    /\ UNCHANGED <<now, disk, faults>>

\* (Faulty variant.) The sort is not stable: entries of a second in any order.
NextInAnyOrder(lg, todo, i) == i \in todo /\ \A j \in todo : lg[i].time <= lg[j].time

\* The loop of Rescan: the entry whose turn it is, after sort.SliceStable.
NextInOrder(lg, todo, i) == i \in todo /\ \A j \in todo \ {i} : EarlierIn(lg, i, j)

SkipExpired(p) ==
    /\ pc[p] = "next"
    /\ \E i \in loc[p].todo :
        /\ NextInOrder(log, loc[p].todo, i)
        /\ log[i].op = "store"
        /\ MaySkip(log[i], loc[p].asof)
        /\ loc' = [loc EXCEPT ![p].todo = @ \ {i}]
    /\ UNCHANGED <<now, disk, pc, faults>>

Replay(p) ==
    /\ pc[p] = "next"
    /\ \E i \in loc[p].todo :
        /\ NextInOrder(log, loc[p].todo, i)
        /\ log[i].op = "store" => MayApply(log[i], loc[p].asof)
        /\ loc' = [loc EXCEPT ![p].todo = @ \ {i}, ![p].ent = ReadBack(log[i])]
        /\ Goto(p, IF log[i].op = "store" THEN "upsert" ELSE "delete")
    /\ UNCHANGED <<now, disk, faults>>

EndOfReplay(p) ==
    /\ pc[p] = "next"
    /\ loc[p].todo = {}
    /\ Goto(p, "count")
    /\ UNCHANGED <<now, disk, loc, faults>>

\* Rescan ends with Count.
RescanReturns(p) ==
    /\ pc[p] = "count"
    /\ Return(p)
    /\ UNCHANGED <<now, disk, faults>>
-----------------------------------------------------------------------------
(* Failures *)

\* The tables that the next statement of p names; Reset and the schema script
\* say IF EXISTS and IF NOT EXISTS, and need none.
Needs(p) ==
    CASE pc[p] \in {"lookup", "upsert", "count"} -> {"facts"}
      [] pc[p] \in {"clear_tags", "insert_tag"} -> {"fact_tags"}
      [] pc[p] = "delete" /\ loc[p].ent.op = "delete" -> {"facts"}
      [] pc[p] = "delete" /\ loc[p].ent.op = "delete_tags" -> {"facts", "fact_tags"}
      [] OTHER -> {}

\* (Faulty variant.) A statement without its table is tried again and again.
RetriesForever(p) ==
    /\ ~(Needs(p) \subseteq tables)
    /\ UNCHANGED vars

\* A statement fails because another process has dropped a table it names.
NoSuchTable(p) ==
    /\ ~(Needs(p) \subseteq tables)
    /\ Return(p)
    /\ UNCHANGED <<now, disk, faults>>

\* A statement fails for another reason (the database is locked for longer than
\* busy_timeout, the disk is full), or a daily file cannot be read or parsed.
\* The call returns the error and leaves what its earlier steps did.
StepFails(p) ==
    /\ pc[p] \in Places \ {"down", "idle", "append", "next"}
    /\ faults < MaxFaults
    /\ faults' = faults + 1
    /\ Return(p)
    /\ UNCHANGED <<now, disk>>

\* The process dies, at any step of any call.
Crash(p) ==
    /\ pc[p] # "down"
    /\ faults < MaxFaults
    /\ faults' = faults + 1
    /\ Goto(p, "down")
    /\ loc' = [loc EXCEPT ![p] = NoLocals]
    /\ UNCHANGED <<now, disk>>

\* newSQLiteStore: the schema script creates the tables that do not exist.
Restart(p) ==
    /\ pc[p] = "down"
    /\ tables' = {"facts", "fact_tags"}
    /\ Goto(p, "idle")
    /\ UNCHANGED <<now, log, facts, factTags, nextId, loc, faults>>

Tick ==
    /\ now < MaxTime
    /\ now' = now + 1
    /\ UNCHANGED <<disk, pc, loc, faults>>

\* The clock of the machine is set back: the program stamps entries with wall
\* clock time and sorts the log by those stamps.
ClockStepsBack ==
    /\ faults < MaxFaults
    /\ faults' = faults + 1
    /\ now > 0
    /\ now' = now - 1
    /\ UNCHANGED <<disk, pc, loc>>
-----------------------------------------------------------------------------
\* A step of the call that p executes, its failure for want of a table included.
Step(p) ==
    \/ LookUp(p) \/ AppendEntry(p)
    \/ Upsert(p) \/ ClearTags(p) \/ InsertTag(p)
    \/ DeleteByEntity(p) \/ DeleteByTags(p)
    \/ DropFacts(p) \/ CreateFacts(p) \/ CreateFactTags(p)
    \/ Parse(p) \/ SkipExpired(p) \/ Replay(p) \/ EndOfReplay(p) \/ RescanReturns(p)
    \/ NoSuchTable(p)

Begin(p) ==
    \/ \E call \in StoreCalls : BeginStore(p, call)
    \/ \E call \in ForgetCalls : BeginForget(p, call)
    \/ BeginRescan(p)
    \/ Prune(p)

Fault(p) == AppendFails(p) \/ StepFails(p) \/ Crash(p)

Next ==
    \/ \E p \in Procs : Step(p) \/ Begin(p) \/ Fault(p) \/ Restart(p)
    \/ Tick
    \/ ClockStepsBack

Spec == Init /\ [][Next]_vars

\* Go schedules the goroutine of a call, SQLite answers or fails within
\* busy_timeout, and file writes return: a call that has begun takes its steps.
FairSpec == Spec /\ \A p \in Procs : WF_vars(Step(p))
=============================================================================
