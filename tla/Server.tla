------------------------------- MODULE Server -------------------------------
(***************************************************************************)
(* A mem7 process that serves the tools: "mem7 serve", where each HTTP     *)
(* request has a handler of its own and Store.mu lets one tool call run at *)
(* a time, or the stdio server, which takes one line after another; and    *)
(* how the process ends.                                                   *)
(*                                                                         *)
(* A request is what the checks of the transports and of the Dispatcher    *)
(* tell apart.  The index is the list of the log entries whose statement   *)
(* succeeded.  A statement, or a write of the file, may fail at any time   *)
(* (the database is busy, the disk is full, another process rescans), and  *)
(* a statement fails once the index has been closed.  What a statement     *)
(* does, and other processes, are in module Store, and what Embed is for   *)
(* is in module Hybrid.                                                    *)
(***************************************************************************)
EXTENDS Integers, Sequences, FiniteSets

CONSTANTS Requests, \* the requests, or lines, that the process is sent
          Kinds,    \* what they may be
          Modes,    \* how the process may have been started
          None      \* nobody holds Store.mu; a request that has not arrived

Calls == {"store", "forget", "forget_both", "read", "reminder", "bad_args",
          "no_tool", "describe", "unknown"}

Replies == {"none", "ok", "tool_error", "unauthorized", "method_not_allowed",
            "parse_error", "invalid_request", "method_not_found"}

ASSUME KindsAssumption ==
    Kinds \subseteq [path : {"rpc", "reminder", "health"},
                     token : BOOLEAN,  \* it carries the bearer token
                     verb : {"GET", "POST"},
                     body : {"object", "garbage"},
                     v2 : BOOLEAN,     \* "jsonrpc" is "2.0"
                     id : BOOLEAN,     \* it has an id: it is no notification
                     call : Calls]
ASSUME RoutesAssumption ==
    \A k \in Kinds : /\ k.path = "reminder" => k.call = "reminder"
                     /\ k.path = "health" => k.call = "describe"
ASSUME ModesAssumption == Modes \subseteq {"http", "stdio"}
ASSUME NoneAssumption == None \notin Requests \cup Kinds

VARIABLES
    mode,   \* "http" or "stdio"
    phase,  \* of the life of the process
    end,    \* why the server stopped serving
    open,   \* the index is open
    holder, \* who holds Store.mu
    stage,  \* where each request is
    kind,   \* what each request is
    reply,  \* the answer to each request
    entry,  \* the log entry that each request wrote last
    parts,  \* how many entries each request has yet to write
    log,    \* the daily file: who wrote each entry
    index   \* the entries that were applied to the index, in that order

process == <<mode, phase, end, open>>
data == <<log, index, entry, parts>>
vars == <<process, holder, stage, kind, reply, data>>

Locked == {"check", "append", "apply", "embed", "select", "unlock"}
Handled == {"body", "waiting", "writing"} \cup Locked
Over == {"answered", "skipped", "refused", "cut"}

TypeOK ==
    /\ mode \in Modes
    /\ phase \in {"starting", "serving", "draining", "returned", "exited"}
    /\ end \in {"none", "listen", "drained", "timeout", "failed", "eof", "too_long", "killed"}
    /\ open \in BOOLEAN
    /\ holder \in Requests \cup {None}
    /\ stage \in [Requests -> {"new"} \cup Handled \cup Over]
    /\ kind \in [Requests -> Kinds \cup {None}]
    /\ reply \in [Requests -> Replies]
    /\ entry \in [Requests -> Nat]
    /\ parts \in [Requests -> 0 .. 2]
    /\ log \in Seq(Requests)
    /\ index \in Seq(Nat)

Init ==
    /\ mode \in Modes
    /\ phase = IF mode = "http" THEN "starting" ELSE "serving"
    /\ end = "none"
    /\ open = TRUE
    /\ holder = None
    /\ stage = [r \in Requests |-> "new"]
    /\ kind = [r \in Requests |-> None]
    /\ reply = [r \in Requests |-> "none"]
    /\ entry = [r \in Requests |-> 0]
    /\ parts = [r \in Requests |-> 0]
    /\ log = <<>>
    /\ index = <<>>

Busy == {r \in Requests : stage[r] \in Handled}
Running == phase \in {"serving", "draining", "returned"}

Goto(r, place) == stage' = [stage EXCEPT ![r] = place]

\* The answer is known.
Reply(r, answer, place) ==
    /\ reply' = [reply EXCEPT ![r] = answer]
    /\ Goto(r, place)
-----------------------------------------------------------------------------
(* The transports and the Dispatcher *)

\* What Dispatcher.Call answers without a call of the store, or "none".
DispatchReply(call) ==
    CASE call = "unknown" -> "method_not_found"
      [] call = "describe" -> "ok"
      [] call = "no_tool" -> "tool_error"
      [] OTHER -> "none"

\* The request goes to the Dispatcher unless it has an answer already.
Dispatch(r, answer, call) ==
    LET known == IF answer = "none" THEN DispatchReply(call) ELSE answer
    IN  IF known = "none" THEN Reply(r, "none", "waiting") ELSE Reply(r, known, "writing")

\* (Faulty variant.) The handler of /rpc without authMiddleware.
HeaderReplyToAnyone(k) ==
    IF k.path = "rpc" THEN "none" ELSE "ok"

\* What is answered when the header of a request has been read, or "none".
HeaderReply(k) ==
    CASE k.path = "health" -> IF k.verb = "GET" THEN "ok" ELSE "method_not_allowed"
      [] k.path # "health" /\ ~k.token -> "unauthorized"
      [] k.path # "health" /\ k.token /\ k.verb # "POST" -> "method_not_allowed"
      [] OTHER -> "none"

Is(r, k) == kind' = [kind EXCEPT ![r] = k]

\* The server has connections: while it shuts down, and after a shutdown that did
\* not end in time, a request may still come over one that was open before.
Connected ==
    \/ phase \in {"serving", "draining"}
    \/ phase = "returned" /\ end \in {"timeout", "failed"}

\* A request arrives: the route, the token and the verb are looked at.
Accept(r, k) ==
    LET answer == HeaderReply(k) IN
    /\ mode = "http" /\ Connected /\ stage[r] = "new"
    /\ Is(r, k)
    /\ \/ answer # "none" /\ Reply(r, answer, "writing")
       \/ answer = "none" /\ k.path = "rpc" /\ Reply(r, "none", "body")
       \/ answer = "none" /\ k.path = "reminder" /\ Dispatch(r, "none", k.call)
    /\ UNCHANGED <<process, holder, data>>

\* No one listens any more.
Refuse(r) ==
    /\ mode = "http" /\ phase \in {"draining", "returned", "exited"} /\ stage[r] = "new"
    /\ Goto(r, "refused")
    /\ UNCHANGED <<process, holder, kind, reply, data>>

\* handleRPC has read the body, or failed to: the client went away, or the body
\* is beyond 8 MiB.
ReadBody(r) ==
    LET k == kind[r] IN
    /\ Running /\ stage[r] = "body"
    /\ \E broken \in BOOLEAN :
        Dispatch(r,
                 CASE broken \/ k.body # "object" -> "parse_error"
                   [] ~broken /\ k.body = "object" /\ ~k.v2 -> "invalid_request"
                   [] OTHER -> "none",
                 k.call)
    /\ UNCHANGED <<process, holder, kind, data>>

\* The response is sent; a client that does not read may keep it from ending.
Write(r) ==
    /\ Running /\ stage[r] = "writing"
    /\ Goto(r, "answered")
    /\ UNCHANGED <<process, holder, kind, reply, data>>

\* (Faulty variant.) The stdio server begins a line before it has answered the
\* one before.
ReadLineAhead(r, k) ==
    /\ mode = "stdio" /\ phase = "serving" /\ stage[r] = "new"
    /\ Is(r, k)
    /\ IF k.body = "garbage" \/ ~k.id
       THEN Reply(r, "none", "skipped")
       ELSE Dispatch(r, "none", k.call)
    /\ UNCHANGED <<process, holder, data>>

\* serveStdio takes the next line.  What it cannot parse, and what has no id, is
\* skipped; "jsonrpc" is not looked at.
ReadLine(r, k) ==
    /\ mode = "stdio" /\ phase = "serving" /\ stage[r] = "new" /\ Busy = {}
    /\ Is(r, k)
    /\ IF k.body = "garbage" \/ ~k.id
       THEN Reply(r, "none", "skipped")
       ELSE Dispatch(r, "none", k.call)
    /\ UNCHANGED <<process, holder, data>>
-----------------------------------------------------------------------------
(* The tools, which all begin by locking Store.mu *)

\* (Faulty variant.) Two calls may be at work at once.
LockShared(r) ==
    /\ Running /\ stage[r] = "waiting"
    /\ holder' = r
    /\ parts' = [parts EXCEPT ![r] = IF kind[r].call = "forget_both" THEN 2 ELSE 1]
    /\ Goto(r, CASE kind[r].call = "store" -> "check"
                 [] kind[r].call \in {"forget", "forget_both"} -> "append"
                 [] OTHER -> "select")
    /\ UNCHANGED <<process, kind, reply, log, index, entry>>

\* The first step of a tool: ToolForget appends before any statement.
Lock(r) ==
    LET call == kind[r].call IN
    /\ Running /\ stage[r] = "waiting" /\ holder = None
    /\ holder' = r
    /\ parts' = [parts EXCEPT ![r] = IF call = "forget_both" THEN 2 ELSE 1]
    /\ \/ call = "store" /\ Reply(r, "none", "check")
       \/ call \in {"forget", "forget_both"} /\ Reply(r, "none", "append")
       \/ call \in {"read", "reminder"} /\ Reply(r, "none", "select")
       \/ call = "bad_args" /\ Reply(r, "tool_error", "unlock")
    /\ UNCHANGED <<process, kind, log, index, entry>>

Fail(r) == Reply(r, "tool_error", "unlock")

\* ToolStore's Count and Query; the memory may also be full.
Check(r) ==
    /\ Running /\ stage[r] = "check"
    /\ \/ open /\ Reply(r, "none", "append")
       \/ Fail(r)
    /\ UNCHANGED <<process, holder, kind, data>>

\* AppendStore, AppendDelete or AppendDeleteTags: the file needs no index.  What a
\* write that fails leaves behind is in module Markdown.
AppendEntry(r) ==
    /\ Running /\ stage[r] = "append"
    /\ \/ /\ log' = Append(log, r)
          /\ entry' = [entry EXCEPT ![r] = Len(log) + 1]
          /\ parts' = [parts EXCEPT ![r] = @ - 1]
          /\ Goto(r, "apply")
          /\ UNCHANGED reply
       \/ /\ Fail(r)
          /\ UNCHANGED <<log, entry, parts>>
    /\ UNCHANGED <<process, holder, kind, index>>

\* Where a tool goes on after it has applied an entry: the second tombstone of a
\* forget by key and tags, the embedding of a store, or the end.
AfterApply(r) ==
    IF parts[r] > 0 THEN "append"
    ELSE IF kind[r].call = "store" THEN "embed" ELSE "unlock"

\* (Faulty variant.) The error of the statement is not looked at.
ApplyUnlooked(r) ==
    /\ Running /\ stage[r] = "apply"
    /\ \/ open /\ index' = Append(index, entry[r])
       \/ UNCHANGED index
    /\ Goto(r, AfterApply(r))
    /\ UNCHANGED <<process, holder, kind, reply, log, entry, parts>>

\* Put, DeleteByEntity or DeleteByTags.  The entry stays in the log if it fails.
Apply(r) ==
    /\ Running /\ stage[r] = "apply"
    /\ \/ /\ open
          /\ index' = Append(index, entry[r])
          /\ Goto(r, AfterApply(r))
          /\ UNCHANGED reply
       \/ /\ Fail(r)
          /\ UNCHANGED index
    /\ UNCHANGED <<process, holder, kind, log, entry, parts>>

\* Embed, a call of up to 30 s, and what follows it: no error is looked at.
Embed(r) ==
    /\ Running /\ stage[r] = "embed"
    /\ Goto(r, "unlock")
    /\ UNCHANGED <<process, holder, kind, reply, data>>

\* The statements of a tool that only reads, or SnapshotReminder, which does not
\* look at the error of Count.
Select(r) ==
    /\ Running /\ stage[r] = "select"
    /\ \/ (open \/ kind[r].call = "reminder") /\ Reply(r, "none", "unlock")
       \/ kind[r].call # "reminder" /\ Fail(r)
    /\ UNCHANGED <<process, holder, kind, data>>

\* (Faulty variant.) An early return forgets the mutex.
UnlockAtTheEnd(r) ==
    /\ Running /\ stage[r] = "unlock"
    /\ holder' = IF reply[r] = "none" THEN None ELSE holder
    /\ Reply(r, IF reply[r] = "none" THEN "ok" ELSE reply[r], "writing")
    /\ UNCHANGED <<process, kind, data>>

\* The deferred Unlock; the result goes back to the transport.
Unlock(r) ==
    /\ Running /\ stage[r] = "unlock"
    /\ holder' = None
    /\ Reply(r, IF reply[r] = "none" THEN "ok" ELSE reply[r], "writing")
    /\ UNCHANGED <<process, kind, data>>
-----------------------------------------------------------------------------
(* The life of the process *)

Phase(p, why) ==
    /\ phase' = p
    /\ end' = why
    /\ UNCHANGED <<mode, open, holder, kind, reply, data>>

\* The port is bound, or it is not.
Listen ==
    /\ phase = "starting"
    /\ \/ Phase("serving", "none")
       \/ Phase("returned", "listen")
    /\ UNCHANGED stage

\* Accept fails for good: ListenAndServe returns, whatever is at work.
ListenerFails ==
    /\ mode = "http" /\ phase = "serving"
    /\ Phase("returned", "failed")
    /\ UNCHANGED stage

\* (Faulty variant.) The server is closed instead of shut down.
SignalCloses ==
    /\ mode = "http" /\ phase \in {"starting", "serving"}
    /\ Phase("returned", "drained")
    /\ UNCHANGED stage

\* SIGINT or SIGTERM: Shutdown closes the listener and waits, or has nothing to
\* wait for when the listener is not there yet.
Signal ==
    /\ mode = "http"
    /\ \/ phase = "serving" /\ Phase("draining", "none")
       \/ phase = "starting" /\ Phase("returned", "drained")
    /\ UNCHANGED stage

\* Every handler has returned.
Drained ==
    /\ phase = "draining" /\ Busy = {}
    /\ Phase("returned", "drained")
    /\ UNCHANGED stage

\* (Faulty variant.) Shutdown is given a context without a timeout.
NeverTimesOut ==
    /\ phase = "draining" /\ Busy = {}
    /\ Phase("returned", "timeout")
    /\ UNCHANGED stage

\* Shutdown has waited for 5 s; the handlers go on.
TimesOut ==
    /\ phase = "draining" /\ Busy # {}
    /\ Phase("returned", "timeout")
    /\ UNCHANGED stage

\* The end of the input of the stdio server, or a line beyond 4 MiB: what comes
\* after it is not read.
EndOfInput ==
    /\ mode = "stdio" /\ phase = "serving" /\ Busy = {}
    /\ \/ Phase("returned", "eof")
       \/ Phase("returned", "too_long")
    /\ UNCHANGED stage

\* The deferred Store.Close of runServe or runStdio.
CloseStore ==
    /\ phase = "returned" /\ open
    /\ open' = FALSE
    /\ UNCHANGED <<mode, phase, end, holder, stage, kind, reply, data>>

CutBusy == stage' = [r \in Requests |-> IF r \in Busy THEN "cut" ELSE stage[r]]

\* main returns: the handlers that are at work are gone.
Exit ==
    /\ phase = "returned" /\ ~open
    /\ Phase("exited", end)
    /\ CutBusy

\* The process is killed.  (SIGTERM does it to the stdio server.)
Kill ==
    /\ phase \in {"serving", "draining", "returned"}
    /\ Phase("exited", "killed")
    /\ CutBusy
-----------------------------------------------------------------------------
Tool(r) ==
    \/ Check(r) \/ AppendEntry(r) \/ Apply(r) \/ Embed(r) \/ Select(r) \/ Unlock(r)

Handle(r) ==
    \/ \E k \in Kinds : Accept(r, k) \/ ReadLine(r, k)
    \/ Refuse(r) \/ ReadBody(r) \/ Write(r)
    \/ Lock(r) \/ Tool(r)

Life ==
    \/ Listen \/ ListenerFails \/ Signal \/ Drained \/ TimesOut \/ EndOfInput
    \/ CloseStore \/ Exit \/ Kill

Next == Life \/ \E r \in Requests : Handle(r)

Spec == Init /\ [][Next]_vars

\* A tool ends: its statements do, Embed has a timeout of 30 s, and sync.Mutex
\* lets everyone in that waits.  The 5 s of Shutdown run out, and main goes on.
\* Nothing is assumed of a client: it may never send its body or read its answer.
FairSpec ==
    /\ Spec
    /\ \A r \in Requests : SF_vars(Lock(r)) /\ WF_vars(Tool(r))
    /\ WF_vars(Drained) /\ WF_vars(TimesOut) /\ WF_vars(CloseStore) /\ WF_vars(Exit)
=============================================================================
