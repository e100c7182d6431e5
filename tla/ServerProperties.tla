-------------------------- MODULE ServerProperties --------------------------
(***************************************************************************)
(* What a serving process keeps while its calls interleave and while it is *)
(* shut down, and what the documentation says that it does not keep.       *)
(***************************************************************************)
EXTENDS Server

\* The log entries that a request has written.
EntriesOf(r) == {i \in DOMAIN log : log[i] = r}

Applied == {index[i] : i \in DOMAIN index}

\* The call writes to the log, and this many entries.
IsWrite(r) == kind[r] # None /\ kind[r].call \in {"store", "forget", "forget_both"}
EntriesDue(r) == IF kind[r].call = "forget_both" THEN 2 ELSE 1

\* Store.mu has been released, or the process is gone.
Done(r) == stage[r] \in {"writing"} \cup Over
-----------------------------------------------------------------------------
(* Safety *)

\* SRV1: the handlers write their log entries and apply them one after another,
\* but nothing ties the two but Store.mu: the index gets the entries in the order
\* of the log, each at most once.  (A rescan replays the log in that order.)
IndexInLogOrder ==
    /\ \A i \in DOMAIN index : index[i] \in 1 .. Len(log)
    /\ \A i, j \in DOMAIN index : i < j => index[i] < index[j]

\* SRV2: a client that was told that its store or forget succeeded can rely on
\* it: every entry of the call is in the log and in the index, although the index
\* may have been closed under the call, and the process may be gone since.
AnsweredIsKept ==
    \A r \in Requests :
        Done(r) /\ reply[r] = "ok" /\ IsWrite(r)
            => /\ Cardinality(EntriesOf(r)) = EntriesDue(r)
               /\ EntriesOf(r) \subseteq Applied

\* SRV3: an entry that is in the log and not in the index waits for a rescan.  The
\* tool has returned an error for every write that left one, but for one write at
\* most: the one that a stop which did not wait caught between the file and the
\* index.
UnreportedOrphans ==
    {r \in Requests : /\ IsWrite(r) /\ Done(r) /\ reply[r] # "tool_error"
                      /\ EntriesOf(r) \ Applied # {}}

OneUnreportedOrphan ==
    /\ Cardinality(UnreportedOrphans) <= 1
    /\ UnreportedOrphans # {} => end \in {"timeout", "failed", "killed"}

\* SRV4: a graceful shutdown cuts a call off only if the 5 s were not enough.
CutOnlyByTimeout ==
    \A r \in Requests : stage[r] = "cut" => end \in {"timeout", "failed", "killed"}

\* SRV5: a request that was turned away, for whatever reason and in whatever
\* phase, has left no entry in the log.
TurnedAwayLeavesNoTrace ==
    \A r \in Requests :
        \/ stage[r] \in {"refused", "skipped"}
        \/ reply[r] \notin {"none", "ok", "tool_error"}
        \/ mode = "http" /\ kind[r] # None /\ ~kind[r].token
        => EntriesOf(r) = {}

\* SRV6: the client of a stdio server, which answers line by line, is in doubt
\* about one call at most: all the others that wrote to the log were answered.
OneCallInDoubt ==
    mode = "stdio" =>
        Cardinality({r \in Requests : EntriesOf(r) # {} /\ stage[r] # "answered"}) <= 1
-----------------------------------------------------------------------------
(* Liveness *)

\* SRV7: a call that was read is carried out, whatever the other clients do: one
\* that sends no body, or reads no answer, does not hold Store.mu.
CallsAreCarriedOut ==
    \A r \in Requests : stage[r] = "waiting" ~> Done(r)

\* SRV8: after a signal, or the end of the input, the process ends, even if a
\* client keeps its connection busy for ever.
ShutdownEnds == phase \in {"draining", "returned"} ~> phase = "exited"
-----------------------------------------------------------------------------
(* Claims that do not hold *)

\* http.go:44 "It performs a graceful shutdown on cancellation": a call that was
\* read before the signal is answered, unless the process is killed.
GracefulShutdown ==
    \A r \in Requests : stage[r] = "cut" => end \in {"failed", "killed"}
=============================================================================
