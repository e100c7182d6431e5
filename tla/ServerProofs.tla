---------------------------- MODULE ServerProofs ----------------------------
(***************************************************************************)
(* Theorems about Server for every number and sort of requests, in both    *)
(* modes.                                                                  *)
(***************************************************************************)
EXTENDS ServerProperties, FiniteSetTheorems, TLAPS

\* A call that is about to append has an entry left to write.
PartsOK == \A r \in Requests : stage[r] \in {"check", "append"} => parts[r] > 0

TypeInv == TypeOK /\ PartsOK

\* Store.mu: who is in a tool holds it.
MutexHeld == \A r \in Requests : stage[r] \in Locked => holder = r

\* The entry that waits to be applied is the last of the log, and beyond what
\* the index has.
PendingIsLast ==
    \A r \in Requests : stage[r] = "apply" =>
        /\ entry[r] = Len(log) /\ Len(log) > 0
        /\ \A i \in DOMAIN index : index[i] < entry[r]

OrderInv == TypeInv /\ MutexHeld /\ PendingIsLast /\ IndexInLogOrder

-----------------------------------------------------------------------------
(* Type correctness *)

LEMMA AnswersAreReplies ==
  ASSUME NEW k, NEW call
  PROVE  HeaderReply(k) \in Replies /\ DispatchReply(call) \in Replies
  BY DEF HeaderReply, DispatchReply, Replies

\* Dispatch answers a request or lets it wait for the mutex.
LEMMA DispatchType ==
  ASSUME NEW r \in Requests, NEW answer \in Replies, NEW call, Dispatch(r, answer, call)
  PROVE  \E known \in Replies, place \in {"waiting", "writing"} : Reply(r, known, place)
<1>1. DispatchReply(call) \in Replies /\ "none" \in Replies
  BY AnswersAreReplies DEF Replies
<1> QED
  BY <1>1 DEF Dispatch

LEMMA InitType == Init => TypeInv
  BY DEF Init, TypeInv, TypeOK, PartsOK, Replies, Handled, Over, Locked

\* What the steps of a request do to where it is, and to its answer.
Moves(r) ==
    \E known \in Replies, place \in Handled \cup Over : Reply(r, known, place)

LEMMA TransportMoves ==
  ASSUME TypeInv, NEW r \in Requests,
         \/ \E k \in Kinds : Accept(r, k) \/ ReadLine(r, k)
         \/ Refuse(r) \/ ReadBody(r) \/ Write(r)
  PROVE  /\ \E known \in Replies,
               place \in {"body", "waiting", "writing", "answered", "skipped", "refused"} :
                 Reply(r, known, place)
         /\ kind' \in [Requests -> Kinds \cup {None}]
         /\ UNCHANGED <<process, holder, data>>
<1>1. /\ reply \in [Requests -> Replies] /\ "none" \in Replies
      /\ kind \in [Requests -> Kinds \cup {None}]
  BY DEF TypeInv, TypeOK, Replies
<1>2. ASSUME NEW place, Goto(r, place), UNCHANGED reply
      PROVE  Reply(r, reply[r], place)
  BY <1>1, <1>2 DEF Reply, Goto
<1>3. ASSUME NEW k \in Kinds, Accept(r, k)
      PROVE  /\ \E known \in Replies, place \in {"body", "waiting", "writing"} :
                   Reply(r, known, place)
             /\ kind' \in [Requests -> Kinds \cup {None}]
  <2>1. HeaderReply(k) \in Replies
    BY AnswersAreReplies
  <2>2. kind' \in [Requests -> Kinds \cup {None}]
    BY <1>1, <1>3 DEF Accept, Is
  <2> QED
    BY <1>1, <1>3, <2>1, <2>2, DispatchType DEF Accept
<1>4. ASSUME NEW k \in Kinds, ReadLine(r, k)
      PROVE  /\ \E known \in Replies, place \in {"skipped", "waiting", "writing"} :
                   Reply(r, known, place)
             /\ kind' \in [Requests -> Kinds \cup {None}]
  <2>1. kind' \in [Requests -> Kinds \cup {None}]
    BY <1>1, <1>4 DEF ReadLine, Is
  <2> QED
    BY <1>1, <1>4, <2>1, DispatchType DEF ReadLine
<1>5. ASSUME ReadBody(r)
      PROVE  \E known \in Replies, place \in {"waiting", "writing"} : Reply(r, known, place)
  BY <1>5, DispatchType DEF ReadBody, Replies
<1>6. ASSUME Refuse(r) \/ Write(r)
      PROVE  \E place \in {"refused", "answered"} : Reply(r, reply[r], place)
  BY <1>2, <1>6 DEF Refuse, Write
<1>7. UNCHANGED <<process, holder, data>>
  BY DEF Accept, ReadLine, Refuse, ReadBody, Write
<1>8. Refuse(r) \/ ReadBody(r) \/ Write(r) => UNCHANGED kind
  BY DEF Refuse, ReadBody, Write
<1> QED
  BY <1>1, <1>3, <1>4, <1>5, <1>6, <1>7, <1>8

LEMMA LifeMoves ==
  ASSUME TypeInv, Life
  PROVE  /\ phase' \in {"starting", "serving", "draining", "returned", "exited"}
         /\ end' \in {"none", "listen", "drained", "timeout", "failed", "eof", "too_long",
                      "killed"}
         /\ open' \in BOOLEAN
         /\ stage' \in [Requests -> {"new"} \cup Handled \cup Over]
         /\ \A r \in Requests : stage'[r] \in {stage[r], "cut"}
         /\ UNCHANGED <<mode, holder, kind, reply, data>>
<1>1. /\ stage \in [Requests -> {"new"} \cup Handled \cup Over]
      /\ open \in BOOLEAN
      /\ end \in {"none", "listen", "drained", "timeout", "failed", "eof", "too_long", "killed"}
  BY DEF TypeInv, TypeOK
<1>2. ASSUME CutBusy
      PROVE  /\ stage' \in [Requests -> {"new"} \cup Handled \cup Over]
             /\ \A r \in Requests : stage'[r] \in {stage[r], "cut"}
  BY <1>1, <1>2 DEF CutBusy, Over
<1>3. CASE Listen \/ ListenerFails \/ Signal
  BY <1>1, <1>3 DEF Listen, ListenerFails, Signal, Phase
<1>4. CASE Drained \/ TimesOut \/ EndOfInput
  BY <1>1, <1>4 DEF Drained, TimesOut, EndOfInput, Phase
<1>5. CASE CloseStore
  BY <1>1, <1>5 DEF CloseStore
<1>6. CASE Exit \/ Kill
  BY <1>1, <1>2, <1>6 DEF Exit, Kill, Phase
<1> QED
  BY <1>3, <1>4, <1>5, <1>6 DEF Life

\* The frame of the steps that belong to no tool.
Outside ==
    /\ log' = log /\ index' = index /\ entry' = entry /\ parts' = parts
    /\ holder' = holder
    /\ \A r \in Requests : stage'[r] \in Locked => stage'[r] = stage[r]

LEMMA OutsideFrame ==
  ASSUME TypeInv, [Next]_vars
  PROVE  \/ Outside
         \/ \E r \in Requests : Lock(r) \/ Tool(r)
<1>1. stage \in [Requests -> {"new"} \cup Handled \cup Over]
  BY DEF TypeInv, TypeOK
<1>2. CASE Life
  BY <1>2, LifeMoves DEF Outside, data, Locked
<1>3. ASSUME NEW r \in Requests,
             \/ \E k \in Kinds : Accept(r, k) \/ ReadLine(r, k)
             \/ Refuse(r) \/ ReadBody(r) \/ Write(r)
      PROVE  Outside
  <2>1. /\ UNCHANGED <<holder, data>>
        /\ \E place \in {"body", "waiting", "writing", "answered", "skipped", "refused"} :
             Goto(r, place)
    BY <1>3, TransportMoves DEF Reply
  <2>2. \A q \in Requests : stage'[q] \in Locked => stage'[q] = stage[q]
    BY <1>1, <2>1 DEF Goto, Locked
  <2> QED
    BY <2>1, <2>2 DEF Outside, data
<1>4. CASE UNCHANGED vars
  BY <1>4 DEF vars, data, Outside
<1> QED
  BY <1>2, <1>3, <1>4 DEF Next, Handle

\* What a step of a tool does to where its request is, and to its answer.
LEMMA ToolMoves ==
  ASSUME TypeInv, NEW r \in Requests, Lock(r) \/ Tool(r)
  PROVE  /\ \E known \in Replies, place \in {"writing"} \cup Locked : Reply(r, known, place)
         /\ UNCHANGED <<process, kind>>
<1>1. /\ reply \in [Requests -> Replies]
      /\ {"none", "ok", "tool_error"} \subseteq Replies
      /\ reply[r] \in Replies
  BY DEF TypeInv, TypeOK, Replies
<1>2. ASSUME NEW place, Goto(r, place), UNCHANGED reply
      PROVE  Reply(r, reply[r], place)
  BY <1>1, <1>2 DEF Reply, Goto
<1>3. UNCHANGED <<process, kind>>
  BY DEF Lock, Tool, Check, AppendEntry, Apply, Embed, Select, Unlock
<1>4. CASE Lock(r)
  BY <1>1, <1>3, <1>4 DEF Lock, Locked
<1>5. CASE Check(r) \/ Select(r)
  BY <1>1, <1>3, <1>5 DEF Check, Select, Fail, Locked
<1>6. CASE AppendEntry(r) \/ Embed(r)
  <2>1. CASE Fail(r)
    BY <1>1, <1>3, <2>1 DEF Fail, Locked
  <2>2. CASE \E place \in {"apply", "unlock"} : Goto(r, place) /\ UNCHANGED reply
    BY <1>1, <1>2, <1>3, <2>2 DEF Locked
  <2> QED
    BY <1>6, <2>1, <2>2 DEF AppendEntry, Embed
<1>7. CASE Apply(r)
  <2>1. CASE Fail(r)
    BY <1>1, <1>3, <2>1 DEF Fail, Locked
  <2>2. CASE Goto(r, AfterApply(r)) /\ UNCHANGED reply
    <3>1. AfterApply(r) \in Locked
      BY DEF AfterApply, Locked
    <3> QED
      BY <1>1, <1>2, <1>3, <2>2, <3>1
  <2> QED
    BY <1>7, <2>1, <2>2 DEF Apply
<1>8. CASE Unlock(r)
  BY <1>1, <1>3, <1>8 DEF Unlock
<1> QED
  BY <1>4, <1>5, <1>6, <1>7, <1>8 DEF Tool

LEMMA ToolDataType ==
  ASSUME TypeInv, NEW r \in Requests, Lock(r) \/ Tool(r)
  PROVE  /\ holder' \in Requests \cup {None}
         /\ log' \in Seq(Requests) /\ index' \in Seq(Nat)
         /\ entry' \in [Requests -> Nat] /\ parts' \in [Requests -> 0 .. 2]
         /\ PartsOK'
<1>1. /\ log \in Seq(Requests) /\ index \in Seq(Nat)
      /\ entry \in [Requests -> Nat] /\ parts \in [Requests -> 0 .. 2]
      /\ holder \in Requests \cup {None}
      /\ stage \in [Requests -> {"new"} \cup Handled \cup Over]
      /\ PartsOK
  BY DEF TypeInv, TypeOK
<1>2. CASE Lock(r)
  <2>1. PICK place : Goto(r, place)
    BY <1>2 DEF Lock, Reply
  <2>2. UNCHANGED <<log, index, entry>> /\ holder' = r
    BY <1>2 DEF Lock
  <2>3. parts' \in [Requests -> 0 .. 2] /\ parts'[r] > 0
         /\ \A q \in Requests : q # r => parts'[q] = parts[q]
    BY <1>1, <1>2 DEF Lock
  <2>4. PartsOK'
    BY <1>1, <2>1, <2>3 DEF PartsOK, Goto
  <2> QED
    BY <1>1, <2>2, <2>3, <2>4
<1>3. CASE AppendEntry(r)
  <2>1. parts[r] > 0 /\ UNCHANGED <<holder, index>>
    BY <1>1, <1>3 DEF AppendEntry, PartsOK
  <2>2. PICK place : Goto(r, place) /\ place \notin {"check", "append"}
    BY <1>3 DEF AppendEntry, Fail, Reply
  <2>3. /\ log' \in Seq(Requests) /\ entry' \in [Requests -> Nat]
        /\ parts' \in [Requests -> 0 .. 2] /\ \A q \in Requests : q # r => parts'[q] = parts[q]
    <3>1. CASE UNCHANGED <<log, entry, parts>>
      BY <1>1, <3>1
    <3>2. CASE /\ log' = Append(log, r) /\ entry' = [entry EXCEPT ![r] = Len(log) + 1]
               /\ parts' = [parts EXCEPT ![r] = @ - 1]
      BY <1>1, <2>1, <3>2
    <3> QED
      BY <1>3, <3>1, <3>2 DEF AppendEntry
  <2>4. PartsOK'
    BY <1>1, <2>2, <2>3 DEF PartsOK, Goto
  <2> QED
    BY <1>1, <2>1, <2>3, <2>4
<1>4. CASE Apply(r)
  <2>1. UNCHANGED <<holder, log, entry, parts>>
    BY <1>4 DEF Apply
  <2>2. entry[r] \in Nat /\ (index' = index \/ index' = Append(index, entry[r]))
    BY <1>1, <1>4 DEF Apply
  <2>3. index' \in Seq(Nat)
    <3>1. CASE index' = index
      BY <1>1, <3>1
    <3>2. CASE index' = Append(index, entry[r])
      BY <1>1, <2>2, <3>2
    <3> QED
      BY <2>2, <3>1, <3>2
  <2>4. PICK place : /\ Goto(r, place)
                     /\ place # "check"
                     /\ place = "append" => parts[r] > 0
    BY <1>4 DEF Apply, AfterApply, Fail, Reply, Goto
  <2>5. PartsOK'
    BY <1>1, <2>1, <2>4 DEF PartsOK, Goto
  <2> QED
    BY <1>1, <2>1, <2>3, <2>5
<1>5. CASE Check(r)
  <2>1. UNCHANGED <<holder, log, index, entry, parts>>
    BY <1>5 DEF Check, data
  <2>2. PICK place \in {"append", "unlock"} : Goto(r, place)
    BY <1>5 DEF Check, Fail, Reply
  <2>3. PartsOK'
    BY <1>1, <1>5, <2>1, <2>2 DEF PartsOK, Goto, Check
  <2> QED
    BY <1>1, <2>1, <2>3
<1>6. CASE Embed(r) \/ Select(r)
  <2>1. UNCHANGED <<holder, log, index, entry, parts>>
    BY <1>6 DEF Embed, Select, data
  <2>2. Goto(r, "unlock")
    BY <1>6 DEF Embed, Select, Fail, Reply
  <2>3. PartsOK'
    BY <1>1, <2>1, <2>2 DEF PartsOK, Goto
  <2> QED
    BY <1>1, <2>1, <2>3
<1>7. CASE Unlock(r)
  <2>1. UNCHANGED <<log, index, entry, parts>> /\ holder' = None /\ Goto(r, "writing")
    BY <1>7 DEF Unlock, data, Reply
  <2>2. PartsOK'
    BY <1>1, <2>1 DEF PartsOK, Goto
  <2> QED
    BY <1>1, <2>1, <2>2
<1> QED
  BY <1>2, <1>3, <1>4, <1>5, <1>6, <1>7 DEF Tool

LEMMA NextType == TypeInv /\ [Next]_vars => TypeInv'
<1>1. SUFFICES ASSUME TypeInv, [Next]_vars PROVE TypeInv'
  OBVIOUS
<1>2. /\ stage \in [Requests -> {"new"} \cup Handled \cup Over]
      /\ reply \in [Requests -> Replies]
  BY <1>1 DEF TypeInv, TypeOK
<1>3. ASSUME NEW r \in Requests, NEW known \in Replies,
             NEW place \in Handled \cup Over, Reply(r, known, place)
      PROVE  /\ stage' \in [Requests -> {"new"} \cup Handled \cup Over]
             /\ reply' \in [Requests -> Replies]
  BY <1>2, <1>3 DEF Reply, Goto
<1>4. CASE Life
  <2>1. TypeOK'
    BY <1>1, <1>4, LifeMoves DEF TypeInv, TypeOK, data
  <2>2. PartsOK'
    BY <1>1, <1>4, LifeMoves DEF TypeInv, PartsOK, data
  <2> QED
    BY <2>1, <2>2 DEF TypeInv
<1>5. ASSUME NEW r \in Requests,
             \/ \E k \in Kinds : Accept(r, k) \/ ReadLine(r, k)
             \/ Refuse(r) \/ ReadBody(r) \/ Write(r)
      PROVE  TypeInv'
  <2>1. PICK known \in Replies,
             place \in {"body", "waiting", "writing", "answered", "skipped", "refused"} :
               Reply(r, known, place)
    BY <1>1, <1>5, TransportMoves
  <2>2. /\ stage' \in [Requests -> {"new"} \cup Handled \cup Over]
        /\ reply' \in [Requests -> Replies]
    BY <1>3, <2>1 DEF Handled, Over
  <2>3. kind' \in [Requests -> Kinds \cup {None}] /\ UNCHANGED <<process, holder, data>>
    BY <1>1, <1>5, TransportMoves
  <2>4. TypeOK'
    BY <1>1, <2>2, <2>3 DEF TypeInv, TypeOK, process, data
  <2>5. PartsOK'
    BY <1>1, <1>2, <2>1, <2>3 DEF TypeInv, PartsOK, Reply, Goto, data
  <2> QED
    BY <2>4, <2>5 DEF TypeInv
<1>6. ASSUME NEW r \in Requests, Lock(r) \/ Tool(r)
      PROVE  TypeInv'
  <2>1. /\ stage' \in [Requests -> {"new"} \cup Handled \cup Over]
        /\ reply' \in [Requests -> Replies]
        /\ UNCHANGED <<process, kind>>
    BY <1>1, <1>3, <1>6, ToolMoves DEF Handled
  <2>2. TypeOK'
    BY <1>1, <1>6, <2>1, ToolDataType DEF TypeInv, TypeOK, process
  <2> QED
    BY <1>1, <1>6, <2>2, ToolDataType DEF TypeInv
<1>7. CASE UNCHANGED vars
  BY <1>1, <1>7 DEF TypeInv, TypeOK, PartsOK, vars, process, data
<1> QED
  BY <1>1, <1>4, <1>5, <1>6, <1>7 DEF Next, Handle

\* Whatever the requests and the way the process ends, the variables of Server
\* have their types.
THEOREM ServerTypeCorrect == Spec => []TypeOK
<1>1. TypeInv => TypeOK
  BY DEF TypeInv
<1> QED
  BY <1>1, InitType, NextType, PTL DEF Spec

-----------------------------------------------------------------------------
(* Store.mu, and what it is for *)

LEMMA OrderInit == Init => OrderInv
<1>1. SUFFICES ASSUME Init PROVE OrderInv
  OBVIOUS
<1>2. index = <<>> /\ \A r \in Requests : stage[r] = "new"
  BY <1>1 DEF Init
<1> QED
  BY <1>1, <1>2, InitType DEF OrderInv, MutexHeld, PendingIsLast, IndexInLogOrder, Locked

\* Who takes the mutex finds it free, and who releases it leaves it free.
LEMMA MutexNext ==
  ASSUME TypeInv, MutexHeld, [Next]_vars
  PROVE  MutexHeld'
<1>1. stage \in [Requests -> {"new"} \cup Handled \cup Over]
  BY DEF TypeInv, TypeOK
<1>2. CASE Outside
  BY <1>2 DEF Outside, MutexHeld
<1>3. ASSUME NEW r \in Requests, Lock(r)
      PROVE  MutexHeld'
  <2>1. holder = None /\ holder' = r
    BY <1>3 DEF Lock
  <2>2. \A q \in Requests : stage[q] \notin Locked
    BY <2>1, NoneAssumption DEF MutexHeld
  <2>3. \A q \in Requests : q # r => stage'[q] = stage[q]
    BY <1>1, <1>3 DEF Lock, Reply, Goto
  <2> QED
    BY <2>1, <2>2, <2>3 DEF MutexHeld
<1>4. ASSUME NEW r \in Requests, Tool(r)
      PROVE  MutexHeld'
  <2>1. PICK place : Goto(r, place)
    BY <1>4, ToolMoves DEF Reply
  <2>2. stage[r] \in Locked
    BY <1>4 DEF Tool, Check, AppendEntry, Apply, Embed, Select, Unlock, Locked
  <2>3. holder = r /\ \A q \in Requests : q # r => stage'[q] \notin Locked
    BY <1>1, <2>1, <2>2 DEF MutexHeld, Goto
  <2>4. \/ holder' = holder
        \/ Unlock(r)
    BY <1>4 DEF Tool, Check, AppendEntry, Apply, Embed, Select
  <2>5. Unlock(r) => stage'[r] \notin Locked
    BY <1>1 DEF Unlock, Reply, Goto, Locked
  <2> QED
    BY <2>3, <2>4, <2>5 DEF MutexHeld
<1> QED
  BY <1>2, <1>3, <1>4, OutsideFrame

LEMMA OrderNext == OrderInv /\ [Next]_vars => OrderInv'
<1>1. SUFFICES ASSUME OrderInv, [Next]_vars PROVE OrderInv'
  OBVIOUS
<1>2. TypeInv' /\ MutexHeld'
  BY <1>1, NextType, MutexNext DEF OrderInv
<1>3. /\ stage \in [Requests -> {"new"} \cup Handled \cup Over]
      /\ index \in Seq(Nat) /\ log \in Seq(Requests) /\ entry \in [Requests -> Nat]
      /\ TypeInv /\ MutexHeld /\ PendingIsLast /\ IndexInLogOrder
  BY <1>1 DEF OrderInv, TypeInv, TypeOK
<1>4. CASE Outside
  <2>1. PendingIsLast'
    BY <1>3, <1>4 DEF Outside, PendingIsLast, Locked
  <2>2. IndexInLogOrder'
    BY <1>3, <1>4 DEF Outside, IndexInLogOrder
  <2> QED
    BY <1>2, <2>1, <2>2 DEF OrderInv
<1>5. ASSUME NEW r \in Requests, AppendEntry(r)
      PROVE  PendingIsLast' /\ IndexInLogOrder'
  <2>1. index' = index /\ Len(log) \in Nat
    BY <1>3, <1>5 DEF AppendEntry
  <2>2. \A q \in Requests : q # r => stage'[q] \notin Locked
    <3>1. stage[r] \in Locked
      BY <1>5 DEF AppendEntry, Locked
    <3>2. \A q \in Requests : q # r => stage'[q] = stage[q]
      BY <1>3, <1>5 DEF AppendEntry, Fail, Reply, Goto
    <3> QED
      BY <1>3, <3>1, <3>2 DEF MutexHeld
  <2>3. \A i \in DOMAIN index : index[i] \in 1 .. Len(log)
    BY <1>3 DEF IndexInLogOrder
  <2>4. CASE log' = Append(log, r) /\ entry' = [entry EXCEPT ![r] = Len(log) + 1]
    <3>1. Len(log') = Len(log) + 1 /\ entry'[r] = Len(log) + 1
      BY <1>3, <2>4
    <3>2. PendingIsLast'
      BY <2>1, <2>2, <2>3, <3>1 DEF PendingIsLast, Locked
    <3>3. IndexInLogOrder'
      BY <1>3, <2>1, <2>3, <3>1 DEF IndexInLogOrder
    <3> QED
      BY <3>2, <3>3
  <2>5. CASE Fail(r) /\ UNCHANGED log
    <3>1. stage'[r] = "unlock"
      BY <1>3, <2>5 DEF Fail, Reply, Goto
    <3>2. PendingIsLast'
      BY <2>2, <3>1 DEF PendingIsLast, Locked
    <3>3. IndexInLogOrder'
      BY <1>3, <2>1, <2>5 DEF IndexInLogOrder
    <3> QED
      BY <3>2, <3>3
  <2> QED
    BY <1>5, <2>4, <2>5 DEF AppendEntry
<1>6. ASSUME NEW r \in Requests, Apply(r)
      PROVE  PendingIsLast' /\ IndexInLogOrder'
  <2>1. /\ entry[r] = Len(log) /\ Len(log) > 0 /\ log' = log
        /\ \A i \in DOMAIN index : index[i] < entry[r]
    BY <1>3, <1>6 DEF Apply, PendingIsLast
  <2>2. \A q \in Requests : stage'[q] # "apply"
    <3>1. stage[r] \in Locked
      BY <1>6 DEF Apply, Locked
    <3>2. \E place : place # "apply" /\ Goto(r, place)
      BY <1>6 DEF Apply, AfterApply, Fail, Reply
    <3>3. stage'[r] # "apply" /\ \A q \in Requests : q # r => stage'[q] = stage[q]
      BY <1>3, <3>2 DEF Goto
    <3>4. \A q \in Requests : q # r => stage[q] # "apply"
      BY <1>3, <3>1 DEF MutexHeld, Locked
    <3> QED
      BY <3>3, <3>4
  <2>3. CASE index' = index
    BY <1>3, <2>1, <2>2, <2>3 DEF IndexInLogOrder, PendingIsLast
  <2>4. CASE index' = Append(index, entry[r])
    <3>1. /\ Len(index') = Len(index) + 1 /\ Len(index) \in Nat /\ Len(log) \in Nat
          /\ index'[Len(index) + 1] = entry[r]
          /\ \A i \in 1 .. Len(index) : index'[i] = index[i]
          /\ DOMAIN index = 1 .. Len(index) /\ DOMAIN index' = 1 .. Len(index) + 1
      BY <1>3, <2>4
    <3>2. \A i \in DOMAIN index' : index'[i] \in 1 .. Len(log)
      BY <1>3, <2>1, <3>1 DEF IndexInLogOrder
    <3>3. \A i, j \in DOMAIN index' : i < j => index'[i] < index'[j]
      <4>1. SUFFICES ASSUME NEW i \in DOMAIN index', NEW j \in DOMAIN index', i < j
                     PROVE  index'[i] < index'[j]
        OBVIOUS
      <4>2. i \in 1 .. Len(index)
        BY <3>1, <4>1
      <4>3. CASE j \in 1 .. Len(index)
        BY <1>3, <3>1, <4>1, <4>2, <4>3 DEF IndexInLogOrder
      <4>4. CASE j = Len(index) + 1
        BY <2>1, <3>1, <4>2, <4>4
      <4> QED
        BY <3>1, <4>3, <4>4
    <3> QED
      BY <2>1, <2>2, <3>2, <3>3 DEF PendingIsLast, IndexInLogOrder
  <2> QED
    BY <1>6, <2>3, <2>4 DEF Apply
<1>7. ASSUME NEW r \in Requests,
             Lock(r) \/ Check(r) \/ Embed(r) \/ Select(r) \/ Unlock(r)
      PROVE  PendingIsLast' /\ IndexInLogOrder'
  <2>1. UNCHANGED <<log, index, entry>>
    BY <1>7 DEF Lock, Check, Embed, Select, Unlock, data
  <2>2. \E place : place # "apply" /\ Goto(r, place)
    BY <1>7 DEF Lock, Check, Embed, Select, Unlock, Fail, Reply
  <2>3. \A q \in Requests : stage'[q] = "apply" => stage[q] = "apply"
    BY <1>3, <2>2 DEF Goto
  <2> QED
    BY <1>3, <2>1, <2>3 DEF PendingIsLast, IndexInLogOrder
<1>8. (\E r \in Requests : Lock(r) \/ Tool(r)) => PendingIsLast' /\ IndexInLogOrder'
  BY <1>5, <1>6, <1>7 DEF Tool
<1> QED
  BY <1>1, <1>2, <1>3, <1>4, <1>8, OutsideFrame DEF OrderInv

\* Any number of handlers write to the log and to the index, the server may be
\* shut down or killed at any point, and the index has got the entries of the log
\* in the order of the log.
THEOREM IndexFollowsLogOrder == Spec => []IndexInLogOrder
<1>1. OrderInv => IndexInLogOrder
  BY DEF OrderInv
<1> QED
  BY <1>1, OrderInit, OrderNext, PTL DEF Spec

-----------------------------------------------------------------------------
(* What a client that was answered can rely on *)

\* What is known of the entries of a call, from its arrival to its answer.
KeptOf(r) ==
    /\ stage[r] \in {"new", "body", "waiting"} \cup (Locked \ {"unlock"}) => reply[r] = "none"
    /\ stage[r] = "unlock" => reply[r] \in {"none", "tool_error"}
    /\ stage[r] \in {"new", "body", "waiting", "check"} => EntriesOf(r) = {}
    /\ stage[r] \in Locked /\ IsWrite(r) /\ reply[r] = "none" =>
          /\ stage[r] # "select"
          /\ Cardinality(EntriesOf(r)) + parts[r] = EntriesDue(r)
          /\ \A i \in EntriesOf(r) : i \in Applied \/ (stage[r] = "apply" /\ i = entry[r])
          /\ stage[r] \in {"embed", "unlock"} => parts[r] = 0
    /\ reply[r] = "ok" /\ IsWrite(r) =>
          /\ Cardinality(EntriesOf(r)) = EntriesDue(r)
          /\ EntriesOf(r) \subseteq Applied

KeptInv == OrderInv /\ \A r \in Requests : KeptOf(r)

LEMMA EntriesFinite ==
  ASSUME TypeInv, NEW r \in Requests
  PROVE  IsFiniteSet(EntriesOf(r)) /\ Cardinality(EntriesOf(r)) \in Nat
<1>1. log \in Seq(Requests) /\ Len(log) \in Nat /\ DOMAIN log = 1 .. Len(log)
  BY DEF TypeInv, TypeOK
<1>2. IsFiniteSet(1 .. Len(log))
  BY <1>1, FS_Interval
<1>3. EntriesOf(r) \subseteq 1 .. Len(log)
  BY <1>1 DEF EntriesOf
<1> QED
  BY <1>2, <1>3, FS_Subset, FS_CardinalityType

\* Entries are never taken from the log, nor from the index.
LEMMA AppliedGrows ==
  ASSUME TypeInv, [Next]_vars
  PROVE  Applied \subseteq Applied'
<1>1. index \in Seq(Nat) /\ entry \in [Requests -> Nat]
  BY DEF TypeInv, TypeOK
<1>2. CASE index' = index
  BY <1>2 DEF Applied
<1>3. ASSUME NEW r \in Requests, index' = Append(index, entry[r])
      PROVE  Applied \subseteq Applied'
  <2>1. entry[r] \in Nat
    BY <1>1
  <2>2. \A i \in DOMAIN index : i \in DOMAIN index' /\ index'[i] = index[i]
    BY <1>1, <1>3, <2>1
  <2> QED
    BY <2>2 DEF Applied
<1>4. ASSUME NEW r \in Requests, Lock(r) \/ Tool(r)
      PROVE  index' = index \/ index' = Append(index, entry[r])
  BY <1>4 DEF Lock, Tool, Check, AppendEntry, Apply, Embed, Select, Unlock, data
<1> QED
  BY <1>2, <1>3, <1>4, OutsideFrame DEF Outside

LEMMA EntriesFrame ==
  ASSUME TypeInv, NEW r \in Requests, log' = Append(log, r)
  PROVE  /\ EntriesOf(r)' = EntriesOf(r) \cup {Len(log) + 1}
         /\ Len(log) + 1 \notin EntriesOf(r)
         /\ \A q \in Requests : q # r => EntriesOf(q)' = EntriesOf(q)
<1>1. /\ log \in Seq(Requests) /\ Len(log) \in Nat
      /\ DOMAIN log = 1 .. Len(log) /\ DOMAIN log' = 1 .. Len(log) + 1
      /\ log'[Len(log) + 1] = r
      /\ \A i \in 1 .. Len(log) : log'[i] = log[i]
  BY DEF TypeInv, TypeOK
<1> QED
  BY <1>1 DEF EntriesOf

\* No tool writes in the name of another request.
LEMMA ToolEntries ==
  ASSUME TypeInv, NEW r \in Requests, Lock(r) \/ Tool(r), NEW q \in Requests, q # r
  PROVE  EntriesOf(q)' = EntriesOf(q)
<1>1. log' = log \/ log' = Append(log, r)
  BY DEF Lock, Tool, Check, AppendEntry, Apply, Embed, Select, Unlock, data
<1>2. CASE log' = log
  BY <1>2 DEF EntriesOf
<1>3. CASE log' = Append(log, r)
  BY <1>3, EntriesFrame
<1> QED
  BY <1>1, <1>2, <1>3

\* A step of another request, or of the process, leaves what is known of a call.
LEMMA KeptFrame ==
  ASSUME NEW q \in Requests, KeptOf(q), Applied \subseteq Applied',
         EntriesOf(q)' = EntriesOf(q),
         stage'[q] = stage[q], reply'[q] = reply[q], kind'[q] = kind[q],
         parts'[q] = parts[q], entry'[q] = entry[q]
  PROVE  KeptOf(q)'
  BY DEF KeptOf, IsWrite, EntriesDue, Locked

LEMMA KeptInit == Init => KeptInv
<1>1. SUFFICES ASSUME Init PROVE \A r \in Requests : KeptOf(r)
  BY OrderInit DEF KeptInv
<1>2. \A r \in Requests : EntriesOf(r) = {}
  BY <1>1 DEF Init, EntriesOf
<1> QED
  BY <1>1, <1>2 DEF Init, KeptOf, Locked

\* No write is answered "ok" but by the tool.
LEMMA DispatchKept ==
  ASSUME TypeInv, NEW r \in Requests, NEW answer \in Replies \ {"ok"}, NEW call,
         Dispatch(r, answer, call)
  PROVE  \/ Reply(r, "none", "waiting")
         \/ \E known \in Replies : /\ Reply(r, known, "writing")
                                   /\ known = "ok" => call = "describe"
<1>1. /\ DispatchReply(call) \in Replies
      /\ DispatchReply(call) = "ok" => call = "describe"
  BY AnswersAreReplies DEF DispatchReply
<1> QED
  BY <1>1 DEF Dispatch

LEMMA HeaderKept ==
  ASSUME NEW k \in Kinds, HeaderReply(k) = "ok"
  PROVE  k.call = "describe"
<1>1. k.path = "health"
  BY DEF HeaderReply
<1> QED
  BY <1>1, RoutesAssumption

\* The step of a transport leaves a request with no answer yet, with an answer
\* that promises nothing, or with the one it had.
LEMMA TransportKept ==
  ASSUME KeptInv, NEW r \in Requests,
         \/ \E k \in Kinds : Accept(r, k) \/ ReadLine(r, k)
         \/ Refuse(r) \/ ReadBody(r) \/ Write(r)
  PROVE  KeptOf(r)'
<1>1. /\ TypeInv /\ KeptOf(r)
      /\ stage \in [Requests -> {"new"} \cup Handled \cup Over]
      /\ reply \in [Requests -> Replies]
      /\ kind \in [Requests -> Kinds \cup {None}]
  BY DEF KeptInv, OrderInv, TypeInv, TypeOK
<1>2. UNCHANGED <<log, index>> /\ EntriesOf(r)' = EntriesOf(r) /\ Applied' = Applied
  <2>1. UNCHANGED <<log, index>>
    BY <1>1, TransportMoves DEF data
  <2> QED
    BY <2>1 DEF EntriesOf, Applied
<1>3. ASSUME NEW place \in {"answered", "refused"}, Goto(r, place), UNCHANGED <<reply, kind>>
      PROVE  KeptOf(r)'
  BY <1>1, <1>2, <1>3 DEF Goto, KeptOf, IsWrite, EntriesDue, Locked
<1>4. ASSUME NEW place \in {"body", "waiting", "skipped"}, Reply(r, "none", place),
             stage[r] \in {"new", "body"}
      PROVE  KeptOf(r)'
  BY <1>1, <1>2, <1>4 DEF Reply, Goto, KeptOf, Locked
<1>5. ASSUME NEW known \in Replies, Reply(r, known, "writing"),
             known = "ok" => kind'[r].call = "describe"
      PROVE  KeptOf(r)'
  BY <1>1, <1>2, <1>5 DEF Reply, Goto, KeptOf, IsWrite, Locked
<1>6. "none" \in Replies \ {"ok"} /\ "parse_error" \in Replies \ {"ok"}
      /\ "invalid_request" \in Replies \ {"ok"}
  BY DEF Replies
<1>7. ASSUME NEW k \in Kinds, Accept(r, k)
      PROVE  KeptOf(r)'
  <2>1. kind'[r] = k /\ stage[r] = "new"
    BY <1>1, <1>7 DEF Accept, Is
  <2>2. CASE HeaderReply(k) # "none" /\ Reply(r, HeaderReply(k), "writing")
    BY <1>5, <2>1, <2>2, HeaderKept, AnswersAreReplies
  <2>3. CASE Reply(r, "none", "body")
    BY <1>4, <2>1, <2>3
  <2>4. CASE Dispatch(r, "none", k.call)
    BY <1>1, <1>4, <1>5, <1>6, <2>1, <2>4, DispatchKept
  <2> QED
    BY <1>7, <2>2, <2>3, <2>4 DEF Accept
<1>8. ASSUME NEW k \in Kinds, ReadLine(r, k)
      PROVE  KeptOf(r)'
  <2>1. kind'[r] = k /\ stage[r] = "new"
    BY <1>1, <1>8 DEF ReadLine, Is
  <2>2. CASE Reply(r, "none", "skipped")
    BY <1>4, <2>1, <2>2
  <2>3. CASE Dispatch(r, "none", k.call)
    BY <1>1, <1>4, <1>5, <1>6, <2>1, <2>3, DispatchKept
  <2> QED
    BY <1>8, <2>2, <2>3 DEF ReadLine
<1>9. ASSUME ReadBody(r)
      PROVE  KeptOf(r)'
  <2>1. kind'[r] = kind[r] /\ stage[r] = "body"
    BY <1>9 DEF ReadBody
  <2>2. PICK answer \in {"none", "parse_error", "invalid_request"} :
            Dispatch(r, answer, kind[r].call)
    BY <1>9 DEF ReadBody
  <2> QED
    BY <1>1, <1>4, <1>5, <1>6, <2>1, <2>2, DispatchKept
<1>10. ASSUME Refuse(r) \/ Write(r)
       PROVE  KeptOf(r)'
  BY <1>3, <1>10 DEF Refuse, Write
<1> QED
  BY <1>7, <1>8, <1>9, <1>10

\* A tool promises what it has done: one lemma for each of its steps.
LEMMA LockKept ==
  ASSUME KeptInv, NEW r \in Requests, Lock(r)
  PROVE  KeptOf(r)'
<1>1. /\ KeptOf(r) /\ stage[r] = "waiting"
      /\ stage \in [Requests -> {"new"} \cup Handled \cup Over]
      /\ reply \in [Requests -> Replies]
      /\ parts \in [Requests -> 0 .. 2]
  BY DEF KeptInv, OrderInv, TypeInv, TypeOK, Lock
<1>2. UNCHANGED <<log, index, kind>> /\ EntriesOf(r) = {} /\ EntriesOf(r)' = {}
  BY <1>1 DEF Lock, EntriesOf, KeptOf
<1>3. Cardinality({}) = 0
  BY FS_EmptySet
<1>4. parts'[r] = EntriesDue(r) /\ EntriesDue(r)' = EntriesDue(r) /\ EntriesDue(r) \in Nat
  BY <1>1, <1>2 DEF Lock, EntriesDue
<1>5. PICK known \in {"none", "tool_error"}, place \in Locked :
        /\ Reply(r, known, place)
        /\ known = "none" => place \in {"check", "append", "select"}
        /\ known = "tool_error" => place = "unlock"
        /\ place = "select" => kind[r].call \in {"read", "reminder"}
  BY DEF Lock, Locked
<1>6. stage'[r] = place /\ reply'[r] = known
  BY <1>1, <1>5 DEF Reply, Goto
<1> QED
  BY <1>2, <1>3, <1>4, <1>5, <1>6 DEF KeptOf, IsWrite, Locked

LEMMA AppendKept ==
  ASSUME KeptInv, NEW r \in Requests, AppendEntry(r)
  PROVE  KeptOf(r)'
<1>1. /\ KeptOf(r) /\ stage[r] = "append" /\ TypeInv
      /\ stage \in [Requests -> {"new"} \cup Handled \cup Over]
      /\ reply \in [Requests -> Replies]
      /\ parts \in [Requests -> 0 .. 2]
      /\ entry \in [Requests -> Nat]
  BY DEF KeptInv, OrderInv, TypeInv, TypeOK, AppendEntry
<1>2. UNCHANGED <<index, kind>> /\ Applied' = Applied
  BY DEF AppendEntry, Applied
<1>3. (IsWrite(r)' <=> IsWrite(r)) /\ EntriesDue(r)' = EntriesDue(r)
  BY <1>2 DEF IsWrite, EntriesDue
<1>4. CASE Fail(r)
  <2>1. stage'[r] = "unlock" /\ reply'[r] = "tool_error"
    BY <1>1, <1>4 DEF Fail, Reply, Goto
  <2> QED
    BY <2>1 DEF KeptOf, Locked
<1>5. CASE /\ log' = Append(log, r) /\ entry' = [entry EXCEPT ![r] = Len(log) + 1]
           /\ parts' = [parts EXCEPT ![r] = @ - 1] /\ Goto(r, "apply") /\ UNCHANGED reply
  <2>1. stage'[r] = "apply" /\ entry'[r] = Len(log) + 1 /\ parts'[r] = parts[r] - 1
    BY <1>1, <1>5 DEF Goto
  <2>2. /\ EntriesOf(r)' = EntriesOf(r) \cup {Len(log) + 1}
        /\ Cardinality(EntriesOf(r) \cup {Len(log) + 1}) = Cardinality(EntriesOf(r)) + 1
        /\ Cardinality(EntriesOf(r)) \in Nat
    BY <1>1, <1>5, EntriesFrame, EntriesFinite, FS_AddElement
  <2>3. reply[r] = "none" /\ reply'[r] = "none"
    BY <1>1, <1>5 DEF KeptOf, Locked
  <2>4. ASSUME IsWrite(r)
        PROVE  /\ Cardinality(EntriesOf(r)') + parts'[r] = EntriesDue(r)
               /\ \A i \in EntriesOf(r)' : i \in Applied \/ i = entry'[r]
    <3>1. /\ Cardinality(EntriesOf(r)) + parts[r] = EntriesDue(r)
          /\ \A i \in EntriesOf(r) : i \in Applied
      BY <1>1, <2>3, <2>4 DEF KeptOf, Locked
    <3>2. parts[r] \in Nat
      BY <1>1
    <3> QED
      BY <2>1, <2>2, <3>1, <3>2
  <2> QED
    BY <1>2, <1>3, <2>1, <2>3, <2>4 DEF KeptOf, Locked
<1> QED
  BY <1>4, <1>5 DEF AppendEntry

LEMMA ApplyKept ==
  ASSUME KeptInv, NEW r \in Requests, Apply(r)
  PROVE  KeptOf(r)'
<1>1. /\ KeptOf(r) /\ stage[r] = "apply"
      /\ stage \in [Requests -> {"new"} \cup Handled \cup Over]
      /\ reply \in [Requests -> Replies]
      /\ index \in Seq(Nat) /\ entry \in [Requests -> Nat]
      /\ parts \in [Requests -> 0 .. 2]
  BY DEF KeptInv, OrderInv, TypeInv, TypeOK, Apply
<1>2. UNCHANGED <<log, kind, entry, parts>> /\ EntriesOf(r)' = EntriesOf(r)
  BY DEF Apply, EntriesOf
<1>3. (IsWrite(r)' <=> IsWrite(r)) /\ EntriesDue(r)' = EntriesDue(r)
  BY <1>2 DEF IsWrite, EntriesDue
<1>4. CASE Fail(r)
  <2>1. stage'[r] = "unlock" /\ reply'[r] = "tool_error"
    BY <1>1, <1>4 DEF Fail, Reply, Goto
  <2> QED
    BY <2>1 DEF KeptOf, Locked
<1>5. CASE /\ index' = Append(index, entry[r])
           /\ Goto(r, AfterApply(r)) /\ UNCHANGED reply
  <2>1. Applied' = Applied \cup {entry[r]}
    <3>1. entry[r] \in Nat
      BY <1>1
    <3>2. /\ Len(index) \in Nat
          /\ DOMAIN index = 1 .. Len(index) /\ DOMAIN index' = 1 .. Len(index) + 1
          /\ index'[Len(index) + 1] = entry[r]
          /\ \A i \in 1 .. Len(index) : index'[i] = index[i]
      BY <1>1, <1>5, <3>1
    <3> QED
      BY <3>2 DEF Applied
  <2>2. stage'[r] = AfterApply(r) /\ reply'[r] = reply[r]
    BY <1>1, <1>5 DEF Goto
  <2>3. /\ AfterApply(r) \in {"append", "embed", "unlock"}
        /\ AfterApply(r) # "append" => parts[r] = 0
    BY <1>1 DEF AfterApply
  <2>4. reply[r] = "none"
    BY <1>1 DEF KeptOf, Locked
  <2>5. ASSUME IsWrite(r), reply[r] = "none"
        PROVE  /\ Cardinality(EntriesOf(r)) + parts[r] = EntriesDue(r)
               /\ \A i \in EntriesOf(r) : i \in Applied \/ i = entry[r]
    BY <1>1, <2>5 DEF KeptOf, Locked
  <2> QED
    BY <1>2, <1>3, <2>1, <2>2, <2>3, <2>4, <2>5 DEF KeptOf, Locked
<1> QED
  BY <1>4, <1>5 DEF Apply

LEMMA RestKept ==
  ASSUME KeptInv, NEW r \in Requests, Check(r) \/ Embed(r) \/ Select(r)
  PROVE  KeptOf(r)'
<1>1. /\ KeptOf(r) /\ stage[r] \in {"check", "embed", "select"}
      /\ stage \in [Requests -> {"new"} \cup Handled \cup Over]
      /\ reply \in [Requests -> Replies]
  BY DEF KeptInv, OrderInv, TypeInv, TypeOK, Check, Embed, Select
<1>2. /\ UNCHANGED <<log, index, kind, entry, parts>>
      /\ EntriesOf(r)' = EntriesOf(r) /\ Applied' = Applied
  BY DEF Check, Embed, Select, data, EntriesOf, Applied
<1>3. (IsWrite(r)' <=> IsWrite(r)) /\ EntriesDue(r)' = EntriesDue(r)
  BY <1>2 DEF IsWrite, EntriesDue
<1>4. CASE Fail(r)
  <2>1. stage'[r] = "unlock" /\ reply'[r] = "tool_error"
    BY <1>1, <1>4 DEF Fail, Reply, Goto
  <2> QED
    BY <2>1 DEF KeptOf, Locked
<1>5. CASE Check(r) /\ Reply(r, "none", "append")
  <2>1. stage'[r] = "append" /\ reply'[r] = "none" /\ stage[r] = "check"
    BY <1>1, <1>5 DEF Check, Reply, Goto
  <2>2. reply[r] = "none"
    BY <1>1, <2>1 DEF KeptOf, Locked
  <2> QED
    BY <1>1, <1>2, <1>3, <2>1, <2>2 DEF KeptOf, Locked
<1>6. CASE Embed(r)
  <2>1. stage'[r] = "unlock" /\ reply'[r] = reply[r] /\ stage[r] = "embed"
    BY <1>1, <1>6 DEF Embed, Goto
  <2> QED
    BY <1>1, <1>2, <1>3, <2>1 DEF KeptOf, Locked
<1>7. CASE Select(r) /\ Reply(r, "none", "unlock")
  <2>1. /\ stage'[r] = "unlock" /\ reply'[r] = "none" /\ stage[r] = "select"
        /\ reply[r] = "none"
    BY <1>1, <1>7 DEF Select, Reply, Goto, KeptOf, Locked
  <2> QED
    BY <1>1, <1>2, <1>3, <2>1 DEF KeptOf, Locked
<1> QED
  BY <1>4, <1>5, <1>6, <1>7 DEF Check, Embed, Select

LEMMA UnlockKept ==
  ASSUME KeptInv, NEW r \in Requests, Unlock(r)
  PROVE  KeptOf(r)'
<1>1. /\ KeptOf(r) /\ stage[r] = "unlock" /\ TypeInv
      /\ stage \in [Requests -> {"new"} \cup Handled \cup Over]
      /\ reply \in [Requests -> Replies]
  BY DEF KeptInv, OrderInv, TypeInv, TypeOK, Unlock
<1>2. /\ UNCHANGED <<log, index, kind, entry, parts>>
      /\ EntriesOf(r)' = EntriesOf(r) /\ Applied' = Applied
  BY DEF Unlock, data, EntriesOf, Applied
<1>3. (IsWrite(r)' <=> IsWrite(r)) /\ EntriesDue(r)' = EntriesDue(r)
  BY <1>2 DEF IsWrite, EntriesDue
<1>4. /\ stage'[r] = "writing"
      /\ reply'[r] = IF reply[r] = "none" THEN "ok" ELSE reply[r]
      /\ reply[r] \in {"none", "tool_error"}
  BY <1>1 DEF Unlock, Reply, Goto, KeptOf, Locked
<1>5. ASSUME IsWrite(r), reply[r] = "none"
      PROVE  Cardinality(EntriesOf(r)) = EntriesDue(r) /\ EntriesOf(r) \subseteq Applied
  <2>1. /\ Cardinality(EntriesOf(r)) + parts[r] = EntriesDue(r) /\ parts[r] = 0
        /\ EntriesOf(r) \subseteq Applied
    BY <1>1, <1>5 DEF KeptOf, Locked
  <2>2. Cardinality(EntriesOf(r)) \in Nat
    BY <1>1, EntriesFinite
  <2> QED
    BY <2>1, <2>2
<1> QED
  BY <1>2, <1>3, <1>4, <1>5 DEF KeptOf, Locked

LEMMA KeptNext == KeptInv /\ [Next]_vars => KeptInv'
<1>1. SUFFICES ASSUME KeptInv, [Next]_vars PROVE \A q \in Requests : KeptOf(q)'
  BY OrderNext DEF KeptInv
<1>2. /\ OrderInv /\ TypeInv /\ Applied \subseteq Applied' /\ \A q \in Requests : KeptOf(q)
      /\ stage \in [Requests -> {"new"} \cup Handled \cup Over]
      /\ reply \in [Requests -> Replies]
      /\ kind \in [Requests -> Kinds \cup {None}]
      /\ entry \in [Requests -> Nat] /\ parts \in [Requests -> 0 .. 2]
  BY <1>1, AppliedGrows DEF KeptInv, OrderInv, TypeInv, TypeOK
<1>3. ASSUME NEW r \in Requests, NEW q \in Requests, q # r,
             EntriesOf(q)' = EntriesOf(q),
             \E known, place : Reply(r, known, place),
             kind'[q] = kind[q], parts'[q] = parts[q], entry'[q] = entry[q]
      PROVE  KeptOf(q)'
  <2>1. stage'[q] = stage[q] /\ reply'[q] = reply[q]
    BY <1>2, <1>3 DEF Reply, Goto
  <2> QED
    BY <1>2, <1>3, <2>1, KeptFrame
<1>4. CASE Life
  <2>1. TAKE q \in Requests
  <2>2. /\ stage'[q] \in {stage[q], "cut"}
        /\ UNCHANGED <<kind, reply, log, index, entry, parts>>
    BY <1>2, <1>4, LifeMoves DEF data
  <2>3. EntriesOf(q)' = EntriesOf(q) /\ Applied' = Applied
    BY <2>2 DEF EntriesOf, Applied
  <2>4. CASE stage'[q] = stage[q]
    BY <1>2, <2>2, <2>3, <2>4, KeptFrame
  <2>5. CASE stage'[q] = "cut"
    BY <1>2, <2>2, <2>3, <2>5 DEF KeptOf, Locked, IsWrite, EntriesDue
  <2> QED
    BY <2>2, <2>4, <2>5
<1>5. ASSUME NEW r \in Requests,
             \/ \E k \in Kinds : Accept(r, k) \/ ReadLine(r, k)
             \/ Refuse(r) \/ ReadBody(r) \/ Write(r)
      PROVE  \A q \in Requests : KeptOf(q)'
  <2>1. TAKE q \in Requests
  <2>2. /\ UNCHANGED <<log, index, entry, parts>>
        /\ \E known, place : Reply(r, known, place)
    BY <1>2, <1>5, TransportMoves DEF data
  <2>3. q # r => kind'[q] = kind[q]
    BY <1>2, <1>5 DEF Accept, ReadLine, Is, Refuse, ReadBody, Write
  <2>4. EntriesOf(q)' = EntriesOf(q)
    BY <2>2 DEF EntriesOf
  <2> QED
    BY <1>1, <1>3, <1>5, <2>2, <2>3, <2>4, TransportKept
<1>6. ASSUME NEW r \in Requests, Lock(r) \/ Tool(r)
      PROVE  \A q \in Requests : KeptOf(q)'
  <2>1. KeptOf(r)'
    BY <1>1, <1>6, LockKept, AppendKept, ApplyKept, RestKept, UnlockKept DEF Tool
  <2>2. ASSUME NEW q \in Requests, q # r
        PROVE  KeptOf(q)'
    <3>1. (\E known, place : Reply(r, known, place)) /\ UNCHANGED kind
      BY <1>2, <1>6, ToolMoves
    <3>2. parts'[q] = parts[q] /\ entry'[q] = entry[q]
      BY <1>2, <1>6, <2>2 DEF Lock, Tool, Check, AppendEntry, Apply, Embed, Select, Unlock, data
    <3>3. EntriesOf(q)' = EntriesOf(q)
      BY <1>2, <1>6, <2>2, ToolEntries
    <3> QED
      BY <1>3, <2>2, <3>1, <3>2, <3>3
  <2> QED
    BY <2>1, <2>2
<1>7. CASE UNCHANGED vars
  <2>1. TAKE q \in Requests
  <2>2. EntriesOf(q)' = EntriesOf(q)
    BY <1>7 DEF vars, data, EntriesOf
  <2> QED
    BY <1>2, <1>7, <2>2, KeptFrame DEF vars, data
<1> QED
  BY <1>1, <1>4, <1>5, <1>6, <1>7 DEF Next, Handle

\* A client that was told that its store or forget succeeded finds every entry of
\* the call in the log and in the index, with any number of other clients, and
\* however the server was stopped.
THEOREM AnsweredWritesAreKept == Spec => []AnsweredIsKept
<1>1. KeptInv => AnsweredIsKept
  BY DEF KeptInv, KeptOf, AnsweredIsKept
<1> QED
  BY <1>1, KeptInit, KeptNext, PTL DEF Spec
-----------------------------------------------------------------------------
(* How the server ends *)

\* The ends that do not wait for the handlers.
Abrupt == {"timeout", "failed", "killed"}

\* A server that stopped serving in another way has nobody at work, and only the
\* end of the process cuts a call off.
EndOK ==
    /\ phase = "starting" => \A r \in Requests : stage[r] = "new"
    /\ phase \in {"starting", "serving", "draining"} => end = "none" /\ open
    /\ phase \in {"returned", "exited"} => end # "none"
    /\ phase \in {"returned", "exited"} /\ Busy # {} => end \in Abrupt
    /\ \A r \in Requests : stage[r] = "cut" => phase = "exited" /\ end \in Abrupt

\* The steps of a request.
LEMMA HandleFrame ==
  ASSUME TypeInv, NEW r \in Requests, Handle(r)
  PROVE  /\ UNCHANGED process /\ phase # "starting"
         /\ \E known \in Replies,
               place \in Handled \cup {"answered", "skipped", "refused"} : Reply(r, known, place)
         /\ \/ stage[r] \in Handled /\ kind' = kind
            \/ /\ stage[r] = "new" /\ stage'[r] = "refused" /\ kind' = kind
            \/ /\ stage[r] = "new" /\ Connected
               /\ mode = "stdio" => phase = "serving" /\ Busy = {}
<1>1. stage \in [Requests -> {"new"} \cup Handled \cup Over]
  BY DEF TypeInv, TypeOK
<1>2. CASE Lock(r) \/ Tool(r)
  <2>1. /\ \E known \in Replies, place \in Handled : Reply(r, known, place)
        /\ UNCHANGED <<process, kind>>
    BY <1>2, ToolMoves DEF Handled
  <2>2. Running /\ stage[r] \in Handled
    BY <1>2 DEF Lock, Tool, Check, AppendEntry, Apply, Embed, Select, Unlock, Handled, Locked
  <2> QED
    BY <2>1, <2>2 DEF Running
<1>3. CASE \/ \E k \in Kinds : Accept(r, k) \/ ReadLine(r, k)
           \/ Refuse(r) \/ ReadBody(r) \/ Write(r)
  <2>1. /\ \E known \in Replies,
               place \in Handled \cup {"answered", "skipped", "refused"} : Reply(r, known, place)
        /\ UNCHANGED process
    BY <1>3, TransportMoves DEF Handled
  <2>2. CASE \E k \in Kinds : Accept(r, k)
    BY <2>1, <2>2 DEF Accept, Connected
  <2>3. CASE \E k \in Kinds : ReadLine(r, k)
    BY <2>1, <2>3 DEF ReadLine, Connected
  <2>4. CASE Refuse(r)
    BY <1>1, <2>1, <2>4 DEF Refuse, Goto
  <2>5. CASE ReadBody(r) \/ Write(r)
    BY <2>1, <2>5 DEF ReadBody, Write, Running, Handled
  <2> QED
    BY <1>3, <2>2, <2>3, <2>4, <2>5
<1> QED
  BY <1>2, <1>3 DEF Handle

\* The steps of the process cut off who is at work, or nobody.
LEMMA LifeFrame ==
  ASSUME TypeInv, Life
  PROVE  /\ UNCHANGED <<mode, holder, kind, reply, data>>
         /\ \/ stage' = stage
            \/ /\ phase' = "exited" /\ phase # "starting"
               /\ stage' = [r \in Requests |-> IF r \in Busy THEN "cut" ELSE stage[r]]
<1>1. UNCHANGED <<mode, holder, kind, reply, data>>
  BY LifeMoves
<1>2. CASE Exit \/ Kill
  BY <1>1, <1>2 DEF Exit, Kill, Phase, CutBusy
<1>3. CASE Listen \/ ListenerFails \/ Signal \/ Drained \/ TimesOut \/ EndOfInput \/ CloseStore
  BY <1>1, <1>3 DEF Listen, ListenerFails, Signal, Drained, TimesOut, EndOfInput, CloseStore
<1> QED
  BY <1>2, <1>3 DEF Life

LEMMA EndInit == Init => EndOK
  BY ModesAssumption DEF Init, EndOK, Busy, Handled, Locked

LEMMA EndNext == TypeInv /\ EndOK /\ [Next]_vars => EndOK'
<1> SUFFICES ASSUME TypeInv, EndOK, [Next]_vars PROVE EndOK'
  OBVIOUS
<1>1. /\ stage \in [Requests -> {"new"} \cup Handled \cup Over]
      /\ open \in BOOLEAN
      /\ "new" \notin Handled /\ "cut" \notin Handled /\ "refused" \notin Handled
  BY DEF TypeInv, TypeOK, Handled, Locked
<1>2. ASSUME NEW r \in Requests, Handle(r)
      PROVE  EndOK'
  <2>1. /\ UNCHANGED <<mode, phase, end, open>> /\ phase # "starting"
    BY <1>2, HandleFrame DEF process
  <2>2. PICK place \in Handled \cup {"answered", "skipped", "refused"} :
            stage' = [stage EXCEPT ![r] = place]
    BY <1>2, HandleFrame DEF Reply, Goto
  <2>3. ASSUME phase \in {"returned", "exited"}, Busy = {}, end \notin Abrupt
        PROVE  Busy' = {}
    <3>1. stage[r] \notin Handled
      BY <2>3 DEF Busy
    <3>2. stage'[r] = "refused"
      BY <1>2, <2>3, <3>1, HandleFrame DEF Connected, Abrupt
    <3>3. \A q \in Requests : stage'[q] \in Handled => stage[q] \in Handled
      BY <1>1, <2>2, <3>2
    <3> QED
      BY <2>3, <3>3 DEF Busy
  <2>4. \A q \in Requests : stage'[q] = "cut" => stage[q] = "cut"
    BY <1>1, <2>2
  <2> QED
    BY <2>1, <2>3, <2>4 DEF EndOK
<1>3. CASE stage' = stage /\ Life
  <2>1. Busy' = Busy
    BY <1>3 DEF Busy
  <2>2. CASE Listen \/ Signal
    <3>1. phase = "starting" => Busy' = {}
      BY <1>1, <2>1 DEF EndOK, Busy
    <3>2. \A r \in Requests : stage'[r] # "cut"
      BY <1>3, <2>2 DEF EndOK, Listen, Signal
    <3> QED
      BY <1>3, <2>2, <3>1, <3>2 DEF Listen, Signal, Phase, EndOK
  <2>3. CASE ListenerFails \/ TimesOut
    BY <1>3, <2>1, <2>3 DEF ListenerFails, TimesOut, Phase, EndOK, Abrupt
  <2>4. CASE Drained \/ EndOfInput
    BY <1>3, <2>1, <2>4 DEF Drained, EndOfInput, Phase, EndOK, Abrupt
  <2>5. CASE CloseStore
    BY <1>3, <2>1, <2>5 DEF CloseStore, EndOK
  <2>6. CASE Exit \/ Kill
    BY <1>3, <2>1, <2>6 DEF Exit, Kill, Phase, EndOK, Abrupt
  <2> QED
    BY <1>3, <2>2, <2>3, <2>4, <2>5, <2>6 DEF Life
<1>4. CASE Exit \/ Kill
  <2>1. stage' = [r \in Requests |-> IF r \in Busy THEN "cut" ELSE stage[r]]
    BY <1>4 DEF Exit, Kill, CutBusy
  <2>2. Busy' = {}
    BY <1>1, <2>1 DEF Busy
  <2>3. phase' = "exited" /\ end' \in {end, "killed"} /\ (Kill => end' = "killed")
        /\ phase \in {"serving", "draining", "returned"} /\ (Exit => phase = "returned")
    BY <1>4 DEF Exit, Kill, Phase
  <2>4. end' # "none"
    BY <1>4, <2>3 DEF EndOK
  <2>5. \A r \in Requests : stage'[r] = "cut" => end' \in Abrupt
    BY <1>4, <2>1, <2>3 DEF EndOK, Abrupt
  <2> QED
    BY <2>2, <2>3, <2>4, <2>5 DEF EndOK
<1>5. CASE UNCHANGED vars
  BY <1>5 DEF vars, process, EndOK, Busy
<1> QED
  BY <1>2, <1>3, <1>4, <1>5, LifeFrame DEF Next, Life, ListenerFails, Listen, Signal, Drained,
     TimesOut, EndOfInput, CloseStore

\* A shutdown that is not cut short by its 5 s, by the death of the listener or by
\* a kill cuts no call off, with any number of clients.
THEOREM ShutdownWaits == Spec => []CutOnlyByTimeout
<1>1. EndOK => CutOnlyByTimeout
  BY DEF EndOK, CutOnlyByTimeout, Abrupt
<1> QED
  BY <1>1, InitType, NextType, EndInit, EndNext, PTL DEF Spec
-----------------------------------------------------------------------------
(* What was turned away, and what is in doubt *)

\* Who gets to a tool has passed the checks of the transport, and only a tool
\* writes to the log.
TraceOf(r) ==
    /\ stage[r] \in {"body", "waiting"} \cup Locked =>
          kind[r] # None /\ (mode = "http" => kind[r].token)
    /\ EntriesOf(r) # {} =>
          /\ stage[r] \in Locked \cup {"writing", "answered", "cut"}
          /\ reply[r] \in {"none", "ok", "tool_error"}
          /\ kind[r] # None /\ (mode = "http" => kind[r].token)

TraceInv == KeptInv /\ \A r \in Requests : TraceOf(r)

LEMMA TraceInit == Init => TraceInv
<1>1. Init => \A r \in Requests : stage[r] = "new" /\ EntriesOf(r) = {}
  BY DEF Init, EntriesOf
<1> QED
  BY <1>1, KeptInit DEF TraceInv, TraceOf, Locked

\* The step of a transport: nothing is in the log for a request before it waits.
LEMMA TransportTrace ==
  ASSUME TraceInv, NEW r \in Requests,
         \/ \E k \in Kinds : Accept(r, k) \/ ReadLine(r, k)
         \/ Refuse(r) \/ ReadBody(r) \/ Write(r)
  PROVE  TraceOf(r)'
<1>1. /\ TypeInv /\ KeptOf(r) /\ TraceOf(r)
      /\ stage \in [Requests -> {"new"} \cup Handled \cup Over]
      /\ kind \in [Requests -> Kinds \cup {None}]
      /\ reply \in [Requests -> Replies]
  BY DEF TraceInv, KeptInv, OrderInv, TypeInv, TypeOK
<1>2. UNCHANGED <<process, holder, data>>
  BY <1>1, TransportMoves
<1>3. mode' = mode /\ EntriesOf(r)' = EntriesOf(r)
  BY <1>2 DEF process, data, EntriesOf
<1>4. None \notin Kinds
  BY NoneAssumption
<1>5. ASSUME NEW k \in Kinds, Accept(r, k)
      PROVE  TraceOf(r)'
  <2>1. kind'[r] = k /\ EntriesOf(r) = {} /\ mode = "http" /\ stage[r] = "new"
    BY <1>1, <1>5 DEF Accept, Is, KeptOf
  <2>2. CASE HeaderReply(k) # "none"
    <3>1. stage'[r] = "writing"
      BY <1>1, <1>5, <2>2 DEF Accept, Reply, Goto
    <3> QED
      BY <1>3, <2>1, <3>1 DEF TraceOf, Locked
  <2>3. CASE HeaderReply(k) = "none"
    <3>1. k.token
      BY <2>3 DEF HeaderReply
    <3> QED
      BY <1>3, <1>4, <2>1, <3>1 DEF TraceOf
  <2> QED
    BY <2>2, <2>3
<1>6. ASSUME NEW k \in Kinds, ReadLine(r, k)
      PROVE  TraceOf(r)'
  <2>1. kind'[r] = k /\ EntriesOf(r) = {} /\ mode = "stdio"
    BY <1>1, <1>6 DEF ReadLine, Is, KeptOf
  <2> QED
    BY <1>3, <1>4, <2>1 DEF TraceOf
<1>7. CASE ReadBody(r)
  <2>1. kind' = kind /\ stage[r] = "body" /\ EntriesOf(r) = {}
    BY <1>1, <1>7 DEF ReadBody, KeptOf
  <2> QED
    BY <1>1, <1>3, <2>1 DEF TraceOf
<1>8. CASE Refuse(r)
  <2>1. stage'[r] = "refused" /\ EntriesOf(r) = {}
    BY <1>1, <1>8 DEF Refuse, Goto, KeptOf
  <2> QED
    BY <1>3, <2>1 DEF TraceOf, Locked
<1>9. CASE Write(r)
  <2>1. stage[r] = "writing" /\ stage'[r] = "answered" /\ reply' = reply /\ kind' = kind
    BY <1>1, <1>9 DEF Write, Goto
  <2> QED
    BY <1>1, <1>3, <2>1 DEF TraceOf, Locked
<1> QED
  BY <1>5, <1>6, <1>7, <1>8, <1>9

LEMMA ToolTrace ==
  ASSUME TraceInv, NEW r \in Requests, Lock(r) \/ Tool(r)
  PROVE  TraceOf(r)'
<1>1. /\ TypeInv /\ TraceOf(r) /\ KeptOf(r)
      /\ stage \in [Requests -> {"new"} \cup Handled \cup Over]
      /\ reply \in [Requests -> Replies]
  BY DEF TraceInv, KeptInv, OrderInv, TypeInv, TypeOK
<1>2. stage[r] \in {"waiting"} \cup Locked /\ UNCHANGED <<mode, kind>>
  BY ToolMoves DEF Lock, Tool, Check, AppendEntry, Apply, Embed, Select, Unlock, Locked, process
<1>3. kind'[r] # None /\ (mode' = "http" => kind'[r].token)
  BY <1>1, <1>2 DEF TraceOf
<1>4. stage'[r] \in {"writing"} \cup Locked
  BY <1>1, ToolMoves DEF Reply, Goto
<1>5. reply[r] \in {"none", "tool_error"}
  BY <1>1, <1>2 DEF KeptOf, Locked
<1>6. reply'[r] \in {"none", "ok", "tool_error"}
  BY <1>1, <1>5 DEF Lock, Tool, Check, AppendEntry, Apply, Embed, Select, Unlock, Fail, Reply
<1> QED
  BY <1>3, <1>4, <1>6 DEF TraceOf

LEMMA TraceNext == TraceInv /\ [Next]_vars => TraceInv'
<1>1. SUFFICES ASSUME TraceInv, [Next]_vars PROVE \A q \in Requests : TraceOf(q)'
  BY KeptNext DEF TraceInv
<1>2. /\ TypeInv /\ \A q \in Requests : TraceOf(q)
      /\ stage \in [Requests -> {"new"} \cup Handled \cup Over]
      /\ kind \in [Requests -> Kinds \cup {None}]
      /\ reply \in [Requests -> Replies]
  BY <1>1 DEF TraceInv, KeptInv, OrderInv, TypeInv, TypeOK
<1>3. ASSUME NEW q \in Requests, mode' = mode, EntriesOf(q)' = EntriesOf(q),
             stage'[q] = stage[q], reply'[q] = reply[q], kind'[q] = kind[q]
      PROVE  TraceOf(q)'
  BY <1>2, <1>3 DEF TraceOf
<1>4. CASE Life
  <2>1. TAKE q \in Requests
  <2>2. UNCHANGED <<mode, kind, reply, log>> /\ stage'[q] \in {stage[q], "cut"}
    BY <1>2, <1>4, LifeMoves DEF data
  <2>3. EntriesOf(q)' = EntriesOf(q)
    BY <2>2 DEF EntriesOf
  <2>4. CASE stage'[q] = stage[q]
    BY <1>3, <2>2, <2>3, <2>4
  <2>5. CASE stage'[q] = "cut"
    BY <1>2, <2>2, <2>3, <2>5 DEF TraceOf, Locked
  <2> QED
    BY <2>2, <2>4, <2>5
<1>5. ASSUME NEW r \in Requests, Handle(r)
      PROVE  \A q \in Requests : TraceOf(q)'
  <2>1. TAKE q \in Requests
  <2>2. CASE q = r
    BY <1>1, <1>5, <2>2, TransportTrace, ToolTrace DEF Handle
  <2>3. CASE q # r
    <3>1. stage'[q] = stage[q] /\ reply'[q] = reply[q] /\ mode' = mode
      BY <1>2, <1>5, <2>3, HandleFrame DEF Reply, Goto, process
    <3>2. kind'[q] = kind[q]
      <4>1. CASE \E k \in Kinds : Accept(r, k) \/ ReadLine(r, k)
        BY <1>2, <2>3, <4>1 DEF Accept, ReadLine, Is
      <4>2. CASE Refuse(r) \/ ReadBody(r) \/ Write(r) \/ Lock(r) \/ Tool(r)
        BY <1>2, <4>2, ToolMoves DEF Refuse, ReadBody, Write
      <4> QED
        BY <1>5, <4>1, <4>2 DEF Handle
    <3>3. EntriesOf(q)' = EntriesOf(q)
      <4>1. CASE Lock(r) \/ Tool(r)
        BY <1>2, <2>3, <4>1, ToolEntries
      <4>2. CASE ~(Lock(r) \/ Tool(r))
        <5>1. log' = log
          BY <1>5, <4>2 DEF Handle, Accept, ReadLine, Refuse, ReadBody, Write, data
        <5> QED
          BY <5>1 DEF EntriesOf
      <4> QED
        BY <4>1, <4>2
    <3> QED
      BY <1>3, <3>1, <3>2, <3>3
  <2> QED
    BY <2>2, <2>3
<1>6. CASE UNCHANGED vars
  <2>1. TAKE q \in Requests
  <2>2. UNCHANGED <<mode, kind, reply, stage, log>>
    BY <1>6 DEF vars, process, data
  <2>3. EntriesOf(q)' = EntriesOf(q)
    BY <2>2 DEF EntriesOf
  <2> QED
    BY <1>3, <2>2, <2>3
<1> QED
  BY <1>1, <1>4, <1>5, <1>6 DEF Next

\* A request that is refused, skipped, not authorized, not understood or not known
\* has left nothing in the log, in whatever phase of the process it came, with any
\* number of other requests.
THEOREM NoTraceOfTheTurnedAway == Spec => []TurnedAwayLeavesNoTrace
<1>1. TraceInv => TurnedAwayLeavesNoTrace
  BY DEF TraceInv, TraceOf, TurnedAwayLeavesNoTrace, Locked
<1> QED
  BY <1>1, TraceInit, TraceNext, PTL DEF Spec

\* The stdio server has one line at work, or cut off, at a time.
OneLine ==
    mode = "stdio" =>
        \A q, r \in Requests :
            stage[q] \in Handled \cup {"cut"} /\ stage[r] \in Handled \cup {"cut"} => q = r

LEMMA OneLineNext ==
  ASSUME TypeInv, EndOK, OneLine, [Next]_vars
  PROVE  OneLine'
<1>1. stage \in [Requests -> {"new"} \cup Handled \cup Over]
  BY DEF TypeInv, TypeOK
<1>2. CASE Life
  <2>1. mode' = mode /\ \A q \in Requests : stage'[q] \in Handled \cup {"cut"} =>
                                             stage[q] \in Handled \cup {"cut"}
    BY <1>1, <1>2, LifeFrame DEF Busy
  <2> QED
    BY <2>1 DEF OneLine
<1>3. ASSUME NEW r \in Requests, Handle(r)
      PROVE  OneLine'
  <2>1. mode' = mode
    BY <1>3, HandleFrame DEF process
  <2>2. PICK place : stage' = [stage EXCEPT ![r] = place]
    BY <1>3, HandleFrame DEF Reply, Goto
  <2>3. \A q \in Requests : q # r => stage'[q] = stage[q]
    BY <1>1, <2>2
  <2>4. CASE stage[r] \in Handled \/ stage'[r] = "refused"
    <3>1. "refused" \notin Handled \cup {"cut"}
      BY DEF Handled, Locked
    <3>2. \A q \in Requests : stage'[q] \in Handled \cup {"cut"} => stage[q] \in Handled \cup {"cut"}
      BY <2>3, <2>4, <3>1
    <3> QED
      BY <2>1, <3>2 DEF OneLine
  <2>5. CASE mode = "stdio" => phase = "serving" /\ Busy = {}
    <3>1. mode = "stdio" => \A q \in Requests : stage[q] \notin Handled \cup {"cut"}
      BY <2>5 DEF EndOK, Busy
    <3> QED
      BY <2>1, <2>3, <3>1 DEF OneLine
  <2> QED
    BY <1>3, <2>4, <2>5, HandleFrame
<1>4. CASE UNCHANGED vars
  BY <1>4 DEF vars, process, OneLine
<1> QED
  BY <1>2, <1>3, <1>4 DEF Next

LEMMA AtMostOne ==
  ASSUME NEW D, \A q, r \in D : q = r
  PROVE  Cardinality(D) <= 1
<1>1. CASE D = {}
  <2>1. Cardinality({}) = 0
    BY FS_EmptySet
  <2> QED
    BY <1>1, <2>1
<1>2. CASE D # {}
  <2>1. PICK r : D = {r}
    BY <1>2
  <2>2. Cardinality({r}) = 1
    BY FS_Singleton
  <2> QED
    BY <2>1, <2>2
<1> QED
  BY <1>1, <1>2

\* The client of a stdio server is in doubt about one call at most.
THEOREM OneLineAtATime == Spec => []OneCallInDoubt
<1> DEFINE Inv == TraceInv /\ EndOK /\ OneLine
<1>1. Init => Inv
  <2>1. Init => OneLine
    BY DEF Init, OneLine, Handled, Locked
  <2> QED
    BY <2>1, TraceInit, EndInit
<1>2. Inv /\ [Next]_vars => Inv'
  BY TraceNext, EndNext, OneLineNext DEF TraceInv, KeptInv, OrderInv
<1>3. Inv => OneCallInDoubt
  <2> SUFFICES ASSUME Inv, mode = "stdio"
               PROVE  Cardinality({r \in Requests : EntriesOf(r) # {} /\ stage[r] # "answered"}) <= 1
    BY DEF OneCallInDoubt
  <2> DEFINE D == {r \in Requests : EntriesOf(r) # {} /\ stage[r] # "answered"}
  <2>1. \A q, r \in D : q = r
    BY DEF TraceInv, TraceOf, OneLine, Handled
  <2> HIDE DEF D
  <2>2. Cardinality(D) <= 1
    BY <2>1, AtMostOne
  <2> QED
    BY <2>2 DEF D
<1> HIDE DEF Inv
<1> QED
  BY <1>1, <1>2, <1>3, PTL DEF Spec
-----------------------------------------------------------------------------
(* Writes that the end of the server interrupts *)

\* A write has an entry in the log that the index does not have, and has not been
\* told of it.
Silent(r) == IsWrite(r) /\ reply[r] = "none" /\ ~(EntriesOf(r) \subseteq Applied)

\* Who was given the result of a tool has an answer, and one write at most was cut
\* off between the file and the index.
SilentOK ==
    /\ \A r \in Requests : stage[r] \in {"writing", "answered"} => reply[r] # "none"
    /\ \A q, r \in Requests :
          stage[q] = "cut" /\ Silent(q) /\ stage[r] = "cut" /\ Silent(r) => q = r

SilentInv == TraceInv /\ EndOK /\ SilentOK

\* Where a write is that has left such an entry.
LEMMA SilentAt ==
  ASSUME TraceInv, SilentOK, NEW r \in Requests, Silent(r)
  PROVE  stage[r] \in {"apply", "cut"}
<1>1. /\ KeptOf(r) /\ TraceOf(r) /\ EntriesOf(r) # {}
      /\ stage[r] \notin {"writing", "answered"}
  BY DEF TraceInv, KeptInv, SilentOK, Silent
<1>2. stage[r] \in Locked \cup {"cut"}
  BY <1>1 DEF TraceOf
<1>3. stage[r] \in Locked => stage[r] = "apply"
  BY <1>1 DEF KeptOf, Silent
<1> QED
  BY <1>2, <1>3

LEMMA SilentInit == Init => SilentInv
<1>1. Init => \A r \in Requests : stage[r] = "new"
  BY DEF Init
<1> QED
  BY <1>1, TraceInit, EndInit DEF SilentInv, SilentOK

\* Whoever goes on to send a result has one.
LEMMA ResultNext ==
  ASSUME SilentInv, NEW r \in Requests, Handle(r)
  PROVE  stage'[r] \in {"writing", "answered"} => reply'[r] # "none"
<1>1. /\ stage \in [Requests -> {"new"} \cup Handled \cup Over]
      /\ reply \in [Requests -> Replies] /\ SilentOK /\ TypeInv
  BY DEF SilentInv, TraceInv, KeptInv, OrderInv, TypeInv, TypeOK
<1>2. ASSUME NEW answer, NEW call, Dispatch(r, answer, call)
      PROVE  stage'[r] \in {"writing", "answered"} => reply'[r] # "none"
  BY <1>1, <1>2 DEF Dispatch, Reply, Goto
<1>3. ASSUME NEW k \in Kinds, Accept(r, k) \/ ReadLine(r, k)
      PROVE  stage'[r] \in {"writing", "answered"} => reply'[r] # "none"
  BY <1>1, <1>2, <1>3 DEF Accept, ReadLine, Reply, Goto
<1>4. CASE ReadBody(r)
  BY <1>2, <1>4 DEF ReadBody
<1>5. CASE Refuse(r) \/ Write(r)
  BY <1>1, <1>5 DEF Refuse, Write, Goto, SilentOK
<1>6. CASE Lock(r) \/ Check(r) \/ AppendEntry(r) \/ Embed(r) \/ Select(r)
  <2>1. \E place \in Locked : Goto(r, place)
    BY <1>6 DEF Lock, Check, AppendEntry, Embed, Select, Fail, Reply, Locked
  <2> QED
    BY <1>1, <2>1 DEF Goto, Locked
<1>7. CASE Apply(r)
  <2>1. \E place \in Locked : Goto(r, place)
    BY <1>7 DEF Apply, AfterApply, Fail, Reply, Locked
  <2> QED
    BY <1>1, <2>1 DEF Goto, Locked
<1>8. CASE Unlock(r)
  BY <1>1, <1>8 DEF Unlock, Reply, Goto
<1> QED
  BY <1>3, <1>4, <1>5, <1>6, <1>7, <1>8 DEF Handle, Tool

LEMMA SilentNext == SilentInv /\ [Next]_vars => SilentInv'
<1> SUFFICES ASSUME SilentInv, [Next]_vars PROVE SilentInv'
  OBVIOUS
<1>1. /\ TraceInv /\ EndOK /\ SilentOK /\ TypeInv /\ MutexHeld
      /\ stage \in [Requests -> {"new"} \cup Handled \cup Over]
      /\ reply \in [Requests -> Replies]
  BY DEF SilentInv, TraceInv, KeptInv, OrderInv, TypeInv, TypeOK
<1>2. TraceInv' /\ EndOK'
  BY <1>1, TraceNext, EndNext
<1>3. SUFFICES SilentOK'
  BY <1>2 DEF SilentInv
<1>4. CASE Life
  <2>1. /\ UNCHANGED <<log, index, kind, reply>>
        /\ \/ stage' = stage
           \/ stage' = [r \in Requests |-> IF r \in Busy THEN "cut" ELSE stage[r]]
    BY <1>1, <1>4, LifeFrame DEF data
  <2>2. \A q \in Requests : Silent(q)' <=> Silent(q)
    BY <2>1 DEF Silent, IsWrite, EntriesOf, Applied
  <2>3. \A q \in Requests : stage'[q] \in {"writing", "answered"} => stage'[q] = stage[q]
    BY <2>1
  <2>4. ASSUME NEW q \in Requests, NEW r \in Requests,
               stage'[q] = "cut", Silent(q)', stage'[r] = "cut", Silent(r)'
        PROVE  q = r
    <3>1. CASE stage' = stage
      BY <1>1, <2>2, <2>4, <3>1 DEF SilentOK
    <3>2. CASE stage' # stage
      <4>1. stage[q] # "cut" /\ stage[r] # "cut"
        <5>1. phase # "exited"
          BY <1>1, <1>4, <3>2 DEF Life, Listen, ListenerFails, Signal, Drained, TimesOut,
             EndOfInput, CloseStore, Exit, Kill
        <5> QED
          BY <1>1, <5>1 DEF EndOK
      <4>2. stage[q] = "apply" /\ stage[r] = "apply"
        BY <1>1, <2>2, <2>4, <4>1, SilentAt
      <4> QED
        BY <1>1, <4>2 DEF MutexHeld, Locked
    <3> QED
      BY <3>1, <3>2
  <2> QED
    BY <1>1, <2>1, <2>3, <2>4 DEF SilentOK
<1>5. ASSUME NEW r \in Requests, Handle(r)
      PROVE  SilentOK'
  <2>1. PICK known \in Replies, place \in Handled \cup {"answered", "skipped", "refused"} :
            /\ reply' = [reply EXCEPT ![r] = known]
            /\ stage' = [stage EXCEPT ![r] = place]
    BY <1>1, <1>5, HandleFrame DEF Reply, Goto
  <2>2. /\ \A q \in Requests : q # r => stage'[q] = stage[q] /\ reply'[q] = reply[q]
        /\ stage'[r] # "cut"
    BY <1>1, <2>1 DEF Handled, Locked
  <2>3. \A q \in Requests : stage'[q] \in {"writing", "answered"} => reply'[q] # "none"
    BY <1>1, <1>5, <2>2, ResultNext DEF SilentOK
  <2>4. ASSUME NEW q \in Requests, stage'[q] = "cut", Silent(q)'
        PROVE  stage[q] = "cut" /\ Silent(q)
    <3>1. q # r /\ stage[q] = "cut" /\ reply'[q] = reply[q]
      BY <2>2, <2>4
    <3>2. kind'[q] = kind[q] /\ EntriesOf(q)' = EntriesOf(q)
      <4>1. CASE Lock(r) \/ Tool(r)
        <5>1. kind' = kind
          BY <1>1, <4>1, ToolMoves
        <5> QED
          BY <1>1, <3>1, <4>1, <5>1, ToolEntries
      <4>2. CASE ~(Lock(r) \/ Tool(r))
        <5>1. log' = log
          BY <1>5, <4>2 DEF Handle, Accept, ReadLine, Refuse, ReadBody, Write, data
        <5>2. kind'[q] = kind[q]
          BY <1>1, <1>5, <3>1, <4>2 DEF Handle, Accept, ReadLine, Is, Refuse, ReadBody, Write,
             TypeInv, TypeOK
        <5> QED
          BY <5>1, <5>2 DEF EntriesOf
      <4> QED
        BY <4>1, <4>2
    <3>3. Applied \subseteq Applied'
      BY <1>1, AppliedGrows
    <3> QED
      BY <2>4, <3>1, <3>2, <3>3 DEF Silent, IsWrite
  <2> QED
    BY <1>1, <2>3, <2>4 DEF SilentOK
<1>6. CASE UNCHANGED vars
  <2>1. UNCHANGED <<log, index, kind, stage, reply>>
    BY <1>6 DEF vars, data
  <2>2. \A q \in Requests : Silent(q)' <=> Silent(q)
    BY <2>1 DEF Silent, IsWrite, EntriesOf, Applied
  <2> QED
    BY <1>1, <2>1, <2>2 DEF SilentOK
<1> QED
  BY <1>4, <1>5, <1>6 DEF Next

\* Whatever the number of clients, and whichever writes and statements fail, a store
\* or a forget that is in the log and not in the index was answered with an error by
\* its tool, but for one: the one that a stop found between the two.
THEOREM OrphansAreReported == Spec => []OneUnreportedOrphan
<1>1. SilentInv => OneUnreportedOrphan
  <2> SUFFICES ASSUME SilentInv PROVE OneUnreportedOrphan
    OBVIOUS
  <2>1. ASSUME NEW r \in UnreportedOrphans
        PROVE  r \in Requests /\ Silent(r) /\ stage[r] = "cut" /\ end \in Abrupt
    <3>1. /\ r \in Requests /\ IsWrite(r) /\ Done(r) /\ reply[r] # "tool_error"
          /\ EntriesOf(r) # {} /\ ~(EntriesOf(r) \subseteq Applied)
      BY <2>1 DEF UnreportedOrphans
    <3>2. KeptOf(r) /\ TraceOf(r)
      BY <3>1 DEF SilentInv, TraceInv, KeptInv
    <3>3. reply[r] = "none"
      BY <3>1, <3>2 DEF KeptOf, TraceOf
    <3>4. Silent(r)
      BY <3>1, <3>3 DEF Silent
    <3>5. stage[r] = "cut"
      BY <3>1, <3>4, SilentAt DEF SilentInv, Done, Over
    <3> QED
      BY <3>1, <3>4, <3>5 DEF SilentInv, EndOK
  <2>2. \A q, r \in UnreportedOrphans : q = r
    BY <2>1 DEF SilentInv, SilentOK
  <2>3. Cardinality(UnreportedOrphans) <= 1
    BY <2>2, AtMostOne
  <2>4. UnreportedOrphans # {} => end \in Abrupt
    BY <2>1
  <2> QED
    BY <2>3, <2>4 DEF OneUnreportedOrphan, Abrupt
<1> QED
  BY <1>1, SilentInit, SilentNext, PTL DEF Spec
=============================================================================
