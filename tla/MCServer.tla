------------------------------ MODULE MCServer ------------------------------
(* Values of the constants of Server for model checking. *)
EXTENDS ServerProperties

CONSTANTS q1, q2

Rpc(call) == [path |-> "rpc", token |-> TRUE, verb |-> "POST", body |-> "object",
              v2 |-> TRUE, id |-> TRUE, call |-> call]

Reminder == [Rpc("reminder") EXCEPT !.path = "reminder"]

\* One request of every sort that the checks tell apart.
AllKinds ==
    {Rpc(call) : call \in Calls} \cup
    {Reminder, [Reminder EXCEPT !.token = FALSE],
     [Rpc("describe") EXCEPT !.path = "health", !.verb = "GET"],
     [Rpc("describe") EXCEPT !.path = "health"],
     [Rpc("store") EXCEPT !.token = FALSE], [Rpc("store") EXCEPT !.verb = "GET"],
     [Rpc("store") EXCEPT !.body = "garbage"], [Rpc("store") EXCEPT !.v2 = FALSE],
     [Rpc("store") EXCEPT !.id = FALSE]}

\* What the life of a call depends on.
FewKinds == {Rpc("store"), Rpc("forget_both"), Rpc("bad_args")}
=============================================================================
