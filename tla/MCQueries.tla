----------------------------- MODULE MCQueries -----------------------------
(* Values of the constants of Queries for model checking. *)
EXTENDS QueryProperties

\* Three keywords, one of them in two cases and the only long one, a stop word, a
\* short word, and OR, which is a stop word in lower case.
CONSTANTS paint, Paint, cat, dog, ox, the, OR

LowerCase == [w \in Words |-> CASE w = Paint -> paint [] w = OR -> the [] OTHER -> w]
=============================================================================
