------------------------------- MODULE Loops -------------------------------
(* A loop over the members of a sequence, as a recursive function. *)
EXTENDS Integers, Sequences

CONSTANT Step(_, _) \* the body of the loop: the state it makes of one and of a member

\* The state that the loop over s leaves, begun in the state a.
After(a, s) ==
    LET at[n \in 0 .. Len(s)] == IF n = 0 THEN a ELSE Step(at[n - 1], s[n])
    IN  at[Len(s)]
=============================================================================
