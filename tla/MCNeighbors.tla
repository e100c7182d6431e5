---------------------------- MODULE MCNeighbors ----------------------------
(* Values of the constants of Neighbors for model checking. *)
EXTENDS Neighbors

Turn(prefix, idx, width) == [prefix |-> prefix, idx |-> idx, width |-> width]

\* A sequence with its first numbers, one of another prefix, and a plain key.
PaddedKeys ==
    {Turn("t", i, 2) : i \in 0 .. 4} \cup {Turn("s", 1, 2), Turn("note", 0, 0)}

\* The numbers around ten as they are written without padding.
UnpaddedKeys == {Turn("u", 9, 1), Turn("u", 10, 2)}

AllKeys == PaddedKeys \cup UnpaddedKeys
=============================================================================
