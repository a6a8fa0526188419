------------------------------- MODULE MCReplay -------------------------------
(***************************************************************************)
(* Instances of Replay for TLC: traces of up to three lines over three     *)
(* elements, and smoke streams of three operations over two.               *)
(***************************************************************************)
EXTENDS Replay

SmallDeltas == {-2, 0, 1}

SmallArrays == [size \in 2 .. 3 |-> {[p \in 1 .. size |-> 5 * p - 7]}]

=============================================================================
