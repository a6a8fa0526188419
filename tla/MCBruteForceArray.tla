--------------------------- MODULE MCBruteForceArray ---------------------------
(***************************************************************************)
(* Instances of BruteForceArray for TLC.                                   *)
(***************************************************************************)
EXTENDS BruteForceArray

SmallArrays == {<<>>, <<2>>, <<-2, 3>>, <<1, 0, 1>>, <<3, 3>>}
SmallDeltas == {-2, 0, 1}

=============================================================================
