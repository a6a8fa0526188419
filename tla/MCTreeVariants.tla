---------------------------- MODULE MCTreeVariants ----------------------------
(***************************************************************************)
(* Instances of TreeVariants for TLC: three elements give tags at three    *)
(* levels, and the adding policies' actions reach both ends of the width.  *)
(***************************************************************************)
EXTENDS TreeVariants

SmallArrays == [p \in PolicyNames |->
                  IF p = "AffineSumMod" THEN {<<>>, <<1, 2, 0>>}
                  ELSE {<<>>, <<-8>>, <<0, -1, 3>>, <<7, 1, -8>>}]

SmallActions == [p \in PolicyNames |->
                   IF p = "AffineSumMod"
                   THEN {AffineAction(1, 0), AffineAction(2, 0), AffineAction(1, 1)}
                   ELSE {-5, 0, 3}]

=============================================================================
