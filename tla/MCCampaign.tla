------------------------------ MODULE MCCampaign ------------------------------
(***************************************************************************)
(* Instances of Campaign for TLC: the sweep of K, which is the one the     *)
(* schedule and an invocation each enumerate in a way of its own.          *)
(***************************************************************************)
EXTENDS Campaign

\* Of bench/capped_cells.csv; each of them did meet the cap when it was listed.
CappedPairs == {<<1, "checkpointing">>, <<1, "full-copy">>}

=============================================================================
