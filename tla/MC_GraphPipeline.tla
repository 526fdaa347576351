-------------------------- MODULE MC_GraphPipeline --------------------------
(***************************************************************************)
(* Methods of up to two instructions with targets in 0..4, every try entry *)
(* and none, under both compiler filters and a threshold of 3 code units.  *)
(***************************************************************************)
EXTENDS GraphPipeline

MCCodeUnits == 1 .. 4
MCFilters == {"kEverything", "kSpeed"}
MCDominatorFailures == {StructuralFailure}
=============================================================================
