--------------------------- MODULE MC_GraphBuilder ---------------------------
(***************************************************************************)
(* Model-checking instance of GraphBuilder.  Code sizes one below, at and  *)
(* one above the huge-method threshold; one dominator failure and two SSA  *)
(* failures so that a wrongly propagated failure shows; intrinsic shorties *)
(* of up to three arguments, which covers every mix of wide, narrow and    *)
(* reference arguments with and without a receiver.                        *)
(***************************************************************************)
EXTENDS GraphBuilder

CONSTANTS FailIrreducibleLoop, FailAmbiguousArrayOp, FailPhiEquivalentInOsr

MCHugeMethodThreshold == 3
MCCodeUnits == {2, 3, 4}
MCFilters == {"kEverything", "kSpeed"}
MCDominatorFailures == {FailIrreducibleLoop}
MCSsaFailures == {FailAmbiguousArrayOp, FailPhiEquivalentInOsr}
MCMaxArgs == 3

=============================================================================
