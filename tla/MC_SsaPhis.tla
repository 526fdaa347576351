----------------------------- MODULE MC_SsaPhis -----------------------------
(***************************************************************************)
(* Three phis of two inputs each over two primitive definitions and one    *)
(* reference definition: this gives self loops, two-phi cycles that are    *)
(* not redundant, chains of redundant phis, and conflicts reached only     *)
(* through another phi.  The phis are interchangeable.                     *)
(***************************************************************************)
EXTENDS SsaPhis, TLC

CONSTANTS I, J, R

MCDefKind == [d \in {I, J, R} |-> IF d = R THEN "ref" ELSE "prim"]

Symmetry == Permutations(Phis)

=============================================================================
