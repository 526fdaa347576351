--------------------------- MODULE MC_Membarrier ---------------------------
(***************************************************************************)
(* Kernel releases 3.x to 5.x around the 4.14 threshold, API levels on     *)
(* both sides of Q, two calls so that the second reuses the static.        *)
(***************************************************************************)
EXTENDS Membarrier

=============================================================================
