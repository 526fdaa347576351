--------------------------- MODULE MC_Dominators ---------------------------
(***************************************************************************)
(* Every skeleton over four blocks with entry 0: 2^12 graphs without an   *)
(* edge into the entry, each also with the edge 1 -> 0 (the structural    *)
(* failure).  Four blocks give the diamond, nested and self loops, and    *)
(* the smallest irreducible loops, which take three passes.               *)
(***************************************************************************)
EXTENDS Dominators

=============================================================================
