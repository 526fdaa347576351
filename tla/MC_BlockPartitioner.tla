------------------------- MODULE MC_BlockPartitioner -------------------------
(***************************************************************************)
(* Every method of up to three instructions whose branch targets and try  *)
(* entry lie in 0..6: code ends at offset 1 to 6, so targets reach past   *)
(* the end and into two-unit instructions; every try entry with start <   *)
(* end, and none.                                                          *)
(***************************************************************************)
EXTENDS BlockPartitioner

=============================================================================
