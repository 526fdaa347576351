------------------------ MODULE MC_MethodHeaderArm64 ------------------------
(***************************************************************************)
(* Three compiled methods of {4, 8, 12} bytes of A64 code each, their CodeInfos *)
(* below the code section, NterpWithClinitImpl and NterpImpl (16 bytes each) *)
(* far above it, frames spilling up to two core and two FP registers.       *)
(***************************************************************************)
EXTENDS MethodHeader

=============================================================================
