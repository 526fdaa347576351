------------------------ MODULE MC_MethodHeaderArm ------------------------
(***************************************************************************)
(* Three compiled methods of {2, 4, 6} bytes of Thumb-2 code each, their CodeInfos *)
(* below the code section, NterpWithClinitImpl and NterpImpl (8 bytes each) *)
(* far above it, frames spilling up to two core and two FP registers.       *)
(***************************************************************************)
EXTENDS MethodHeader

=============================================================================
