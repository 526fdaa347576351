-------------------------- MODULE MC_Arm64Context --------------------------
(***************************************************************************)
(* Registers x0, x1 (caller-saved), x19, x20 (callee-saved), SP = 31 and   *)
(* kPC = 32; d0 (caller-saved), d8 and d9 (callee-saved).  Frame 1 saves   *)
(* x19, x20 and d8 in a four-slot frame; frame 2, further out, saves x19,  *)
(* d8 and d9 in a frame that its spill area fills exactly.                 *)
(***************************************************************************)
EXTENDS Arm64Context

CONSTANTS Undefined, NotCopied, Null

MCGPRs == {0, 1, 19, 20, 31, 32}
MCFPRs == {0, 8, 9}
MCCallerSavedGPRs == ((1 .. 15) \cup {18}) \cap MCGPRs
MCCallerSavedFPRs == ((0 .. 7) \cup (16 .. 31)) \cap MCFPRs
MCFrames == {1, 2}
MCCoreMask == (1 :> {19, 20}) @@ (2 :> {19})
MCFpMask == (1 :> {8}) @@ (2 :> {8, 9})
MCFrameSize == (1 :> 4) @@ (2 :> 3)

=============================================================================
