--------------------------- MODULE RegisterContext ---------------------------
(***************************************************************************)
(* What a long-jump Context promises, with value semantics: a register     *)
(* file built up while the stack is walked and handed to the long-jump     *)
(* routine.  A register is either unknown (the routine gets the debug      *)
(* pattern bad + i) or holds a value.                                      *)
(*                                                                         *)
(*  - Reset: only SP, PC and X0 are known, with bad + SP, bad + PC and 0;  *)
(*  - FillCalleeSaves(f): each register frame f saved now holds the value  *)
(*    f's prologue stored for it, i.e. its value in f's caller;            *)
(*  - SetGPR/SetFPR: a known register gets a new value; X0 pinned to the   *)
(*    null return value by SmashCallerSaves cannot be set;                 *)
(*  - SmashCallerSaves: X0 becomes 0 and the other caller-saved registers  *)
(*    unknown;                                                             *)
(*  - CopyContextTo: the register arrays handed to the long jump.          *)
(***************************************************************************)
EXTENDS Naturals, FiniteSets

CONSTANTS
  GPRs, FPRs,                     \* register numbers modelled
  X0, SP, PC,                     \* X0, SP (31) and kPC (32, XZR)
  CallerSavedGPRs, CallerSavedFPRs,
  Frames,                         \* 1..n, innermost first
  CoreMask, FpMask,               \* frame -> registers its prologue saved
  Values,                         \* what SetGPR/SetFPR may write (< 1000)
  Undef, NoCopy                   \* model values

(* Register contents are integers: the debug patterns kBadGprBase + i and  *)
(* kBadFprBase + i, and distinct stand-ins for the values frame f's caller *)
(* had in register r.                                                      *)
KBadGprBase == 1000
KBadFprBase == 2000
BadGpr(i) == KBadGprBase + i
BadFpr(i) == KBadFprBase + i
SavedGpr(f, r) == 10000 + 100 * f + r
SavedFpr(f, r) == 20000 + 100 * f + r

VARIABLES regs, fregs, pinned, walked, out

InitialRegs == [r \in GPRs |-> CASE r = SP -> BadGpr(SP)
                                 [] r = PC -> BadGpr(PC)
                                 [] r = X0 -> 0
                                 [] OTHER  -> Undef]

Init ==
  /\ regs = InitialRegs
  /\ fregs = [r \in FPRs |-> Undef]
  /\ pinned = FALSE
  /\ walked = 0
  /\ out = NoCopy

Reset ==
  /\ regs' = InitialRegs /\ fregs' = [r \in FPRs |-> Undef]
  /\ pinned' = FALSE /\ out' = NoCopy
  /\ UNCHANGED walked

(* Frames are visited once each, from the innermost outwards.              *)
FillCalleeSaves ==
  \E f \in Frames :
    /\ f > walked
    /\ regs' = [r \in GPRs |-> IF r \in CoreMask[f] THEN SavedGpr(f, r) ELSE regs[r]]
    /\ fregs' = [r \in FPRs |-> IF r \in FpMask[f] THEN SavedFpr(f, r) ELSE fregs[r]]
    /\ walked' = f
    /\ UNCHANGED <<pinned, out>>

SetGPR ==
  \E r \in GPRs, v \in Values :
    /\ regs[r] # Undef /\ ~(pinned /\ r = X0)
    /\ regs' = [regs EXCEPT ![r] = v]
    /\ UNCHANGED <<fregs, pinned, walked, out>>

SetFPR ==
  \E r \in FPRs, v \in Values :
    /\ fregs[r] # Undef
    /\ fregs' = [fregs EXCEPT ![r] = v]
    /\ UNCHANGED <<regs, pinned, walked, out>>

SmashCallerSaves ==
  /\ regs' = [r \in GPRs |-> CASE r = X0 -> 0
                               [] r \in CallerSavedGPRs -> Undef
                               [] OTHER -> regs[r]]
  /\ fregs' = [r \in FPRs |-> IF r \in CallerSavedFPRs THEN Undef ELSE fregs[r]]
  /\ pinned' = TRUE
  /\ UNCHANGED <<walked, out>>

CopyContextTo ==
  /\ out' = [g |-> [i \in GPRs |-> IF regs[i] = Undef THEN BadGpr(i) ELSE regs[i]],
             d |-> [i \in FPRs |-> IF fregs[i] = Undef THEN BadFpr(i) ELSE fregs[i]]]
  /\ UNCHANGED <<regs, fregs, pinned, walked>>

Next ==
  Reset \/ FillCalleeSaves \/ SetGPR \/ SetFPR \/ SmashCallerSaves \/ CopyContextTo

Spec == Init /\ [][Next]_<<regs, fregs, pinned, walked, out>>

=============================================================================
