----------------------------- MODULE Arm64Context -----------------------------
(***************************************************************************)
(* Arm64Context (runtime/arch/arm64/context_arm64.cc): the register file   *)
(* for a long jump is an array of pointers, one per register, to where its *)
(* value lives: the context's own sp_, pc_ and arg0_, a callee-save slot   *)
(* of a frame on the stack, the shared constant gZero, or nothing.         *)
(* SetGPR writes through the pointer, so a register backed by a stack slot *)
(* changes the frame itself.                                               *)
(*                                                                         *)
(* A frame's callee-save area is laid out by the compiler's prologue (not  *)
(* under src/): core registers above FP registers at the top of the frame, *)
(* each group in ascending register order at ascending addresses.  Init    *)
(* puts the caller's values there; FillCalleeSaves must find them.          *)
(***************************************************************************)
EXTENDS Naturals, FiniteSets, SequencesExt

CONSTANTS
  GPRs, FPRs, X0, SP, PC, CallerSavedGPRs, CallerSavedFPRs,
  Frames, CoreMask, FpMask, FrameSize, Values, Undef, NoCopy,
  NullPtr                         \* model value: a null register pointer

ASSUME \A f \in Frames :
         Cardinality(CoreMask[f]) + Cardinality(FpMask[f]) <= FrameSize[f]

(* Register contents are integers: the debug patterns kBadGprBase + i and  *)
(* kBadFprBase + i, and distinct stand-ins for the values frame f's caller *)
(* had in register r.                                                      *)
KBadGprBase == 1000
KBadFprBase == 2000
BadGpr(i) == KBadGprBase + i
BadFpr(i) == KBadFprBase + i
SavedGpr(f, r) == 10000 + 100 * f + r
SavedFpr(f, r) == 20000 + 100 * f + r

(* Storage a register pointer can designate.                               *)
SpCell == <<"sp_", 0, 0>>
PcCell == <<"pc_", 0, 0>>
Arg0Cell == <<"arg0_", 0, 0>>
GZero == <<"gZero", 0, 0>>
OwnCells == {SpCell, PcCell, Arg0Cell, GZero}
StackCells == UNION {{<<"stack", f, o>> : o \in 0 .. FrameSize[f] - 1} : f \in Frames}
Cells == OwnCells \cup StackCells

(* The prologue's layout: the slot (in 8-byte units from the frame base)   *)
(* where frame f saved register r.                                         *)
PrologueCoreSlot(f, r) ==
  FrameSize[f] - Cardinality(CoreMask[f]) + Cardinality({x \in CoreMask[f] : x < r})
PrologueFpSlot(f, r) ==
  FrameSize[f] - Cardinality(CoreMask[f]) - Cardinality(FpMask[f])
    + Cardinality({x \in FpMask[f] : x < r})

InitialStack ==
  [c \in StackCells |->
     LET f == c[2] IN
     IF \E r \in CoreMask[f] : PrologueCoreSlot(f, r) = c[3]
       THEN SavedGpr(f, CHOOSE r \in CoreMask[f] : PrologueCoreSlot(f, r) = c[3])
     ELSE IF \E r \in FpMask[f] : PrologueFpSlot(f, r) = c[3]
       THEN SavedFpr(f, CHOOSE r \in FpMask[f] : PrologueFpSlot(f, r) = c[3])
     ELSE 30000 + 100 * f + c[3]]

VARIABLES
  gprs,     \* gprs_: GPR -> cell or NullPtr
  fprs,     \* fprs_: FPR -> cell or NullPtr
  mem,      \* the contents of every cell
  walked,   \* the outermost frame visited by the stack walk so far
  out       \* the arrays CopyContextTo produced, or NoCopy

vars == <<gprs, fprs, mem, walked, out>>

Init ==
  /\ gprs = [r \in GPRs |-> CASE r = SP -> SpCell [] r = PC -> PcCell
                               [] r = X0 -> Arg0Cell [] OTHER -> NullPtr]
  /\ fprs = [r \in FPRs |-> NullPtr]
  /\ mem = [c \in Cells |-> CASE c = SpCell -> BadGpr(SP) [] c = PcCell -> BadGpr(PC)
                              [] c \in {Arg0Cell, GZero} -> 0
                              [] OTHER -> InitialStack[c]]
  /\ walked = 0
  /\ out = NoCopy

(* Reset: every pointer null except SP, PC and X0, which point at the      *)
(* context's own sp_, pc_ and arg0_, reset to their debug values and 0.    *)
Reset ==
  /\ gprs' = [r \in GPRs |-> CASE r = SP -> SpCell [] r = PC -> PcCell
                                [] r = X0 -> Arg0Cell [] OTHER -> NullPtr]
  /\ fprs' = [r \in FPRs |-> NullPtr]
  /\ mem' = [mem EXCEPT ![SpCell] = BadGpr(SP), ![PcCell] = BadGpr(PC), ![Arg0Cell] = 0]
  /\ out' = NoCopy
  /\ UNCHANGED walked

(* CalleeSaveAddress (callee_save_frame.h, not under src/): spill slot     *)
(* num counts down from the top of the frame.                              *)
CalleeSaveAddress(f, num) == <<"stack", f, FrameSize[f] - (num + 1)>>

(* Mutant: the position counted from 1.                                    *)
HighToLowIndexFromOne(mask, r) == Cardinality({x \in mask : x >= r})

(* The position of r when mask is walked with HighToLowBits.               *)
HighToLowIndex(mask, r) == Cardinality({x \in mask : x > r})

(* Mutant: the FP loop starting its spill positions again at 0.            *)
FillCalleeSavesFpRestart ==
  \E f \in Frames :
    /\ f > walked
    /\ gprs' = [r \in GPRs |-> IF r \in CoreMask[f]
                  THEN CalleeSaveAddress(f, HighToLowIndex(CoreMask[f], r))
                  ELSE gprs[r]]
    /\ fprs' = [r \in FPRs |-> IF r \in FpMask[f]
                  THEN CalleeSaveAddress(f, HighToLowIndex(FpMask[f], r))
                  ELSE fprs[r]]
    /\ walked' = f
    /\ UNCHANGED <<mem, out>>

(***************************************************************************)
(* FillCalleeSaves: core registers of the spill mask from the highest      *)
(* down take spill positions 0, 1, ...; FP registers, again from the       *)
(* highest down, continue the count.  The stack walk visits each frame     *)
(* once, from the innermost outwards.                                      *)
(***************************************************************************)
FillCalleeSaves ==
  \E f \in Frames :
    /\ f > walked
    /\ gprs' = [r \in GPRs |-> IF r \in CoreMask[f]
                  THEN CalleeSaveAddress(f, HighToLowIndex(CoreMask[f], r))
                  ELSE gprs[r]]
    /\ fprs' = [r \in FPRs |-> IF r \in FpMask[f]
                  THEN CalleeSaveAddress(f, Cardinality(CoreMask[f])
                                              + HighToLowIndex(FpMask[f], r))
                  ELSE fprs[r]]
    /\ walked' = f
    /\ UNCHANGED <<mem, out>>

(***************************************************************************)
(* SetGPR / SetFPR: only an accessible register (non-null pointer) that    *)
(* does not point at gZero (the DCHECKs; the callers keep to them), and    *)
(* the value is written through the pointer.                               *)
(***************************************************************************)
SetGPR ==
  \E r \in GPRs, v \in Values :
    /\ gprs[r] # NullPtr /\ gprs[r] # GZero
    /\ mem' = [mem EXCEPT ![gprs[r]] = v]
    /\ UNCHANGED <<gprs, fprs, walked, out>>

SetFPR ==
  \E r \in FPRs, v \in Values :
    /\ fprs[r] # NullPtr /\ fprs[r] # GZero
    /\ mem' = [mem EXCEPT ![fprs[r]] = v]
    /\ UNCHANGED <<gprs, fprs, walked, out>>

(* SmashCallerSaves: X0 points at gZero for a null return value; the       *)
(* other caller-saved registers (x1-x15, x18, d0-d7, d16-d31) are nulled.  *)
SmashCallerSaves ==
  /\ gprs' = [r \in GPRs |-> CASE r = X0 -> GZero
                               [] r \in CallerSavedGPRs -> NullPtr
                               [] OTHER -> gprs[r]]
  /\ fprs' = [r \in FPRs |-> IF r \in CallerSavedFPRs THEN NullPtr ELSE fprs[r]]
  /\ UNCHANGED <<mem, walked, out>>

(* CopyContextTo: each register's value through its pointer, or the debug  *)
(* pattern kBadGprBase + i / kBadFprBase + i when it has none.             *)
CopyContextTo ==
  /\ out' = [g |-> [i \in GPRs |-> IF gprs[i] = NullPtr THEN BadGpr(i) ELSE mem[gprs[i]]],
             d |-> [i \in FPRs |-> IF fprs[i] = NullPtr THEN BadFpr(i) ELSE mem[fprs[i]]]]
  /\ UNCHANGED <<gprs, fprs, mem, walked>>

Next ==
  Reset \/ FillCalleeSaves \/ SetGPR \/ SetFPR \/ SmashCallerSaves \/ CopyContextTo

Spec == Init /\ [][Next]_vars

-----------------------------------------------------------------------------
TypeOK ==
  /\ gprs \in [GPRs -> Cells \cup {NullPtr}]
  /\ fprs \in [FPRs -> Cells \cup {NullPtr}]
  /\ walked \in {0} \cup Frames

(***************************************************************************)
(* Refinement: read through its pointers, the context is the value         *)
(* register file RegisterContext describes.  This is where the spill       *)
(* positions FillCalleeSaves computes are checked against the prologue's   *)
(* layout, where two registers sharing a slot (a write to one showing in   *)
(* the other) would show, where a write through a register must not reach *)
(* the shared gZero, and where SmashCallerSaves must leave exactly the     *)
(* callee-saved registers known.                                           *)
(***************************************************************************)
Deref(p) == IF p = NullPtr THEN Undef ELSE mem[p]

Abstract == INSTANCE RegisterContext WITH
  regs   <- [r \in GPRs |-> Deref(gprs[r])],
  fregs  <- [r \in FPRs |-> Deref(fprs[r])],
  pinned <- gprs[X0] = GZero

ImplementsRegisterContext == Abstract!Spec

=============================================================================
