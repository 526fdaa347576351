---------------------------- MODULE MethodHeader ----------------------------
(***************************************************************************)
(* OatQuickMethodHeader (runtime/oat/oat_quick_method_header.h) as the     *)
(* stack walker uses it: a return pc found on the stack is mapped to the   *)
(* header whose code Contains it, turned into a native pc offset for the   *)
(* stack maps, and, for a frame with a should-deoptimize flag, to the      *)
(* flag's offset from SP.                                                  *)
(*                                                                         *)
(* Compiled methods are laid out one after another as the oat writer does  *)
(* (not under src/): a 4-byte header (PACKED(4), code_info_offset_), then  *)
(* the code at the ISA's code alignment.  Nterp's code lives elsewhere,    *)
(* inside libart, with headers of its own for NterpImpl and               *)
(* NterpWithClinitImpl; they have no CodeInfo (code_info_offset_ is 0).    *)
(* A return pc is the address just after a call instruction; on kArm the  *)
(* code is Thumb-2, so a return pc (like the entry point) carries the      *)
(* Thumb bit.  The walker finds a frame's header from its method's entry   *)
(* point (FromEntryPoint), maps the pc with the headers' Contains, and     *)
(* reads the should-deoptimize flag of an optimized frame that has one.    *)
(***************************************************************************)
EXTENDS Integers, Sequences, FiniteSets, Bitwise

CONSTANTS
  ISA,            \* kRuntimeQuickCodeISA: "kArm" or "kArm64"
  CodeSizes,      \* possible sizes in bytes of one method's code
  NumMethods,     \* compiled methods in the oat file
  CodeInfoBase,   \* where the oat file's CodeInfo tables start
  OatBase,        \* where the oat file's code section starts
  NterpCode,      \* NterpImpl.data()
  NterpSize,      \* NterpImpl.size()
  NterpWithClinitCode,  \* NterpWithClinitImpl.data()
  NterpWithClinitSize,  \* NterpWithClinitImpl.size()
  Locals,         \* possible sizes of a frame's locals and outgoing args
  MaxSpills,      \* most core (and most FP) registers a frame spills
  JunkSizes,      \* what DecodeCodeSize may make of bytes that are no CodeInfo
  NoLookup, NoFlag

ASSUME ISA \in {"kArm", "kArm64"}

(* Properties of the runtime ISA (instruction_set.h, not under src/).      *)
PointerSize == IF ISA = "kArm" THEN 4 ELSE 8
CodeAlignment == IF ISA = "kArm" THEN 8 ELSE 16
InstructionSize == IF ISA = "kArm" THEN 2 ELSE 4
BytesPerGprSpill == PointerSize
BytesPerFprSpill == IF ISA = "kArm" THEN 4 ELSE 8
KStackAlignment == 16
KShouldDeoptimizeFlagSize == 4
HeaderSize == 4              \* sizeof(OatQuickMethodHeader) = OFFSETOF(code_)

RoundUp(x, n) == ((x + n - 1) \div n) * n

(***************************************************************************)
(* uintptr_t / size_t arithmetic: a difference that would be negative      *)
(* wraps to 2^w minus a small amount, which exceeds every address and      *)
(* frame size of the model; it is represented by WrappedWord, an integer   *)
(* above all of them, so that comparisons see it as the huge value it is.  *)
(***************************************************************************)
WrappedWord == 2 ^ 30
UnsignedSub(a, b) == IF a >= b THEN a - b ELSE WrappedWord

(***************************************************************************)
(* The oat writer's layout: method i's code starts at the first aligned    *)
(* address leaving room for its header after method i-1's code; its        *)
(* CodeInfo lies in a table below the code section.                        *)
(***************************************************************************)
RECURSIVE CodeStart(_, _)
CodeStart(sizes, i) ==
  IF i = 1 THEN RoundUp(OatBase + HeaderSize, CodeAlignment)
  ELSE RoundUp(CodeStart(sizes, i - 1) + sizes[i - 1] + HeaderSize, CodeAlignment)

CodeInfoAddr(m) == CodeInfoBase + 16 * (m - 1)

VARIABLES
  sizes,      \* method -> code size (what its CodeInfo records)
  frame,      \* [core, fp, locals] of the walked method's frame
  hasFlag,    \* does the walked method's CodeInfo record a deoptimize flag
  method,     \* the method whose call the walker returns into
  callEnd,    \* offset in that method just after the call instruction
  header,     \* FromEntryPoint of the method's entry point
  found,      \* the headers whose Contains(pc) held, or NoLookup
  pcOffset,   \* NativeQuickPcOffset(pc) of the header found
  flagOffset  \* GetShouldDeoptimizeFlagOffset() read for the frame, or NoFlag

vars == <<sizes, frame, hasFlag, method, callEnd, header, found, pcOffset,
          flagOffset>>

Methods == 1 .. NumMethods
Nterp == 0
NterpWithClinit == -1
Headers == Methods \cup {Nterp, NterpWithClinit}

(* code_ of every header; the header itself is FromCodePointer(code_).     *)
Code(h) ==
  CASE h = Nterp -> NterpCode
    [] h = NterpWithClinit -> NterpWithClinitCode
    [] OTHER -> CodeStart(sizes, h)

(* The constructor's code_info_offset_: the distance back from code_ to    *)
(* the CodeInfo for compiled code, the default 0 for Nterp's headers.      *)
CodeInfoOffset(h) == IF h \in Methods THEN Code(h) - CodeInfoAddr(h) ELSE 0

(* The compiler's frame size (not under src/): ArtMethod*, locals, the     *)
(* should-deoptimize flag and the spills, rounded to kStackAlignment.      *)
FrameSizeInBytes(fi) ==
  RoundUp(PointerSize + fi.locals + KShouldDeoptimizeFlagSize
            + fi.core * BytesPerGprSpill + fi.fp * BytesPerFprSpill,
          KStackAlignment)

(* The true size of a header's code, for choosing the walked pc.           *)
TrueSize(h) ==
  CASE h = Nterp -> NterpSize
    [] h = NterpWithClinit -> NterpWithClinitSize
    [] OTHER -> sizes[h]

(* The return pc of a call ending at offset k of method m.                 *)
ReturnPc(m, k) == Code(m) + k + (IF ISA = "kArm" THEN 1 ELSE 0)

Init ==
  /\ sizes \in [Methods -> CodeSizes]
  /\ frame \in [core : 0 .. MaxSpills, fp : 0 .. MaxSpills, locals : Locals]
  /\ hasFlag \in BOOLEAN
  /\ method \in Headers
  /\ callEnd \in {k \in 1 .. TrueSize(method) : k % InstructionSize = 0}
  /\ header = NoLookup
  /\ found = NoLookup
  /\ pcOffset = 0
  /\ flagOffset = NoFlag

(***************************************************************************)
(* What CodeInfo decoding reads at ptr: a CodeInfo the oat writer put      *)
(* there (only the walked method's frame and flag matter), or, at any      *)
(* other address, whatever the bytes decode to: junk, chosen by the step.  *)
(***************************************************************************)
DecodeCodeInfo(ptr, junk) ==
  IF \E m \in Methods : CodeInfoAddr(m) = ptr
    THEN LET m == CHOOSE m \in Methods : CodeInfoAddr(m) = ptr
         IN  [size |-> sizes[m], frame |-> frame, hasFlag |-> m = method /\ hasFlag]
    ELSE [size |-> junk.size, frame |-> frame, hasFlag |-> junk.hasFlag]

(* Mutant: only NterpImpl recognised as not optimized.                     *)
IsOptimizedNoClinit(h) == Code(h) # NterpCode

(* IsOptimized: neither of Nterp's two implementations.                    *)
IsOptimized(h) == Code(h) \notin {NterpWithClinitCode, NterpCode}

(* GetOptimizedCodeInfoPtr: code_ - GetCodeInfoOffset().                   *)
GetOptimizedCodeInfoPtr(h) == Code(h) - CodeInfoOffset(h)

(* GetFrameInfo: CodeInfo::DecodeFrameInfo.                                *)
FrameInfo(h, junk) == DecodeCodeInfo(GetOptimizedCodeInfoPtr(h), junk).frame

(* GetCodeSize: Nterp's implementation sizes, else the CodeInfo's.         *)
GetCodeSize(h, junk) ==
  CASE Code(h) = NterpWithClinitCode -> NterpWithClinitSize
    [] Code(h) = NterpCode -> NterpSize
    [] OTHER -> DecodeCodeInfo(GetOptimizedCodeInfoPtr(h), junk).size

(* Mutant: the end of the code excluded from the range.                    *)
ContainsExclusive(h, pc, junk) ==
  LET codeStart == Code(h) + (IF ISA = "kArm" THEN 1 ELSE 0)
  IN  codeStart <= pc /\ pc < codeStart + GetCodeSize(h, junk)

(* Contains: on kArm the pc is offset by one for Thumb-2; the end of the   *)
(* code is included, since a call may be the method's last instruction.    *)
Contains(h, pc, junk) ==
  LET codeStart == Code(h) + (IF ISA = "kArm" THEN 1 ELSE 0)
  IN  codeStart <= pc /\ pc <= codeStart + GetCodeSize(h, junk)

(* Mutant: the entry point without the Thumb bit.                          *)
GetEntryPointNoThumbBit(h) == Code(h)

(* GetEntryPoint: code_ with the Thumb bit set on kArm.                    *)
GetEntryPoint(h) == IF ISA = "kArm" THEN Code(h) | 1 ELSE Code(h)

(* InstructionAlignedSize: the header's size rounded to code alignment.    *)
InstructionAlignedSize == RoundUp(HeaderSize, CodeAlignment)

(* Mutant: the header taken InstructionAlignedSize() before the code.      *)
FromCodePointerAligned(code) == code - InstructionAlignedSize

(* FromCodePointer: the header sits OFFSETOF_MEMBER(code_) before code.    *)
FromCodePointer(code) == code - HeaderSize

(* EntryPointToCodePointer (instruction_set.h, not under src/): the Thumb  *)
(* bit cleared.                                                            *)
EntryPointToCodePointer(ep) == IF ISA = "kArm" THEN ep - (ep % 2) ELSE ep

(* FromEntryPoint.                                                         *)
FromEntryPoint(ep) == FromCodePointer(EntryPointToCodePointer(ep))

(* NativeQuickPcOffset, in uintptr_t arithmetic.                           *)
NativeQuickPcOffset(h, pc) == UnsignedSub(pc, GetEntryPoint(h))

(* Mutant: the FP spill area left out of the subtraction.                  *)
GetShouldDeoptimizeFlagOffsetNoFpu(h, junk) ==
  LET fi == FrameInfo(h, junk)
  IN  UnsignedSub(FrameSizeInBytes(fi),
                  fi.core * BytesPerGprSpill + KShouldDeoptimizeFlagSize)

(* GetShouldDeoptimizeFlagOffset, in size_t arithmetic.                    *)
GetShouldDeoptimizeFlagOffset(h, junk) ==
  LET fi == FrameInfo(h, junk)
  IN  UnsignedSub(FrameSizeInBytes(fi),
                  fi.core * BytesPerGprSpill + fi.fp * BytesPerFprSpill
                    + KShouldDeoptimizeFlagSize)

(* HasShouldDeoptimizeFlag: an optimized header whose CodeInfo has one.    *)
HasShouldDeoptimizeFlag(h, junk) ==
  IsOptimized(h) /\ DecodeCodeInfo(GetOptimizedCodeInfoPtr(h), junk).hasFlag

(***************************************************************************)
(* The walker's step: the header of the frame's method from its entry      *)
(* point, the headers containing the return pc and, for the one found, the *)
(* native pc offset and, when it has one, the deoptimization flag.         *)
(* junk is what decoding bytes that are no CodeInfo gives.                 *)
(***************************************************************************)
WalkFrame ==
  /\ found = NoLookup
  /\ \E junk \in [size : JunkSizes, hasFlag : BOOLEAN] :
       LET pc == ReturnPc(method, callEnd)
           hs == {h \in Headers : Contains(h, pc, junk)}
           h1 == CHOOSE h \in hs : TRUE
       IN  /\ header' = FromEntryPoint(GetEntryPoint(method))
           /\ found' = hs
           /\ pcOffset' = IF hs = {} THEN 0 ELSE NativeQuickPcOffset(h1, pc)
           /\ flagOffset' = IF hs # {} /\ HasShouldDeoptimizeFlag(h1, junk)
                              THEN GetShouldDeoptimizeFlagOffset(h1, junk)
                              ELSE NoFlag
  /\ UNCHANGED <<sizes, frame, hasFlag, method, callEnd>>

Done == found # NoLookup /\ UNCHANGED vars

Next == WalkFrame \/ Done

Spec == Init /\ [][Next]_vars /\ WF_vars(WalkFrame)

-----------------------------------------------------------------------------
TypeOK ==
  /\ sizes \in [Methods -> CodeSizes]
  /\ found = NoLookup \/ found \subseteq Headers
  /\ pcOffset \in Nat
  /\ flagOffset = NoFlag \/ flagOffset \in Nat

(***************************************************************************)
(* The return pc of every call, the last instruction's included, in        *)
(* compiled code or in either of Nterp's implementations, maps to exactly  *)
(* one header, its own method's, and to the offset just after the call     *)
(* that the stack maps record (Contains, GetCodeSize and                   *)
(* NativeQuickPcOffset with the Thumb-2 bit on kArm).                      *)
(***************************************************************************)
ReturnPcMapsToItsMethod ==
  found # NoLookup => found = {method} /\ pcOffset = callEnd

(***************************************************************************)
(* The header FromEntryPoint finds from the method's entry point, the      *)
(* Thumb bit included, is the one the oat writer put just before its code. *)
(***************************************************************************)
HeaderFromEntryPoint ==
  found # NoLookup => header = Code(method) - HeaderSize

(***************************************************************************)
(* The walker reads a should-deoptimize flag exactly for frames of         *)
(* optimized code whose CodeInfo records one: never from an Nterp frame,   *)
(* whose header has no CodeInfo, and never missing one that is there.      *)
(***************************************************************************)
DeoptFlagReadExactlyWhenPresent ==
  found # NoLookup => (flagOffset # NoFlag <=> method \in Methods /\ hasFlag)

(***************************************************************************)
(* The should-deoptimize flag read at SP + offset lies in the frame, above *)
(* the ArtMethod* slot and the locals and below the FP and core spills.    *)
(***************************************************************************)
DeoptFlagInsideFrame ==
  flagOffset # NoFlag =>
    LET fi == frame IN
    /\ flagOffset >= PointerSize + fi.locals
    /\ flagOffset + KShouldDeoptimizeFlagSize
         <= FrameSizeInBytes(fi) - fi.core * BytesPerGprSpill - fi.fp * BytesPerFprSpill

=============================================================================
