-------------------------- MODULE GraphBuilderInputs --------------------------
(***************************************************************************)
(* What one run of HGraphBuilder starts from: the method (its code-item    *)
(* metadata or its shorty), the compiler configuration, and the outcome    *)
(* each collaborator of builder.cc reports for it.  Shared by the          *)
(* detailed GraphBuilder module and the abstract GraphBuilderSpec.         *)
(***************************************************************************)
EXTENDS Naturals, Sequences, FiniteSets

CONSTANTS
  HugeMethodThreshold,  \* CompilerOptions::huge_method_threshold_
  CodeUnits,            \* code sizes (in 16-bit code units) of the methods
  Filters,              \* compiler filters; contains "kEverything"
  DominatorFailures,    \* non-success results of HGraph::BuildDominatorTree
  SsaFailures,          \* non-success results of SsaBuilder::BuildSsa
  MaxArgs,              \* longest argument list of an intrinsic's shorty
  NoResult              \* model value: BuildGraph has not returned yet

ASSUME HugeMethodThreshold \in Nat
ASSUME CodeUnits \subseteq Nat
ASSUME "kEverything" \in Filters
ASSUME NoResult \notin DominatorFailures \cup SsaFailures

Success         == "kAnalysisSuccess"
InvalidBytecode == "kAnalysisInvalidBytecode"
Skipped         == "kAnalysisSkipped"

GraphAnalysisResults ==
  {Success, InvalidBytecode, Skipped} \cup DominatorFailures \cup SsaFailures

(* Shorty characters: J and D are the wide (two-vreg) types.               *)
ShortyChars == {"I", "J", "F", "D", "L", "Z"}
WideChars   == {"J", "D"}

(***************************************************************************)
(* The inputs one run can start from.  A bytecode method carries its       *)
(* code-item metadata, the compiler configuration, and what each           *)
(* collaborator returns for it.  An intrinsic has only a shorty (return    *)
(* type first) and a static flag.                                          *)
(***************************************************************************)
BytecodeMethods ==
  [ kind              : {"bytecode"},
    codeUnits         : CodeUnits,
    registers         : {2},
    ins               : {0, 1},
    filter            : Filters,
    hasCodeGenerator  : BOOLEAN,
    blocksValid       : BOOLEAN,
    dominatorResult   : {Success} \cup DominatorFailures,
    instructionsValid : BOOLEAN,
    ssaResult         : {Success} \cup SsaFailures ]

Shorties == UNION { [1 .. n -> ShortyChars] : n \in 1 .. MaxArgs + 1 }

IntrinsicMethods ==
  [ kind : {"intrinsic"}, shorty : Shorties, isStatic : BOOLEAN ]

Methods == BytecodeMethods \cup IntrinsicMethods

=============================================================================
