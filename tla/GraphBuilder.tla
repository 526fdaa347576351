---------------------------- MODULE GraphBuilder ----------------------------
(***************************************************************************)
(* The graph-construction orchestrator HGraphBuilder of the optimizing     *)
(* compiler (compiler/optimizing/builder.cc).                              *)
(*                                                                         *)
(* BuildGraph runs four collaborators in a fixed order on one thread:      *)
(* the block builder, the skip policy, the dominator-tree builder, the     *)
(* instruction builder and the SSA builder, and turns their outcomes into  *)
(* one GraphAnalysisResult.  BuildIntrinsicGraph builds the fixed          *)
(* three-block graph of a method that has no bytecode.                     *)
(*                                                                         *)
(* The collaborators are not under src/: what they return for a method is  *)
(* part of the method record the run starts from (blocksValid,             *)
(* dominatorResult, instructionsValid, ssaResult), exactly as the          *)
(* orchestrator sees it.  Each call of a collaborator is one step, so that *)
(* the history variable `work` records which stages ran.                   *)
(***************************************************************************)
EXTENDS GraphBuilderInputs

VARIABLES
  method,       \* the method being compiled (fixed for the run)
  pc,           \* where BuildGraph / BuildIntrinsicGraph is
  result,       \* the GraphAnalysisResult returned, or NoResult
  numVRegs,     \* graph_->GetNumberOfVRegs()
  numInVRegs,   \* graph_->GetNumberOfInVRegs()
  work          \* history: the stages that have run on the graph

vars == <<method, pc, result, numVRegs, numInVRegs, work>>

Stages == {"blocks", "dominators", "instructions", "ssa"}

(***************************************************************************)
(* CompilerOptions::IsHugeMethod (compiler_options.h, not under src/):     *)
(* a method is huge when its code size exceeds the threshold.              *)
(***************************************************************************)
IsHugeMethod(codeUnits) == codeUnits > HugeMethodThreshold

(* HGraphBuilder::SkipCompilation.                                         *)
SkipCompilation ==
  /\ method.hasCodeGenerator
  /\ method.filter # "kEverything"
  /\ IsHugeMethod(method.codeUnits)

Init ==
  /\ method \in Methods
  /\ pc = "Start"
  /\ result = NoResult
  /\ numVRegs = 0
  /\ numInVRegs = 0
  /\ work = {}

Finish(r) == pc' = "Done" /\ result' = r

(* Mutant: the code-item counts stored into the wrong graph fields.        *)
BuildBlocksSwappedCounts ==
  /\ pc = "Start"
  /\ method.kind = "bytecode"
  /\ numVRegs' = method.ins
  /\ numInVRegs' = method.registers
  /\ work' = work \cup {"blocks"}
  /\ IF method.blocksValid
       THEN pc' = "BlocksBuilt" /\ UNCHANGED result
       ELSE Finish(InvalidBytecode)
  /\ UNCHANGED method

(***************************************************************************)
(* BuildGraph, step 1: record the vreg counts from the code item, then     *)
(* block_builder.Build(); a failure is kAnalysisInvalidBytecode.           *)
(***************************************************************************)
BuildBlocks ==
  /\ pc = "Start"
  /\ method.kind = "bytecode"
  /\ numVRegs' = method.registers
  /\ numInVRegs' = method.ins
  /\ work' = work \cup {"blocks"}
  /\ IF method.blocksValid
       THEN pc' = "BlocksBuilt" /\ UNCHANGED result
       ELSE Finish(InvalidBytecode)
  /\ UNCHANGED method

(* Mutant: the dominator tree built before the skip policy is consulted.  *)
BuildDominatorTreeSkipLate ==
  /\ pc = "BlocksBuilt"
  /\ work' = work \cup {"dominators"}
  /\ IF method.dominatorResult # Success
       THEN Finish(method.dominatorResult)
       ELSE IF SkipCompilation
              THEN Finish(Skipped)
              ELSE pc' = "DominatorsBuilt" /\ UNCHANGED result
  /\ UNCHANGED <<method, numVRegs, numInVRegs>>

(***************************************************************************)
(* BuildGraph, steps 2 and 3: the skip policy, then                        *)
(* graph_->BuildDominatorTree(), whose failure is returned as it is.       *)
(***************************************************************************)
BuildDominatorTree ==
  /\ pc = "BlocksBuilt"
  /\ IF SkipCompilation
       THEN Finish(Skipped) /\ UNCHANGED work
       ELSE /\ work' = work \cup {"dominators"}
            /\ IF method.dominatorResult = Success
                 THEN pc' = "DominatorsBuilt" /\ UNCHANGED result
                 ELSE Finish(method.dominatorResult)
  /\ UNCHANGED <<method, numVRegs, numInVRegs>>

(* BuildGraph, step 4: instruction_builder.Build().                         *)
BuildInstructions ==
  /\ pc = "DominatorsBuilt"
  /\ work' = work \cup {"instructions"}
  /\ IF method.instructionsValid
       THEN pc' = "InstructionsBuilt" /\ UNCHANGED result
       ELSE Finish(InvalidBytecode)
  /\ UNCHANGED <<method, numVRegs, numInVRegs>>

(* BuildGraph, step 5: return ssa_builder.BuildSsa().                       *)
BuildSsa ==
  /\ pc = "InstructionsBuilt"
  /\ work' = work \cup {"ssa"}
  /\ Finish(method.ssaResult)
  /\ UNCHANGED <<method, numVRegs, numInVRegs>>

(***************************************************************************)
(* BuildIntrinsicGraph: the vreg counts come from the shorty: one vreg per *)
(* argument, one more per wide argument, one for the receiver of an        *)
(* instance method, and two reserved for the return value.  The fixed      *)
(* skeleton then goes through all four stages; their results are only      *)
(* DCHECKed (the three-block graph cannot fail them).                      *)
(***************************************************************************)
CountChar(s, c) == Cardinality({i \in DOMAIN s : s[i] = c})

NumArgVRegs(m) ==
  LET args == Tail(m.shorty)
      numArgs == Len(args)
      numWideArgs == CountChar(args, "J") + CountChar(args, "D")
  IN  numArgs + numWideArgs + (IF m.isStatic THEN 0 ELSE 1)

BuildIntrinsicGraph ==
  /\ pc = "Start"
  /\ method.kind = "intrinsic"
  /\ numVRegs' = 2 + NumArgVRegs(method)
  /\ numInVRegs' = NumArgVRegs(method)
  /\ work' = Stages
  /\ Finish(Success)
  /\ UNCHANGED method

Done == pc = "Done" /\ UNCHANGED vars

Next ==
  \/ BuildBlocks
  \/ BuildDominatorTree
  \/ BuildInstructions
  \/ BuildSsa
  \/ BuildIntrinsicGraph
  \/ Done

(* One compilation runs synchronously on one worker thread with no         *)
(* suspension point, so every enabled step is eventually taken.            *)
Spec == Init /\ [][Next]_vars /\ WF_vars(Next)

-----------------------------------------------------------------------------
TypeOK ==
  /\ method \in Methods
  /\ pc \in {"Start", "BlocksBuilt", "DominatorsBuilt", "InstructionsBuilt", "Done"}
  /\ result \in GraphAnalysisResults \cup {NoResult}
  /\ numVRegs \in Nat /\ numInVRegs \in Nat
  /\ numInVRegs <= numVRegs
  /\ work \subseteq Stages

(***************************************************************************)
(* Refinement: seen at the moment BuildGraph or BuildIntrinsicGraph        *)
(* returns, the pipeline gives every method the result, the paid-for       *)
(* stages and the vreg frame that GraphBuilderSpec promises; in between it *)
(* looks like the abstract compilation has not happened yet.  This is where*)
(* the order of the skip check and the dominator tree in BuildGraph, the   *)
(* propagation of each collaborator's failure, the huge-method boundary    *)
(* and the intrinsic vreg arithmetic of BuildIntrinsicGraph are checked.   *)
(***************************************************************************)
Abstract == INSTANCE GraphBuilderSpec WITH
  outcome <- IF pc = "Done" THEN result ELSE NoResult,
  cost    <- IF pc = "Done" THEN work ELSE {},
  frame   <- IF pc = "Done" THEN <<numVRegs, numInVRegs>> ELSE <<0, 0>>

ImplementsGraphBuilderSpec == Abstract!Spec

=============================================================================
