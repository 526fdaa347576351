---------------------------- MODULE GraphPipeline ----------------------------
(***************************************************************************)
(* HGraphBuilder::BuildGraph with its first two collaborators composed in: *)
(* the outcome of block_builder.Build() is the block partitioner's verdict *)
(* on the method's code (BlockPartitioner), and the outcome of             *)
(* graph_->BuildDominatorTree() is the analyzer's on the skeleton the      *)
(* partitioner built (Dominators: a structural failure exactly when the    *)
(* entry block has a predecessor; on every other skeleton the dominators   *)
(* run shows the analyzer succeeds).  The instruction and SSA outcomes     *)
(* stay inputs of the run.  The orchestration is GraphBuilder's, unchanged.*)
(***************************************************************************)
EXTENDS GraphBuilderInputs

CONSTANTS
  MaxInsns,           \* most instructions in a method
  Targets,            \* offsets a branch or try entry may name
  NoTry,              \* the method has no try region
  StructuralFailure   \* the analyzer's failure for an entry with a predecessor

VARIABLES
  method, pc, result, numVRegs, numInVRegs, work,  \* as in GraphBuilder
  code,   \* the method's instructions
  try     \* its try table entry, or NoTry

vars == <<method, pc, result, numVRegs, numInVRegs, work, code, try>>

GB == INSTANCE GraphBuilder
BP == INSTANCE BlockPartitioner
        WITH result <- "none", blocks <- {}, edges <- {}, excEdges <- {}
D  == INSTANCE Dominators
        WITH Blocks <- Targets, Entry <- 0, EntryPreds <- Targets,
             Undefined <- NoTry, edges <- {}, live <- {}, phase <- "start",
             rpo <- <<>>, idom <- {}, pos <- 0, changed <- FALSE,
             header <- {}, passes <- 0, input <- {}

(* block_builder.Build(): the partitioner accepts the code.                *)
BlocksValid(c, t) == ~(BP!OutOfRange(c, t) \/ BP!MidInstruction(c, t))

(* The skeleton the partitioner hands the analyzer: its normal and         *)
(* exceptional edges between block starts.                                 *)
Skeleton(c, t) ==
  LET L == BP!Leaders(c, t)
  IN  BP!NormalEdges(L, c) \cup BP!ExceptionalEdges(L, c, t)

(* graph_->BuildDominatorTree() on that skeleton.                          *)
DominatorResult(c, t) ==
  IF D!Preds(Skeleton(c, t), 0) # {} THEN StructuralFailure ELSE Success

(* The method record BuildGraph sees: its size and the two outcomes come   *)
(* from its code.                                                          *)
Wired(m, c, t) ==
  /\ m.kind = "bytecode"
  /\ m.codeUnits = BP!CodeEnd(c)
  /\ m.blocksValid = BlocksValid(c, t)
  /\ BlocksValid(c, t) => m.dominatorResult = DominatorResult(c, t)

Init ==
  /\ code \in BP!Codes
  /\ try \in BP!TryEntries
  /\ GB!Init
  /\ Wired(method, code, try)

Next == GB!Next /\ UNCHANGED <<code, try>>

Spec == Init /\ [][Next]_vars

-----------------------------------------------------------------------------
(***************************************************************************)
(* Spec 7: a structural failure of the dominator analysis "should never    *)
(* occur for any input that passed block partitioning".  BuildGraph        *)
(* returns the analyzer's failure as it is (builder.cc, step 3), so no     *)
(* method whose blocks were built may end in a dominator failure.          *)
(***************************************************************************)
NoStructuralFailureAfterPartitioning ==
  pc = "Done" /\ "blocks" \in work /\ method.blocksValid =>
    result \notin DominatorFailures
=============================================================================
