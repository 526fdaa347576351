--------------------------- MODULE GraphBuilderSpec ---------------------------
(***************************************************************************)
(* What graph construction promises (spec.md sections 4.1, 4.3, 4.5, 7     *)
(* and 8), stated without the pipeline: one compilation maps its method to *)
(* a single result, to the set of stages whose work was paid for, and to   *)
(* the vreg frame recorded on the graph.                                   *)
(*                                                                         *)
(*  - malformed blocks are kAnalysisInvalidBytecode before any later stage *)
(*    runs;                                                                *)
(*  - the skip policy is decided after block partitioning and before the   *)
(*    dominator tree: a skipped method pays for partitioning only, and a   *)
(*    method whose size is at the threshold is compiled, one unit above is *)
(*    skipped;                                                             *)
(*  - a structural failure of a later stage is reported as that stage's    *)
(*    result, and the stages after it never run;                           *)
(*  - an intrinsic gets two return vregs above its argument vregs, a wide  *)
(*    argument taking two slots and the receiver one.                      *)
(***************************************************************************)
EXTENDS GraphBuilderInputs

VARIABLES method, outcome, cost, frame

(* The skip policy of sections 4.5 and 8, "compile nothing" when there is  *)
(* no code generator or the filter is kEverything.                         *)
SkipPolicy(m) ==
  /\ m.hasCodeGenerator
  /\ m.filter # "kEverything"
  /\ m.codeUnits >= HugeMethodThreshold + 1

SlotWidth(c) == IF c \in WideChars THEN 2 ELSE 1

RECURSIVE ArgSlots(_)
ArgSlots(args) ==
  IF args = <<>> THEN 0 ELSE SlotWidth(Head(args)) + ArgSlots(Tail(args))

InVRegs(m) ==
  IF m.kind = "intrinsic"
    THEN ArgSlots(Tail(m.shorty)) + (IF m.isStatic THEN 0 ELSE 1)
    ELSE m.ins

Frame(m) ==
  IF m.kind = "intrinsic"
    THEN <<InVRegs(m) + 2, InVRegs(m)>>
    ELSE <<m.registers, m.ins>>

(* The result and the stages paid for, in pipeline order.                  *)
Analysis(m) ==
  CASE m.kind = "intrinsic" ->
         [r |-> "kAnalysisSuccess",
          paid |-> {"blocks", "dominators", "instructions", "ssa"}]
    [] ~m.blocksValid ->
         [r |-> "kAnalysisInvalidBytecode", paid |-> {"blocks"}]
    [] SkipPolicy(m) ->
         [r |-> "kAnalysisSkipped", paid |-> {"blocks"}]
    [] m.dominatorResult # "kAnalysisSuccess" ->
         [r |-> m.dominatorResult, paid |-> {"blocks", "dominators"}]
    [] ~m.instructionsValid ->
         [r |-> "kAnalysisInvalidBytecode",
          paid |-> {"blocks", "dominators", "instructions"}]
    [] OTHER ->
         [r |-> m.ssaResult,
          paid |-> {"blocks", "dominators", "instructions", "ssa"}]

Init ==
  /\ method \in Methods
  /\ outcome = NoResult
  /\ cost = {}
  /\ frame = <<0, 0>>

Compile ==
  /\ outcome = NoResult
  /\ outcome' = Analysis(method).r
  /\ cost' = Analysis(method).paid
  /\ frame' = Frame(method)
  /\ UNCHANGED method

Spec == Init /\ [][Compile]_<<method, outcome, cost, frame>>
             /\ WF_<<method, outcome, cost, frame>>(Compile)

=============================================================================
