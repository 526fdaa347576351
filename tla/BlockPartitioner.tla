-------------------------- MODULE BlockPartitioner --------------------------
(***************************************************************************)
(* The block partitioner of the graph builder (HBasicBlockBuilder::Build,  *)
(* not under src/; spec.md 4.1), modelled from its contract: one forward   *)
(* scan finds the block starts (offset 0, branch targets, the instruction  *)
(* after a branch or terminator, the try region's start and end and its    *)
(* handler), rejects a branch target or try entry that is out of range or  *)
(* inside an instruction, and builds the blocks between consecutive starts *)
(* with their normal and exceptional edges.                                *)
(*                                                                         *)
(* Code is a sequence of instructions with dex widths in code units; a    *)
(* branch holds its absolute target.  The try table has at most one entry  *)
(* [start, end) with one handler.  Synthetic try-boundary blocks are left  *)
(* out: an exceptional edge goes from a block in the region straight to    *)
(* the handler's block.                                                    *)
(***************************************************************************)
EXTENDS Integers, Sequences, FiniteSets

CONSTANTS
  MaxInsns,  \* most instructions in a method
  Targets,   \* the offsets a branch or try entry may name
  NoTry      \* the method has no try region

(* Dex widths in code units: if-eq 2, goto 1, div-int 2, nop, return and  *)
(* throw 1.                                                                *)
Width == [nop |-> 1, div |-> 2, if |-> 2, goto |-> 1, return |-> 1, throw |-> 1]
Branches == {"if", "goto"}
CanThrow == {"div", "throw"}
(* Instructions that end a block: after them control does not fall through *)
(* or may go elsewhere.                                                    *)
EndsBlock == Branches \cup {"return", "throw"}

Insns == [op : {"nop", "div", "return", "throw"}, tgt : {0}]
           \cup [op : Branches, tgt : Targets]
(* The verifier lets no method fall off its end.                           *)
LastInsns == { x \in Insns : x.op \in {"goto", "return", "throw"} }

Codes ==
  UNION { { c \in [1 .. n -> Insns] : c[n] \in LastInsns } : n \in 1 .. MaxInsns }

TryEntries ==
  {NoTry} \cup { t \in [start : Targets, end : Targets, handler : Targets] :
                   t.start < t.end }

(* The offset of instruction i, and the end of the code.                   *)
RECURSIVE Off(_, _)
Off(c, i) == IF i = 1 THEN 0 ELSE Off(c, i - 1) + Width[c[i - 1].op]
CodeEnd(c) == Off(c, Len(c)) + Width[c[Len(c)].op]

Indices(c) == DOMAIN c
Starts(c) == { Off(c, i) : i \in Indices(c) }
IndexAt(c, o) == CHOOSE i \in Indices(c) : Off(c, i) = o
InTry(c, t, i) == t # NoTry /\ t.start <= Off(c, i) /\ Off(c, i) < t.end

(***************************************************************************)
(* The scan's block starts; the try region's end only when code follows.  *)
(***************************************************************************)
TryStarts(c, t) ==
  IF t = NoTry THEN {}
  ELSE {t.start, t.handler} \cup ({t.end} \ {CodeEnd(c)})

(* Mutant: the try region's bounds not made block starts.                  *)
LeadersNoTryBounds(c, t) ==
  {0} \cup { c[i].tgt : i \in { j \in Indices(c) : c[j].op \in Branches } }
      \cup { Off(c, i + 1) : i \in { j \in Indices(c) \ {Len(c)} : c[j].op \in EndsBlock } }
      \cup (IF t = NoTry THEN {} ELSE {t.handler})

(* Mutant: no block start after a branch or terminator.                   *)
LeadersNoAfterBranch(c, t) ==
  {0} \cup { c[i].tgt : i \in { j \in Indices(c) : c[j].op \in Branches } }
      \cup TryStarts(c, t)

Leaders(c, t) ==
  {0} \cup { c[i].tgt : i \in { j \in Indices(c) : c[j].op \in Branches } }
      \cup { Off(c, i + 1) : i \in { j \in Indices(c) \ {Len(c)} : c[j].op \in EndsBlock } }
      \cup TryStarts(c, t)

(* Out of range: a branch target or try entry at or past the code's end   *)
(* (a try may end exactly there).                                          *)
OutOfRange(c, t) ==
  \/ \E i \in Indices(c) : c[i].op \in Branches /\ c[i].tgt >= CodeEnd(c)
  \/ t # NoTry /\ (t.start >= CodeEnd(c) \/ t.end > CodeEnd(c) \/ t.handler >= CodeEnd(c))

(* A block start, or the try's end, inside an instruction.                 *)
MidInstruction(c, t) ==
  \E o \in Leaders(c, t) \cup (IF t = NoTry THEN {} ELSE {t.end} \ {CodeEnd(c)}) :
    o \notin Starts(c)

(* The block of instruction i: the last block start at or before it.      *)
BlockOf(L, c, i) == CHOOSE b \in L : b <= Off(c, i) /\ \A b2 \in L : b2 <= Off(c, i) => b2 <= b
IsLast(L, c, i) == i = Len(c) \/ Off(c, i + 1) \in L

(* The normal successors of instruction i, as offsets.                     *)
SuccOffsets(c, i) ==
  CASE c[i].op = "goto" -> {c[i].tgt}
    [] c[i].op = "if" -> {c[i].tgt, Off(c, i + 1)}
    [] c[i].op \in {"return", "throw"} -> {}
    [] OTHER -> {Off(c, i + 1)}

(* The edges out of each block's last instruction.                         *)
NormalEdges(L, c) ==
  UNION { { <<BlockOf(L, c, i), o>> : o \in SuccOffsets(c, i) } :
            i \in { j \in Indices(c) : IsLast(L, c, j) } }

(* A block in the try region with an instruction that can throw has an    *)
(* edge to the handler.                                                    *)
ExceptionalEdges(L, c, t) ==
  { <<BlockOf(L, c, i), t.handler>> :
      i \in { j \in Indices(c) : c[j].op \in CanThrow /\ InTry(c, t, j) } }

VARIABLES
  code,     \* the method's instructions
  try,      \* its try table entry, or NoTry
  blocks,   \* the block start offsets
  edges,    \* normal edges, block start -> block start
  excEdges, \* exceptional edges, block start -> handler block
  result    \* "none", "Success" or "InvalidBytecode"

vars == <<code, try, blocks, edges, excEdges, result>>

Init ==
  /\ code \in Codes
  /\ try \in TryEntries
  /\ blocks = {} /\ edges = {} /\ excEdges = {}
  /\ result = "none"

(* Build: the scan and the check, then the blocks and their edges.         *)
Build ==
  /\ result = "none"
  /\ IF OutOfRange(code, try) \/ MidInstruction(code, try)
       THEN /\ result' = "InvalidBytecode"
            /\ UNCHANGED <<blocks, edges, excEdges>>
       ELSE LET L == Leaders(code, try)
            IN  /\ blocks' = L
                /\ edges' = NormalEdges(L, code)
                /\ excEdges' = ExceptionalEdges(L, code, try)
                /\ result' = "Success"
  /\ UNCHANGED <<code, try>>

Next == Build

Spec == Init /\ [][Next]_vars

-----------------------------------------------------------------------------
(* Instruction-level control flow, the dex semantics: j may follow i.      *)
Flows(c, i, j) ==
  CASE c[i].op = "goto" -> Off(c, j) = c[i].tgt
    [] c[i].op = "if" -> Off(c, j) = c[i].tgt \/ j = i + 1
    [] c[i].op \in {"nop", "div"} -> j = i + 1
    [] OTHER -> FALSE

TypeOK ==
  /\ result \in {"none", "Success", "InvalidBytecode"}
  /\ blocks \subseteq Targets

(***************************************************************************)
(* The blocks are straight-line code and the block edges are exactly the  *)
(* control flow between instructions: inside a block control only falls   *)
(* through to the next instruction of the same block; from a block's last  *)
(* instruction it goes only to the first instruction of a block along an   *)
(* edge, and every edge is such a flow.                                    *)
(***************************************************************************)
BlocksFollowControlFlow ==
  result = "Success" =>
    /\ \A i, j \in Indices(code) : Flows(code, i, j) =>
         IF IsLast(blocks, code, i)
           THEN Off(code, j) \in blocks
                  /\ <<BlockOf(blocks, code, i), Off(code, j)>> \in edges
           ELSE j = i + 1 /\ BlockOf(blocks, code, j) = BlockOf(blocks, code, i)
    /\ \A e \in edges : \E i, j \in Indices(code) :
         IsLast(blocks, code, i) /\ Flows(code, i, j)
           /\ e = <<BlockOf(blocks, code, i), Off(code, j)>>

(***************************************************************************)
(* Exception edges are exact: every instruction in the try region that can *)
(* throw is in a block with an edge to the handler, and every block with   *)
(* such an edge lies wholly inside the region, so no instruction outside   *)
(* it is given the handler.                                                *)
(***************************************************************************)
ExceptionEdgesExact ==
  result = "Success" =>
    /\ \A i \in Indices(code) :
         code[i].op \in CanThrow /\ InTry(code, try, i) =>
           <<BlockOf(blocks, code, i), try.handler>> \in excEdges
    /\ \A e \in excEdges : \A i \in Indices(code) :
         BlockOf(blocks, code, i) = e[1] => InTry(code, try, i)
=============================================================================
