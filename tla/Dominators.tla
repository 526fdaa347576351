----------------------------- MODULE Dominators -----------------------------
(***************************************************************************)
(* The dominator analyzer of the graph builder (HGraph::BuildDominatorTree,*)
(* not under src/; spec.md 4.2), modelled from its contract: remove the    *)
(* blocks unreachable from the entry, then compute every reachable block's *)
(* immediate dominator by the reverse-postorder iterative fixpoint         *)
(* (repeated dominator intersection, one block per step), and classify as *)
(* loop headers the blocks with a predecessor they dominate.  An entry     *)
(* with a predecessor is a structural failure.                             *)
(*                                                                         *)
(* The skeleton is chosen in Init among all graphs over Blocks, so one run *)
(* checks the algorithm on every control-flow graph of that size.          *)
(***************************************************************************)
EXTENDS Integers, Sequences, SequencesExt, FiniteSets

CONSTANTS
  Blocks,     \* block ids, integers
  Entry,      \* the entry block
  EntryPreds, \* the blocks that may be given an edge into the entry
  Undefined   \* no immediate dominator yet

ASSUME Entry \in Blocks /\ EntryPreds \subseteq Blocks /\ Undefined \notin Blocks

(* The skeletons: any edges between blocks, an edge into the entry only    *)
(* from EntryPreds (each is a structural failure; a few suffice).          *)
Skeletons ==
  SUBSET ((Blocks \X (Blocks \ {Entry})) \cup (EntryPreds \X {Entry}))

Succs(E, b) == { e[2] : e \in { x \in E : x[1] = b } }
Preds(E, b) == { e[1] : e \in { x \in E : x[2] = b } }

(* The blocks reachable from the start set S, avoiding the blocks in X.    *)
RECURSIVE ReachFrom(_, _, _)
ReachFrom(E, S, X) ==
  LET S2 == S \cup { d \in Blocks \ X : \E s \in S : <<s, d>> \in E }
  IN  IF S2 = S THEN S ELSE ReachFrom(E, S2, X)

Reachable(E) == ReachFrom(E, {Entry}, {})

(***************************************************************************)
(* The depth-first postorder of the skeleton: successors are visited in    *)
(* ascending block order, a block is appended once all of them are done.   *)
(* VisitAll visits a set of successors, the smallest first; both return   *)
(* the record [seen, order].                                               *)
(***************************************************************************)
RECURSIVE Visit(_, _, _), VisitAll(_, _, _)
Visit(E, b, st) ==
  IF b \in st.seen THEN st
  ELSE LET done == VisitAll(E, Succs(E, b),
                            [seen |-> st.seen \cup {b}, order |-> st.order])
       IN  [seen |-> done.seen, order |-> Append(done.order, b)]
VisitAll(E, bs, st) ==
  IF bs = {} THEN st
  ELSE LET b == CHOOSE x \in bs : \A y \in bs : x <= y
       IN  VisitAll(E, bs \ {b}, Visit(E, b, st))

PostOrder(E) == Visit(E, Entry, [seen |-> {}, order |-> <<>>]).order
ReversePostOrder(E) == Reverse(PostOrder(E))

(* The position of block b in the reverse postorder: the entry is first.   *)
RpoIndex(rpo, b) == CHOOSE i \in DOMAIN rpo : rpo[i] = b

(***************************************************************************)
(* The two-finger intersection of the iterative algorithm: walk the finger *)
(* further down the reverse postorder up its idom chain until they meet.   *)
(***************************************************************************)
RECURSIVE Intersect(_, _, _, _)
Intersect(rpo, doms, f1, f2) ==
  CASE f1 = f2 -> f1
    [] RpoIndex(rpo, f1) > RpoIndex(rpo, f2) -> Intersect(rpo, doms, doms[f1], f2)
    [] OTHER -> Intersect(rpo, doms, f1, doms[f2])

(* The processed predecessors of b: those already given an idom.          *)
Processed(E, doms, b) == { p \in Preds(E, b) : doms[p] # Undefined }

(* Mutant: only the first processed predecessor taken as the new idom.     *)
NewIdomFirstPredOnly(E, rpo, doms, b) ==
  CHOOSE p \in Processed(E, doms, b) : \A q \in Processed(E, doms, b) : p <= q

(* Intersect acc with the idom chains of the predecessors ps, in order.    *)
RECURSIVE IntersectAll(_, _, _, _)
IntersectAll(rpo, doms, acc, ps) ==
  IF ps = {} THEN acc
  ELSE LET p == CHOOSE q \in ps : \A r \in ps : q <= r
       IN  IntersectAll(rpo, doms, Intersect(rpo, doms, p, acc), ps \ {p})

(* The new idom of b: the intersection over its processed predecessors.    *)
NewIdom(E, rpo, doms, b) ==
  LET done == Processed(E, doms, b)
      first == CHOOSE p \in done : \A q \in done : p <= q
  IN  IntersectAll(rpo, doms, first, done \ {first})

(* Does a dominate b, following the idom tree from b.                      *)
RECURSIVE IdomDominates(_, _, _)
IdomDominates(doms, a, b) ==
  CASE a = b -> TRUE
    [] b = Entry -> FALSE
    [] OTHER -> IdomDominates(doms, a, doms[b])

(* A loop header: a block with a predecessor it dominates (a back edge).   *)
IsLoopHeader(E, rpo, doms, b) ==
  \E p \in Preds(E, b) : IdomDominates(doms, b, p)

VARIABLES
  edges,    \* the skeleton's edges (dead blocks' edges removed by Start)
  live,     \* the blocks of the graph
  phase,    \* "start", "iterate", "done" or "failed"
  rpo,      \* the reverse postorder of the live blocks
  idom,     \* block -> its immediate dominator, or Undefined
  pos,      \* the position in rpo of the next block of the pass
  changed,  \* did this pass change an idom
  header,   \* the loop headers, once done
  passes,   \* the passes begun over rpo
  input     \* history: the skeleton as given

vars == <<edges, live, phase, rpo, idom, pos, changed, header, passes, input>>

Init ==
  /\ edges \in Skeletons
  /\ input = edges
  /\ live = Blocks
  /\ phase = "start"
  /\ rpo = <<>>
  /\ idom = [b \in Blocks |-> Undefined]
  /\ pos = 1
  /\ changed = FALSE
  /\ header = {}
  /\ passes = 0

(* The entry with a predecessor: the distinct structural failure.          *)
FailEntryPred ==
  /\ phase = "start"
  /\ Preds(edges, Entry) # {}
  /\ phase' = "failed"
  /\ UNCHANGED <<edges, live, rpo, idom, pos, changed, header, passes, input>>

(* Remove the unreachable blocks and their edges, order the rest, and     *)
(* start the first pass with idom(entry) = entry.                          *)
Start ==
  /\ phase = "start"
  /\ Preds(edges, Entry) = {}
  /\ LET R == Reachable(edges)
     IN  /\ live' = R
         /\ edges' = { e \in edges : e[1] \in R }
  /\ rpo' = ReversePostOrder(edges)
  /\ idom' = [b \in Blocks |-> IF b = Entry THEN Entry ELSE Undefined]
  /\ phase' = "iterate"
  /\ pos' = 2
  /\ changed' = FALSE
  /\ passes' = 1
  /\ UNCHANGED <<header, input>>

(* One block of a pass, in reverse postorder after the entry.              *)
Step ==
  /\ phase = "iterate"
  /\ pos <= Len(rpo)
  /\ LET b == rpo[pos]
         new == NewIdom(edges, rpo, idom, b)
     IN  /\ idom' = [idom EXCEPT ![b] = new]
         /\ changed' = (changed \/ idom[b] # new)
  /\ pos' = pos + 1
  /\ UNCHANGED <<edges, live, phase, rpo, header, passes, input>>

(* Mutant: the changed flag not cleared before another pass.               *)
EndPassKeepsChanged ==
  /\ phase = "iterate"
  /\ pos > Len(rpo)
  /\ IF changed
       THEN /\ pos' = 2 /\ passes' = passes + 1
            /\ UNCHANGED <<phase, header, changed>>
       ELSE /\ phase' = "done"
            /\ header' = { b \in live : IsLoopHeader(edges, rpo, idom, b) }
            /\ UNCHANGED <<pos, changed, passes>>
  /\ UNCHANGED <<edges, live, rpo, idom, input>>

(* The end of a pass: another pass if one changed an idom, else done and   *)
(* the loop headers classified.                                            *)
EndPass ==
  /\ phase = "iterate"
  /\ pos > Len(rpo)
  /\ IF changed
       THEN /\ pos' = 2 /\ changed' = FALSE /\ passes' = passes + 1
            /\ UNCHANGED <<phase, header>>
       ELSE /\ phase' = "done"
            /\ header' = { b \in live : IsLoopHeader(edges, rpo, idom, b) }
            /\ UNCHANGED <<pos, changed, passes>>
  /\ UNCHANGED <<edges, live, rpo, idom, input>>

Next == FailEntryPred \/ Start \/ Step \/ EndPass

Spec == Init /\ [][Next]_vars

-----------------------------------------------------------------------------
(* Reference definitions over the input skeleton.                          *)
RefDominates(a, b) == a = b \/ b \notin ReachFrom(input, {Entry} \ {a}, {a})
RefIdom(b) ==
  LET sdoms == { a \in Reachable(input) \ {b} : RefDominates(a, b) }
  IN  CHOOSE a \in sdoms : \A c \in sdoms : RefDominates(c, a)

TypeOK ==
  /\ phase \in {"start", "iterate", "done", "failed"}
  /\ idom \in [Blocks -> Blocks \cup {Undefined}]
  /\ live \subseteq Blocks

(***************************************************************************)
(* When the analyzer is done, the graph holds exactly the blocks reachable *)
(* from the entry, and every one of them but the entry has as immediate    *)
(* dominator the closest block on every path to it from the entry: the     *)
(* iterative intersection agrees with the path definition on every graph.  *)
(***************************************************************************)
IdomMatchesPathDefinition ==
  phase = "done" =>
    /\ live = Reachable(input)
    /\ \A b \in live \ {Entry} : idom[b] = RefIdom(b)

(***************************************************************************)
(* The fixpoint loop ends: a pass without a change comes within as many    *)
(* passes as the graph has blocks, so the analyzer returns on every graph  *)
(* (the passes begun never exceed the live blocks).                        *)
(***************************************************************************)
FixpointWithinBlockPasses ==
  passes <= Cardinality(live)
=============================================================================
