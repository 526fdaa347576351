------------------------------ MODULE SsaPhis ------------------------------
(***************************************************************************)
(* The SSA finalizer of the graph builder (SsaBuilder::BuildSsa, not under *)
(* src/; spec.md 4.4), modelled from its contract on the phis of a graph:  *)
(*                                                                         *)
(*  - dead phis, those no real use reaches through phi inputs, are         *)
(*    removed (SsaDeadPhiElimination);                                     *)
(*  - a phi whose inputs, ignoring itself, are all one value v is          *)
(*    replaced by v in every use, phi inputs included, and removed         *)
(*    (SsaRedundantPhiElimination), until neither applies;                 *)
(*  - the kinds (reference or primitive) of the definitions are            *)
(*    propagated through the remaining phis to a fixpoint, and a phi that  *)
(*    mixes both is InvalidBytecode.                                       *)
(*                                                                         *)
(* Both eliminations pick any phi they apply to, so one run covers every   *)
(* order.  Init chooses the phis' inputs among all graphs of the sizes.    *)
(***************************************************************************)
EXTENDS Naturals, FiniteSets

CONSTANTS
  Phis,      \* the phis the instruction builder created
  Defs,      \* the instructions that define a value
  DefKind,   \* Defs -> "ref" or "prim"
  NumPreds   \* inputs of each phi: one per predecessor

Values == Phis \cup Defs
Preds == 1 .. NumPreds
Kinds == {"ref", "prim"}

ASSUME Phis \cap Defs = {} /\ DefKind \in [Defs -> Kinds]

(* The values v stands for through the inputs of the phis in P.            *)
RECURSIVE Closure(_, _, _)
Closure(inp, P, S) ==
  LET S2 == S \cup { inp[p][k] : p \in S \cap P, k \in Preds }
  IN  IF S2 = S THEN S ELSE Closure(inp, P, S2)

Sources(inp, P, v) == Closure(inp, P, {v}) \cap Defs
LivePhis(inp, P, u) == Closure(inp, P, {u}) \cap P

(* The inputs of p other than p itself.                                    *)
OtherInputs(inp, p) == { inp[p][k] : k \in Preds } \ {p}

IsRedundant(inp, p) == Cardinality(OtherInputs(inp, p)) = 1

(* Mutant: the replacement applied to the real use only, not phi inputs.   *)
ReplaceInputsNot(inp, p, v) == inp

(* Every phi input that is p replaced by v.                                *)
ReplaceInputs(inp, p, v) ==
  [q \in Phis |-> [k \in Preds |-> IF inp[q][k] = p THEN v ELSE inp[q][k]]]

(* The kinds value v is known to have, given the phis' kinds ks.           *)
KindOf(ks, v) == IF v \in Defs THEN {DefKind[v]} ELSE ks[v]

(* Mutant: a phi's kind taken from its definition inputs only.             *)
InputKindsDefsOnly(ks, inp, p) ==
  UNION { {DefKind[inp[p][k]]} : k \in { j \in Preds : inp[p][j] \in Defs } }

(* The kinds of p's inputs.                                                *)
InputKinds(ks, inp, p) == UNION { KindOf(ks, inp[p][k]) : k \in Preds }

VARIABLES
  phis,     \* the phis still in the graph
  in,       \* phi -> predecessor index -> its input
  use,      \* the value a real instruction uses
  kinds,    \* phi -> the kinds propagated to it
  phase,    \* "eliminate", "type" or "done"
  result,   \* "none", "Success" or "InvalidBytecode"
  origIn,   \* history: the inputs the finalizer was given
  origUse   \* history: the value the instruction used then

vars == <<phis, in, use, kinds, phase, result, origIn, origUse>>

(* Phi graphs as the instruction builder leaves them: every phi has an     *)
(* input other than itself.                                                *)
Init ==
  /\ in \in { f \in [Phis -> [Preds -> Values]] :
                \A p \in Phis : OtherInputs(f, p) # {} }
  /\ use \in Values
  /\ phis = Phis
  /\ kinds = [p \in Phis |-> {}]
  /\ phase = "eliminate"
  /\ result = "none"
  /\ origIn = in
  /\ origUse = use

DeadPhi(p) == p \notin LivePhis(in, phis, use)

(* Remove a phi no real use reaches.                                       *)
EliminateDeadPhi ==
  /\ phase = "eliminate"
  /\ \E p \in phis : DeadPhi(p) /\ phis' = phis \ {p}
  /\ UNCHANGED <<in, use, kinds, phase, result, origIn, origUse>>

(* Replace a redundant phi by its one other input everywhere; remove it.   *)
EliminateRedundantPhi ==
  /\ phase = "eliminate"
  /\ \E p \in phis :
       /\ IsRedundant(in, p)
       /\ LET v == CHOOSE x \in OtherInputs(in, p) : TRUE
          IN  /\ in' = ReplaceInputs(in, p, v)
              /\ use' = IF use = p THEN v ELSE use
       /\ phis' = phis \ {p}
  /\ UNCHANGED <<kinds, phase, result, origIn, origUse>>

(* Neither elimination applies any more: type the remaining phis.          *)
EndElimination ==
  /\ phase = "eliminate"
  /\ \A p \in phis : ~DeadPhi(p) /\ ~IsRedundant(in, p)
  /\ phase' = "type"
  /\ UNCHANGED <<phis, in, use, kinds, result, origIn, origUse>>

(* Propagate the kinds of a phi's inputs to it.                            *)
PropagateKind ==
  /\ phase = "type"
  /\ \E p \in phis :
       /\ ~(InputKinds(kinds, in, p) \subseteq kinds[p])
       /\ kinds' = [kinds EXCEPT ![p] = @ \cup InputKinds(kinds, in, p)]
  /\ UNCHANGED <<phis, in, use, phase, result, origIn, origUse>>

(* At the fixpoint, a phi of both kinds is a type conflict.                *)
CheckTypes ==
  /\ phase = "type"
  /\ \A p \in phis : InputKinds(kinds, in, p) \subseteq kinds[p]
  /\ result' = IF \E p \in phis : kinds[p] = Kinds
                 THEN "InvalidBytecode" ELSE "Success"
  /\ phase' = "done"
  /\ UNCHANGED <<phis, in, use, kinds, origIn, origUse>>

Next ==
  \/ EliminateDeadPhi \/ EliminateRedundantPhi \/ EndElimination
  \/ PropagateKind \/ CheckTypes

Spec == Init /\ [][Next]_vars

-----------------------------------------------------------------------------
TypeOK ==
  /\ phis \subseteq Phis
  /\ use \in Values
  /\ kinds \in [Phis -> SUBSET Kinds]
  /\ result \in {"none", "Success", "InvalidBytecode"}

(***************************************************************************)
(* Eliminating phis, in any order, never changes what a value stands for:  *)
(* the use, and every phi it still reaches, reach through the remaining    *)
(* phis exactly the definitions they reached in the graph as built; the    *)
(* replacement reaches every phi input as well as the instruction's use,   *)
(* and a phi removed as dead was reached by no use.                        *)
(***************************************************************************)
EliminationKeepsSources ==
  /\ Sources(in, phis, use) = Sources(origIn, Phis, origUse)
  /\ \A p \in LivePhis(in, phis, use) :
       Sources(in, phis, p) = Sources(origIn, Phis, p)

(***************************************************************************)
(* The finalizer reports InvalidBytecode exactly when a phi the use        *)
(* reaches in the graph as built merges a reference and a primitive        *)
(* definition, possibly through other phis; a conflict only dead phis      *)
(* have is no error.                                                       *)
(***************************************************************************)
ConflictExactlyOnMixedLivePhi ==
  phase = "done" =>
    (result = "InvalidBytecode" <=>
       \E p \in LivePhis(origIn, Phis, origUse) :
          { DefKind[d] : d \in Sources(origIn, Phis, p) } = Kinds)

=============================================================================
