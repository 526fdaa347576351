---------------------------- MODULE MC_ClassTable ----------------------------
(***************************************************************************)
(* Model-checking instance of ClassTable: a temporary class T1 and the     *)
(* class K1 that replaces it (descriptor "LA;"), an ordinary class C2, an  *)
(* image class I1, two loaders; one dex cache whose oat file has .bss GC   *)
(* roots, one whose oat file has none, one plain object.  Three sets are   *)
(* enough for a freeze and an image load in either order.                  *)
(***************************************************************************)
EXTENDS ClassTable

CONSTANTS T1, K1, C2, I1, L1, L2, DC1, DC2, O1, F1, F2

MCClasses == {T1, K1, C2, I1}
MCTempClasses == {T1}
MCDescriptor == (T1 :> "LA;") @@ (K1 :> "LA;") @@ (C2 :> "LB;") @@ (I1 :> "LC;")
MCDefiningLoader == (T1 :> L1) @@ (K1 :> L1) @@ (C2 :> L2) @@ (I1 :> L1)
MCImageSets == {{I1}}
MCDexCaches == {DC1, DC2}
MCOtherObjects == {O1}
MCOatFiles == {F1, F2}
MCOatFileOf == (DC1 :> F1) @@ (DC2 :> F2)
MCBssGcRootFiles == {F1}
MCMaxSets == 3

=============================================================================
