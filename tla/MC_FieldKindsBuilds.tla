------------------------- MODULE MC_FieldKindsBuilds -------------------------
(***************************************************************************)
(* FieldKinds for both builds whose compiled code shares artSet8/artSet16: *)
(* the ISA is a constant of each build, so each build is an instance of    *)
(* FieldKinds and a behaviour runs in one of them, chosen in Init.         *)
(*                                                                         *)
(* The Java values stored: each type's bounds, -1 and a value whose bits   *)
(* differ between the signed and unsigned reading or that does not fit a   *)
(* narrower kind (300 for short, 32768 and 65535 for char).                *)
(***************************************************************************)
EXTENDS Integers

VARIABLES
  isa,  \* the build the behaviour runs in
  field, stored, reg, got, expected  \* as in FieldKinds

vars == <<isa, field, stored, reg, got, expected>>

MCJavaValues ==
  [jt \in {"boolean", "byte", "char", "short", "int", "long"} |->
     CASE jt = "boolean" -> {0, 1}
       [] jt = "byte" -> {-128, -1, 127}
       [] jt = "char" -> {32768, 65535}
       [] jt = "short" -> {-32768, -1, 300}
       [] jt = "int" -> {-2147483647 - 1, -1, 2147483647}
       [] jt = "long" -> {-1, 1}]

Arm64   == INSTANCE FieldKinds WITH ISA <- "arm64", JavaValues <- MCJavaValues
Riscv64 == INSTANCE FieldKinds WITH ISA <- "riscv64", JavaValues <- MCJavaValues

Init ==
  \/ isa = "arm64" /\ Arm64!Init
  \/ isa = "riscv64" /\ Riscv64!Init

Next ==
  /\ UNCHANGED isa
  /\ \/ isa = "arm64" /\ Arm64!Next
     \/ isa = "riscv64" /\ Riscv64!Next

Spec == Init /\ [][Next]_vars

(***************************************************************************)
(* On each build, a getter hands compiled code exactly the Java value last *)
(* stored in the field, in that ISA's register form, whichever of the      *)
(* shared artSet8/artSet16 entrypoints stored it (FieldKinds'              *)
(* GetterReturnsStoredValue in the build the behaviour runs in).           *)
(***************************************************************************)
GetterReturnsStoredValueOnEachIsa ==
  /\ isa = "arm64" => Arm64!GetterReturnsStoredValue
  /\ isa = "riscv64" => Riscv64!GetterReturnsStoredValue
=============================================================================
