----------------------------- MODULE FieldKinds -----------------------------
(***************************************************************************)
(* The primitive kinds of the quick field entrypoints                      *)
(* (quick_field_entrypoints.cc): which C types a Java value passes through *)
(* on its way into a field and back into a register.                       *)
(*                                                                         *)
(*  - Compiled code sets a boolean or byte field with artSet8..., a char   *)
(*    or short field with artSet16...; these forward to the unsigned       *)
(*    Boolean and Char setters, whose Set<Kind> stores the low bits.       *)
(*  - A getter returns ArtField::Get<Kind> (int8_t, uint8_t, int16_t,      *)
(*    uint16_t, uint32_t, uint64_t) converted to the entrypoint's RetType, *)
(*    and the native calling convention puts it in a 64-bit register.     *)
(*                                                                         *)
(* A register or 64-bit C value is <<hi, lo>>, each half the int32 with    *)
(* its bits; a C value narrower than 64 bits is a record of its type and   *)
(* its low 32 bits as such an int32.  Java values are those of int and, for*)
(* long, of long values that fit in an int.                                *)
(***************************************************************************)
EXTENDS Integers, Sequences

CONSTANTS
  ISA,        \* "arm64" or "riscv64"
  JavaValues  \* Java type -> the values compiled code stores

JavaTypes == {"boolean", "byte", "char", "short", "int", "long"}

ASSUME ISA \in {"arm64", "riscv64"}
ASSUME DOMAIN JavaValues = JavaTypes

Width == [int8_t |-> 8, uint8_t |-> 8, int16_t |-> 16, uint16_t |-> 16,
          uint32_t |-> 32, size_t |-> 64, ssize_t |-> 64, uint64_t |-> 64]
CTypes == DOMAIN Width
Signed(t) == t \in {"int8_t", "int16_t", "ssize_t"}

SignOf(lo) == IF lo < 0 THEN -1 ELSE 0
SignExtend(u, w) == IF u >= 2 ^ (w - 1) THEN u - 2 ^ w ELSE u

(***************************************************************************)
(* C conversion of value x (a record [t, hi, lo]) to type t: to 8 or 16    *)
(* bits the low bits, read as signed or not; to 32 bits the low word; to   *)
(* 64 bits a 64-bit value unchanged, a narrower one extended by the sign   *)
(* of its own type (a signed one modulo 2^64 is sign-extended).            *)
(***************************************************************************)
Convert(x, t) ==
  CASE Width[t] \in {8, 16} ->
         LET u == x.lo % (2 ^ Width[t])
         IN  [t |-> t, hi |-> 0, lo |-> IF Signed(t) THEN SignExtend(u, Width[t]) ELSE u]
    [] Width[t] = 32 -> [t |-> t, hi |-> 0, lo |-> x.lo]
    [] Width[x.t] = 64 -> [t |-> t, hi |-> x.hi, lo |-> x.lo]
    [] OTHER -> [t |-> t, hi |-> IF Signed(x.t) THEN SignOf(x.lo) ELSE 0, lo |-> x.lo]

(* A chain of conversions, left to right.                                  *)
RECURSIVE ConvertAll(_, _)
ConvertAll(x, ts) ==
  IF ts = <<>> THEN x ELSE ConvertAll(Convert(x, Head(ts)), Tail(ts))

Kinds == {"Boolean", "Byte", "Char", "Short", "32", "64"}

(***************************************************************************)
(* ArtField (not under src/): the type Get<Kind> returns and Set<Kind>     *)
(* takes, which is what the field's storage holds.                         *)
(***************************************************************************)
FieldCType(kind) ==
  CASE kind = "Boolean" -> "uint8_t"  [] kind = "Byte" -> "int8_t"
    [] kind = "Char" -> "uint16_t"    [] kind = "Short" -> "int16_t"
    [] kind = "32" -> "uint32_t"      [] kind = "64" -> "uint64_t"

(* The getter compiled code calls for a field of each Java type.           *)
GetterKind(jt) ==
  CASE jt = "boolean" -> "Boolean" [] jt = "byte" -> "Byte"
    [] jt = "char" -> "Char"       [] jt = "short" -> "Short"
    [] jt = "int" -> "32"          [] jt = "long" -> "64"

(* Mutant: the riscv #if dropped, Get32 returning size_t everywhere.       *)
RetTypeNoRiscvCase(kind) ==
  CASE kind \in {"Byte", "Short"} -> "ssize_t"
    [] kind \in {"Boolean", "Char", "32"} -> "size_t"
    [] kind = "64" -> "uint64_t"

(***************************************************************************)
(* RetType of each ART_GET_FIELD_FROM_CODE instantiation; on riscv64 the   *)
(* 32-bit getters return uint32_t, which the calling convention            *)
(* sign-extends to the register.                                           *)
(***************************************************************************)
RetType(kind) ==
  CASE kind \in {"Byte", "Short"} -> "ssize_t"
    [] kind \in {"Boolean", "Char"} -> "size_t"
    [] kind = "32" -> IF ISA = "riscv64" THEN "uint32_t" ELSE "size_t"
    [] kind = "64" -> "uint64_t"

(* SetType of each ART_GET_FIELD_FROM_CODE instantiation.                  *)
SetType(kind) ==
  CASE kind \in {"Byte", "Boolean", "32"} -> "uint32_t"
    [] kind \in {"Short", "Char"} -> "uint16_t"
    [] kind = "64" -> "uint64_t"

Set8 == {"artSet8StaticFromCompiledCode", "artSet8InstanceFromCompiledCode",
         "artSet8StaticFromCode", "artSet8InstanceFromCode"}
Set16 == {"artSet16StaticFromCompiledCode", "artSet16InstanceFromCompiledCode",
          "artSet16StaticFromCode", "artSet16InstanceFromCode"}
Set32 == {"artSet32StaticFromCompiledCode", "artSet32InstanceFromCompiledCode"}
Set64 == {"artSet64StaticFromCompiledCode", "artSet64InstanceFromCompiledCode"}

(* The type of new_value in each setter's own signature.                   *)
EntryParamType(ep) ==
  CASE ep \in {"artSet8StaticFromCompiledCode", "artSet8StaticFromCode"} -> "uint32_t"
    [] ep \in {"artSet8InstanceFromCompiledCode", "artSet8InstanceFromCode"} -> "uint8_t"
    [] ep \in Set16 -> "uint16_t"
    [] ep \in Set32 -> SetType("32")
    [] ep \in Set64 -> SetType("64")

(* Mutant: artSet16 forwarding to the Boolean setters.                     *)
ForwardKindSet16ToBoolean(ep) ==
  CASE ep \in Set8 \cup Set16 -> "Boolean"
    [] ep \in Set32 -> "32"
    [] ep \in Set64 -> "64"

(* The kind of art{Set}<Kind>{Static,Instance}FromCode the setter calls:   *)
(* artSet8 the Boolean and artSet16 the Char setters ("the unsigned        *)
(* variant"), the 32 and 64 FromCompiledCode setters their own kind.       *)
ForwardKind(ep) ==
  CASE ep \in Set8 -> "Boolean"
    [] ep \in Set16 -> "Char"
    [] ep \in Set32 -> "32"
    [] ep \in Set64 -> "64"

(***************************************************************************)
(* The C types new_value passes through: the setter's parameter, the       *)
(* SetType of the setter it forwards to, and the parameter of the          *)
(* Set<Kind> that one calls.                                               *)
(***************************************************************************)
SetterChain(ep) ==
  <<EntryParamType(ep), SetType(ForwardKind(ep)), FieldCType(ForwardKind(ep))>>

(* The setters the code generator (not under src/) and the stubs call.     *)
Setters(jt) ==
  CASE jt \in {"boolean", "byte"} -> Set8
    [] jt \in {"char", "short"} -> Set16
    [] jt = "int" -> Set32
    [] jt = "long" -> Set64

(***************************************************************************)
(* Registers.  Compiled code keeps a Java value in a register: on riscv64  *)
(* sign-extended to 64 bits; on arm64 an int-like value in the W register, *)
(* the upper half unspecified.  A function's return value of C type t is   *)
(* left extended to the register: a 32-bit one sign-extended on riscv64,   *)
(* with unspecified upper bits on arm64.                                   *)
(***************************************************************************)
Garbage == {0, 7}
ValueRegs(jt, v) ==
  IF ISA = "riscv64" \/ jt = "long" THEN {<<SignOf(v), v>>}
  ELSE {<<g, v>> : g \in Garbage}
ReturnRegs(x) ==
  CASE Width[x.t] = 64 -> {<<x.hi, x.lo>>}
    [] ISA = "riscv64" -> {<<SignOf(x.lo), x.lo>>}
    [] OTHER -> {<<g, x.lo>> : g \in Garbage}

(* What compiled code accepts as holding Java value v of type jt.          *)
HoldsJavaValue(jt, r, v) ==
  IF ISA = "riscv64" \/ jt = "long" THEN r = <<SignOf(v), v>> ELSE r[2] = v

VARIABLES
  field,    \* Java type -> the C value its field holds
  stored,   \* history: Java type -> the Java value last stored
  reg,      \* the register the last getter returned in
  got,      \* the Java type of the field last read, or "none"
  expected  \* history: the Java value that field held when it was read

vars == <<field, stored, reg, got, expected>>

Init ==
  /\ field = [jt \in JavaTypes |->
                [t |-> FieldCType(GetterKind(jt)), hi |-> 0, lo |-> 0]]
  /\ stored = [jt \in JavaTypes |-> 0]
  /\ reg = <<0, 0>>
  /\ got = "none"
  /\ expected = 0

(* A setter call storing Java value v: the register converted along the   *)
(* chain, then stored by Set<Kind> (the field's storage bits).             *)
Set ==
  \E jt \in JavaTypes : \E v \in JavaValues[jt] :
    \E ep \in Setters(jt) : \E r \in ValueRegs(jt, v) :
      LET x == ConvertAll([t |-> "uint64_t", hi |-> r[1], lo |-> r[2]],
                          SetterChain(ep))
      IN  /\ field' = [field EXCEPT ![jt] = Convert(x, FieldCType(GetterKind(jt)))]
          /\ stored' = [stored EXCEPT ![jt] = v]
          /\ UNCHANGED <<reg, got, expected>>

(* A getter call: Get<Kind>, converted to RetType, returned.               *)
Get ==
  \E jt \in JavaTypes :
    LET kind == GetterKind(jt)
        x == Convert(Convert(field[jt], FieldCType(kind)), RetType(kind))
    IN  /\ reg' \in ReturnRegs(x)
        /\ got' = jt
        /\ expected' = stored[jt]
        /\ UNCHANGED <<field, stored>>

Next == Set \/ Get

Spec == Init /\ [][Next]_vars

-----------------------------------------------------------------------------
TypeOK ==
  /\ got \in JavaTypes \cup {"none"}
  /\ reg \in Int \X Int

(***************************************************************************)
(* A getter hands compiled code exactly the Java value last stored in the  *)
(* field, in the register form that ISA's compiled code expects, whichever *)
(* of the shared artSet8/artSet16 entrypoints stored it: the narrowing of  *)
(* the setters and the widening of the getters must agree on every kind.   *)
(***************************************************************************)
GetterReturnsStoredValue ==
  got # "none" => HoldsJavaValue(got, reg, expected)

=============================================================================
