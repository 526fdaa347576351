--------------------------- MODULE FieldEntrypoints ---------------------------
(***************************************************************************)
(* The quick field entrypoints (runtime/entrypoints/quick/                 *)
(* quick_field_entrypoints.cc): the runtime calls compiled code makes to   *)
(* get or set a field it could not access inline.  Each call tries         *)
(* FindFieldFast, which cannot suspend, and falls back to                  *)
(* FindFieldFromCode, which can: while the mutator is suspended there a    *)
(* moving GC may relocate objects, and only the pointers the entrypoint    *)
(* wrapped in a HandleWrapper are updated.                                 *)
(*                                                                         *)
(* Threads: one mutator running entrypoint calls one after another (the    *)
(* CompiledCode variants and artSet8/16 forward to these with a referrer   *)
(* and a value from the same sets), another mutator that initialises the   *)
(* fields' declaring class, other threads that resolve dex-cache entries,  *)
(* and the moving GC.  All fields belong to one class; referrers are       *)
(* methods of that class or of another one.                                *)
(***************************************************************************)
EXTENDS Integers, FiniteSets, TLC

CONSTANTS
  Fields,         \* field indexes of the dex file
  StaticFields,   \* fields declared static
  ObjectFields,   \* fields of reference type (the Obj entrypoints)
  FinalFields,    \* fields declared final
  Referrers,      \* methods making the calls
  OwnReferrers,   \* referrers declared in the fields' class
  Accessible,     \* pairs <<referrer, field>> passing CanAccessMember
  Objects,        \* heap objects (instances of the fields' class)
  Addrs,          \* heap addresses
  Null, NullPtr   \* model values: null reference, null pointer

ASSUME StaticFields \cup ObjectFields \cup FinalFields \subseteq Fields
ASSUME OwnReferrers \subseteq Referrers
ASSUME Accessible \subseteq Referrers \X Fields
ASSUME Cardinality(Addrs) > Cardinality(Objects)

PrimValues == {0, 1}
Statuses == {"Uninitialized", "Initializing", "Initialized",
             "VisiblyInitialized", "Erroneous"}
Exceptions == {"None", "NoSuchFieldError", "IncompatibleClassChangeError",
               "IllegalAccessError", "ExceptionInInitializerError",
               "NoClassDefFoundError", "NullPointerException"}

VARIABLES
  status,        \* ClassStatus of the fields' declaring class
  resolved,      \* field -> is it in the dex cache (GetResolvedField)
  typeResolved,  \* field -> is its type resolved (LookupResolvedType)
  addr,          \* object -> its current address
  staticVal,     \* static field -> value
  heap,          \* object -> instance field -> value
  call,          \* the mutator's current call (its arguments and locals)
  pc,            \* "idle", "fast", "slow", "done"
  ret,           \* the value the call returns
  exc,           \* the exception pending on the mutator
  lastAccess     \* history: the field access of the current call, if any

vars == <<status, resolved, typeResolved, addr, staticVal, heap, call, pc,
          ret, exc, lastAccess>>

InstanceFields == Fields \ StaticFields
ValuesOf(f) == IF f \in ObjectFields THEN Objects \cup {Null} ELSE PrimValues
ZeroOf(f) == IF f \in ObjectFields THEN Null ELSE 0
PtrOf(o) == IF o = Null THEN NullPtr ELSE addr[o]

NoCall == [op |-> "none", static |-> FALSE, field |-> Null, referrer |-> Null,
           obj |-> Null, ptr |-> NullPtr, val |-> Null, valPtr |-> NullPtr,
           shouldResolveType |-> FALSE]
NoAccess == [none |-> TRUE]

Init ==
  /\ status = "Uninitialized"
  /\ resolved = [f \in Fields |-> FALSE]
  /\ typeResolved = [f \in Fields |-> FALSE]
  /\ addr \in {a \in [Objects -> Addrs] :
                 \A o1, o2 \in Objects : o1 # o2 => a[o1] # a[o2]}
  /\ staticVal = [f \in StaticFields |-> ZeroOf(f)]
  /\ heap = [o \in Objects |-> [f \in InstanceFields |-> ZeroOf(f)]]
  /\ call = NoCall
  /\ pc = "idle"
  /\ ret = 0
  /\ exc = "None"
  /\ lastAccess = NoAccess

-----------------------------------------------------------------------------
(* Mutant: the Obj setters never asking for the field's type.              *)
ShouldResolveTypeNever(op, f, v) == FALSE

(* should_resolve_type = IsObject && new_value != 0, for the setters.      *)
ShouldResolveType(op, f, v) == op = "set" /\ f \in ObjectFields /\ v # Null

(***************************************************************************)
(* A call of art{Get,Set}<Kind>{Static,Instance}FromCode (the              *)
(* FromCompiledCode variants find the referrer with GetReferrer first;     *)
(* artSet8/16 forward to the Boolean/Char setters).  The entrypoint kind,  *)
(* Obj or primitive, follows the field's type; whether the call is static  *)
(* is the compiled code's view and may disagree with the field.            *)
(* should_resolve_type is set for an Obj setter storing a non-null value.  *)
(***************************************************************************)
Call ==
  /\ pc = "idle"
  /\ \E op \in {"get", "set"}, isStatic \in BOOLEAN, f \in Fields,
        r \in Referrers, o \in Objects \cup {Null} :
       \E v \in IF op = "set" THEN ValuesOf(f) ELSE {ZeroOf(f)} :
         call' = [op |-> op, static |-> isStatic, field |-> f,
                  referrer |-> r,
                  obj |-> IF isStatic THEN Null ELSE o,
                  ptr |-> IF isStatic THEN NullPtr ELSE PtrOf(o),
                  val |-> v,
                  valPtr |-> IF f \in ObjectFields THEN PtrOf(v) ELSE NullPtr,
                  shouldResolveType |-> ShouldResolveType(op, f, v)]
  /\ pc' = "fast"
  /\ lastAccess' = NoAccess
  /\ UNCHANGED <<status, resolved, typeResolved, addr, staticVal, heap, ret,
                 exc>>

(* ArtField::CanBeChangedBy: a final field only by its own class.          *)
CanBeChangedBy(f, r) == f \notin FinalFields \/ r \in OwnReferrers

(* Mutant: the static path not waiting for a visibly initialised class.    *)
FindFieldFastNoInitCheck(c) ==
  /\ resolved[c.field]
  /\ (c.field \in StaticFields) = c.static
  /\ <<c.referrer, c.field>> \in Accessible
  /\ c.op = "set" => CanBeChangedBy(c.field, c.referrer)
  /\ c.shouldResolveType => typeResolved[c.field]

(* Mutant: the is_set && !CanBeChangedBy clause dropped.                   *)
FindFieldFastNoFinalCheck(c) ==
  /\ resolved[c.field]
  /\ (c.field \in StaticFields) = c.static
  /\ c.static => status = "VisiblyInitialized"
  /\ <<c.referrer, c.field>> \in Accessible
  /\ c.shouldResolveType => typeResolved[c.field]

(***************************************************************************)
(* FindFieldFast: a dex-cache hit, the right staticness, a visibly         *)
(* initialised class for a static, the access checks (a write also needs   *)
(* CanBeChangedBy) and, when asked, the field's type already resolved.     *)
(***************************************************************************)
FindFieldFast(c) ==
  /\ resolved[c.field]
  /\ (c.field \in StaticFields) = c.static
  /\ c.static => status = "VisiblyInitialized"
  /\ <<c.referrer, c.field>> \in Accessible
  /\ c.op = "set" => CanBeChangedBy(c.field, c.referrer)
  /\ c.shouldResolveType => typeResolved[c.field]

(***************************************************************************)
(* Get<Kind>/Set<Kind> on the field, through the pointers the call holds   *)
(* now (the declaring class for a static).  Through a pointer that is not  *)
(* the object's current address the access is undefined behaviour: any    *)
(* value may be read, and the write lands elsewhere.  A getter returns the *)
(* value, a setter 0.  lastAccess records what the properties judge.       *)
(***************************************************************************)
PerformAccess(c) ==
  LET f == c.field
      recvOk == c.static \/ (c.obj # Null /\ c.ptr = addr[c.obj])
      valOk == c.val \notin Objects \/ c.valPtr = addr[c.val]
  IN  /\ lastAccess' = [none |-> FALSE, field |-> f, write |-> c.op = "set",
                        referrer |-> c.referrer, status |-> status',
                        val |-> c.val, typeResolved |-> typeResolved'[f],
                        pointersValid |-> recvOk /\ valOk]
      /\ IF c.op = "get"
           THEN /\ \/ recvOk /\ ret' = IF c.static THEN staticVal[f]
                                       ELSE heap[c.obj][f]
                   \/ ~recvOk /\ ret' \in ValuesOf(f)
                /\ UNCHANGED <<staticVal, heap>>
           ELSE /\ ret' = 0
                /\ IF ~(recvOk /\ valOk) THEN UNCHANGED <<staticVal, heap>>
                   ELSE IF c.static
                     THEN staticVal' = [staticVal EXCEPT ![f] = c.val]
                          /\ UNCHANGED heap
                     ELSE heap' = [heap EXCEPT ![c.obj][f] = c.val]
                          /\ UNCHANGED staticVal

(***************************************************************************)
(* The fast path of every entrypoint, one step (ScopedAssertNoThread-      *)
(* Suspension): a hit, and for an instance call a non-null obj, accesses   *)
(* the field at once; anything else takes the slow path.                   *)
(***************************************************************************)
FastPath ==
  /\ pc = "fast"
  /\ UNCHANGED <<status, resolved, typeResolved, addr, call, exc>>
  /\ IF FindFieldFast(call) /\ (call.static \/ call.obj # Null)
       THEN PerformAccess(call) /\ pc' = "done"
       ELSE pc' = "slow" /\ UNCHANGED <<ret, staticVal, heap, lastAccess>>

(***************************************************************************)
(* FindFieldFromCode (entrypoint_utils-inl.h, not under src/): resolve the *)
(* field, which may not exist; IncompatibleClassChangeError on a           *)
(* staticness mismatch; IllegalAccessError when an access check fails; for *)
(* a static, make sure the class is initialised: run <clinit> here when    *)
(* nobody has (ExceptionInInitializerError if it throws, leaving the class *)
(* erroneous), wait while another thread runs it, NoClassDefFoundError for *)
(* an erroneous class.  The set of its possible outcomes: the exception    *)
(* ("None" when it returns the field) and the class status it leaves.      *)
(***************************************************************************)
FindFieldFromCode(c) ==
  LET f == c.field IN
  (IF resolved[f] THEN {} ELSE {[e |-> "NoSuchFieldError", st |-> status]})
  \cup
  IF (f \in StaticFields) # c.static
    THEN {[e |-> "IncompatibleClassChangeError", st |-> status]}
  ELSE IF <<c.referrer, f>> \notin Accessible
          \/ (c.op = "set" /\ ~CanBeChangedBy(f, c.referrer))
    THEN {[e |-> "IllegalAccessError", st |-> status]}
  ELSE IF ~c.static \/ status \in {"Initialized", "VisiblyInitialized"}
    THEN {[e |-> "None", st |-> status]}
  ELSE IF status = "Erroneous"
    THEN {[e |-> "NoClassDefFoundError", st |-> status]}
  ELSE IF status = "Uninitialized"
    THEN {[e |-> "None", st |-> "Initialized"],
          [e |-> "ExceptionInInitializerError", st |-> "Erroneous"]}
  ELSE {}  \* "Initializing" on another thread: blocked until it is done

(* Mutant: FindInstanceField without the h == nullptr check.               *)
FindInstanceFieldNoNullCheck(c, e) == e

(***************************************************************************)
(* FindInstanceField: after FindFieldFromCode found the field, a null      *)
(* object throws NullPointerException and no field is returned.            *)
(***************************************************************************)
FindInstanceField(c, e) ==
  IF e = "None" /\ c.obj = Null THEN "NullPointerException" ELSE e

(* Mutant: FindInstanceField keeping obj as a raw pointer.                 *)
HandleWrapsObjNone(c) == FALSE

(* FindInstanceField wraps obj in a HandleWrapper across FindFieldFromCode. *)
HandleWrapsObj(c) == ~c.static

(* The Obj setters wrap new_value in a HandleWrapper across the slow path. *)
HandleWrapsVal(c) == c.op = "set" /\ c.field \in ObjectFields

(* Mutant: every entrypoint failing with -1, getters included.            *)
FailureReturnMinusOne(c) == -1

(* What an entrypoint returns when the slow path found no field: a getter  *)
(* 0 (null for Obj), a setter -1.                                          *)
FailureReturn(c) == IF c.op = "get" THEN ZeroOf(c.field) ELSE -1

(***************************************************************************)
(* The slow path, after whatever ran while the mutator was suspended in    *)
(* FindFieldFromCode: the field found (and, for an instance call, a        *)
(* non-null object) is accessed; otherwise a getter returns 0 and a setter *)
(* -1 with the exception pending.                                          *)
(***************************************************************************)
SlowPath ==
  /\ pc = "slow"
  /\ \E out \in FindFieldFromCode(call) :
       LET e == IF call.static THEN out.e ELSE FindInstanceField(call, out.e)
       IN  /\ status' = out.st
           /\ resolved' = [resolved EXCEPT ![call.field] =
                             @ \/ out.e # "NoSuchFieldError"]
           /\ typeResolved' = [typeResolved EXCEPT ![call.field] =
                                 @ \/ (out.e = "None" /\ call.shouldResolveType)]
           /\ exc' = e
           /\ IF e = "None"
                THEN PerformAccess(call)
                ELSE /\ ret' = FailureReturn(call)
                     /\ UNCHANGED <<staticVal, heap, lastAccess>>
  /\ pc' = "done"
  /\ UNCHANGED <<addr, call>>

(* Back in compiled code, which delivers any pending exception.            *)
Return ==
  /\ pc = "done"
  /\ pc' = "idle"
  /\ call' = NoCall
  /\ ret' = 0
  /\ exc' = "None"
  /\ UNCHANGED <<status, resolved, typeResolved, addr, staticVal, heap,
                 lastAccess>>

-----------------------------------------------------------------------------
(***************************************************************************)
(* The moving GC runs while the mutator is suspended: between calls or in  *)
(* FindFieldFromCode.  It fixes heap references itself and the locals     *)
(* held in handles; a raw local keeps the old address.                     *)
(***************************************************************************)
GcMove ==
  /\ pc \in {"idle", "slow"}
  /\ \E o \in Objects, a \in Addrs \ {addr[x] : x \in Objects} :
       LET newAddr == [addr EXCEPT ![o] = a]
           Moved(x, p) == IF x = o THEN newAddr[o] ELSE p
       IN  /\ addr' = newAddr
           /\ call' = [call EXCEPT
                         !.ptr = IF HandleWrapsObj(call) THEN Moved(call.obj, @) ELSE @,
                         !.valPtr = IF HandleWrapsVal(call) THEN Moved(call.val, @) ELSE @]
  /\ UNCHANGED <<status, resolved, typeResolved, staticVal, heap, pc, ret, exc,
                 lastAccess>>

(* Another thread starts initialising the class (ClassLinker::             *)
(* InitializeClass); callers of FindFieldFromCode then wait.               *)
OtherThreadStartsInit ==
  /\ status = "Uninitialized"
  /\ status' = "Initializing"
  /\ UNCHANGED <<resolved, typeResolved, addr, staticVal, heap, call, pc, ret,
                 exc, lastAccess>>

(* Its <clinit> returns or throws.                                         *)
OtherThreadEndsInit ==
  /\ status = "Initializing"
  /\ status' \in {"Initialized", "Erroneous"}
  /\ UNCHANGED <<resolved, typeResolved, addr, staticVal, heap, call, pc, ret,
                 exc, lastAccess>>

(* The class linker marks an initialised class visibly initialised once    *)
(* every thread has passed a checkpoint.                                   *)
MakeVisiblyInitialized ==
  /\ status = "Initialized"
  /\ status' = "VisiblyInitialized"
  /\ UNCHANGED <<resolved, typeResolved, addr, staticVal, heap, call, pc, ret,
                 exc, lastAccess>>

(* Another thread resolves a field, and its type, into the dex cache.      *)
OtherThreadResolves ==
  /\ \E f \in Fields :
       /\ ~resolved[f] \/ ~typeResolved[f]
       /\ resolved' = [resolved EXCEPT ![f] = TRUE]
       /\ typeResolved' = [typeResolved EXCEPT ![f] = TRUE]
  /\ UNCHANGED <<status, addr, staticVal, heap, call, pc, ret, exc, lastAccess>>

Mutator == Call \/ FastPath \/ SlowPath \/ Return

Next ==
  \/ Mutator
  \/ GcMove
  \/ OtherThreadStartsInit \/ OtherThreadEndsInit \/ MakeVisiblyInitialized
  \/ OtherThreadResolves

Spec == Init /\ [][Next]_vars

-----------------------------------------------------------------------------
TypeOK ==
  /\ status \in Statuses
  /\ resolved \in [Fields -> BOOLEAN] /\ typeResolved \in [Fields -> BOOLEAN]
  /\ addr \in [Objects -> Addrs]
  /\ staticVal \in [StaticFields -> UNION {ValuesOf(f) : f \in Fields}]
  /\ heap \in [Objects -> [InstanceFields -> UNION {ValuesOf(f) : f \in Fields}]]
  /\ pc \in {"idle", "fast", "slow", "done"}
  /\ exc \in Exceptions
  /\ pc = "done" /\ call.op = "get" => ret \in ValuesOf(call.field)
  /\ pc = "done" /\ call.op = "set" => ret \in {0, -1}

(***************************************************************************)
(* Every field access goes through the object's current address: a moving *)
(* GC while FindFieldFromCode is suspended must not leave the entrypoint   *)
(* holding the old address of the receiver or of the reference it stores. *)
(***************************************************************************)
AccessThroughCurrentAddress ==
  ~lastAccess.none => lastAccess.pointersValid

(***************************************************************************)
(* A static field is read or written only once its class is initialised:  *)
(* the fast path must not overtake a <clinit> running on another thread.   *)
(***************************************************************************)
StaticAccessOnInitializedClass ==
  ~lastAccess.none /\ lastAccess.field \in StaticFields
    => lastAccess.status \in {"Initialized", "VisiblyInitialized"}

(***************************************************************************)
(* A final field is written only by code of its own class, whichever path  *)
(* (fast or slow) the setter takes.                                        *)
(***************************************************************************)
FinalWrittenOnlyByOwnClass ==
  ~lastAccess.none /\ lastAccess.write /\ lastAccess.field \in FinalFields
    => lastAccess.referrer \in OwnReferrers

(***************************************************************************)
(* A non-null reference is stored into a field only once the field's type  *)
(* is resolved: the Obj setters pass should_resolve_type for a non-null    *)
(* new_value, so a dex-cache hit with an unresolved type leaves the fast   *)
(* path and FindFieldFromCode resolves the type before the store.  A null  *)
(* store needs no type and may go ahead without it.                        *)
(***************************************************************************)
StoredReferenceTypeResolved ==
  ~lastAccess.none /\ lastAccess.write /\ lastAccess.field \in ObjectFields
    /\ lastAccess.val # Null
    => lastAccess.typeResolved

(***************************************************************************)
(* When a call returns, an instance call on null has raised an exception   *)
(* and made no access, and a setter returns -1 exactly when an exception   *)
(* is pending, the contract compiled code relies on.                       *)
(***************************************************************************)
ReturnMatchesException ==
  pc = "done" =>
    /\ ~call.static /\ call.obj = Null => exc # "None" /\ lastAccess.none
    /\ call.op = "set" => (ret = -1 <=> exc # "None")

=============================================================================
