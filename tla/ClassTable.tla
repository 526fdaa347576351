------------------------------ MODULE ClassTable ------------------------------
(***************************************************************************)
(* ClassTable (runtime/class_table.cc): the classes a class loader has     *)
(* defined, kept as a vector of hash sets.  Every set but the last is      *)
(* frozen: FreezeSnapshot (at the zygote fork) appends a fresh set, and    *)
(* AddClassSet (image loading) inserts a read-only set just before the     *)
(* last one.  The table also keeps the strong GC roots of the loader and   *)
(* the oat files whose .bss GC roots must be visited.                      *)
(*                                                                         *)
(* Every operation holds lock_ (a reader-writer mutex) for its whole body, *)
(* so each is one atomic step here, whichever thread runs it; the queries  *)
(* that take the lock as a reader change nothing and are operators.       *)
(*                                                                         *)
(* Class objects are model values with a descriptor, a defining loader and *)
(* whether they are temporary classes (replaced by UpdateClass once        *)
(* linked); the descriptor hash is left out, FindWithHash compares         *)
(* descriptors.                                                            *)
(***************************************************************************)
EXTENDS Naturals, Sequences, FiniteSets, Functions, TLC

CONSTANTS
  Classes,        \* class objects
  TempClasses,    \* the temporary ones among them
  Descriptor,     \* Classes -> descriptors
  DefiningLoader, \* Classes -> class loaders
  ImageSets,      \* sets of classes an image can bring (ReadFromMemory)
  DexCaches,      \* objects that are dex caches
  OtherObjects,   \* other objects made strong roots
  OatFiles,       \* oat files
  OatFileOf,      \* DexCaches -> OatFiles \cup {NoOatFile}
  BssGcRootFiles, \* the oat files whose GetBssGcRoots() is not empty
  NoOatFile,      \* model value: a dex cache without an oat file
  NoClass,        \* model value: a lookup found nothing (nullptr)
  MaxSets         \* bound on the number of class sets

ASSUME TempClasses \subseteq Classes
ASSUME \A s \in ImageSets : s \subseteq Classes \ TempClasses
ASSUME BssGcRootFiles \subseteq OatFiles
ASSUME MaxSets \in Nat \ {0}

Objects == DexCaches \cup OtherObjects

VARIABLES
  classes,      \* classes_: sequence of [id, origin, slots]
  strongRoots,  \* strong_roots_: sequence of objects
  oatFiles,     \* oat_files_: sequence of oat files
  retired,      \* history: temporary classes replaced by UpdateClass
  aborted,      \* a LOG(FATAL) or CHECK failure ended the process
  held          \* classes callers got from Lookup, kept after the unlock

vars == <<classes, strongRoots, oatFiles, retired, aborted, held>>

RangeOf(s) == {s[i] : i \in DOMAIN s}
Last(s) == s[Len(s)]

InTable == UNION {classes[i].slots : i \in DOMAIN classes}

(* A new class set; origins: "ctor", "freeze", "image".                    *)
NewSet(origin, slots) ==
  [id |-> Len(classes) + 1, origin |-> origin, slots |-> slots]

(* Mutant: the constructor leaves classes_ empty.                          *)
InitNoSet ==
  /\ classes = <<>>
  /\ strongRoots = <<>>
  /\ oatFiles = <<>>
  /\ retired = {}
  /\ aborted = FALSE
  /\ held = {}

(* ClassTable::ClassTable: one empty, unfrozen set.                        *)
Init ==
  /\ classes = <<[id |-> 1, origin |-> "ctor", slots |-> {}]>>
  /\ strongRoots = <<>>
  /\ oatFiles = <<>>
  /\ retired = {}
  /\ aborted = FALSE
  /\ held = {}

(***************************************************************************)
(* ClassTable::FreezeSnapshot: append a new empty set; the old last set is *)
(* frozen.  It is called before the zygote forks, while only one thread    *)
(* runs and no class is being linked: no temporary class is in the table.  *)
(***************************************************************************)
FreezeSnapshot ==
  /\ ~aborted
  /\ Len(classes) < MaxSets
  /\ InTable \cap TempClasses = {}
  /\ classes' = Append(classes, NewSet("freeze", {}))
  /\ UNCHANGED <<strongRoots, oatFiles, retired, aborted>>

(* Mutant: classes_.front() written instead of classes_.back().            *)
InsertWithHashFront(klass) ==
  /\ ~aborted
  /\ klass \notin InTable \cup retired
  /\ \A c \in InTable : Descriptor[c] # Descriptor[klass]
  /\ classes' = [classes EXCEPT ![1].slots = @ \cup {klass}]
  /\ UNCHANGED <<strongRoots, oatFiles, retired, aborted>>

(***************************************************************************)
(* ClassTable::InsertWithHash: add the class to the last set.  The class   *)
(* linker inserts a class object once, after a lookup of its descriptor    *)
(* found nothing.                                                          *)
(***************************************************************************)
InsertWithHash(klass) ==
  /\ ~aborted
  /\ klass \notin InTable \cup retired
  /\ \A c \in InTable : Descriptor[c] # Descriptor[klass]
  /\ classes' = [classes EXCEPT ![Len(classes)].slots = @ \cup {klass}]
  /\ UNCHANGED <<strongRoots, oatFiles, retired, aborted>>

(***************************************************************************)
(* ClassTable::UpdateClass: replace the temporary class that has klass's   *)
(* descriptor by klass, in the last set only.  Not found there is fatal    *)
(* (found in a frozen set or not at all), and so are the CHECKs on the     *)
(* existing class (not klass, not resolved: a temporary class never is)    *)
(* and on klass (not temporary).  The caller is the class linker, which    *)
(* inserted the temporary class and now passes a new, non-temporary one.  *)
(***************************************************************************)
FindInLast(klass) ==
  {c \in Last(classes).slots : Descriptor[c] = Descriptor[klass]}

(* Mutant: the old slot erased and the new class not put in its place.    *)
UpdateClassDropsNew(klass) ==
  /\ ~aborted
  /\ klass \in Classes \ (TempClasses \cup InTable \cup retired)
  /\ \E t \in InTable \cap TempClasses : Descriptor[t] = Descriptor[klass]
  /\ IF FindInLast(klass) = {}
       THEN aborted' = TRUE /\ UNCHANGED <<classes, retired>>
       ELSE \E existing \in FindInLast(klass) :
              IF existing = klass \/ existing \notin TempClasses \/ klass \in TempClasses
                THEN aborted' = TRUE /\ UNCHANGED <<classes, retired>>
                ELSE /\ classes' = [classes EXCEPT ![Len(classes)].slots = @ \ {existing}]
                     /\ retired' = retired \cup {existing}
                     /\ UNCHANGED aborted
  /\ UNCHANGED <<strongRoots, oatFiles>>

(* Mutant: the new slot inserted beside the old one, not over it.          *)
UpdateClassKeepsOld(klass) ==
  /\ ~aborted
  /\ klass \in Classes \ (TempClasses \cup InTable \cup retired)
  /\ \E t \in InTable \cap TempClasses : Descriptor[t] = Descriptor[klass]
  /\ IF FindInLast(klass) = {}
       THEN aborted' = TRUE /\ UNCHANGED <<classes, retired>>
       ELSE \E existing \in FindInLast(klass) :
              IF existing = klass \/ existing \notin TempClasses \/ klass \in TempClasses
                THEN aborted' = TRUE /\ UNCHANGED <<classes, retired>>
                ELSE /\ classes' = [classes EXCEPT ![Len(classes)].slots = @ \cup {klass}]
                     /\ retired' = retired \cup {existing}
                     /\ UNCHANGED aborted
  /\ UNCHANGED <<strongRoots, oatFiles>>

UpdateClass(klass) ==
  /\ ~aborted
  /\ klass \in Classes \ (TempClasses \cup InTable \cup retired)
  /\ \E t \in InTable \cap TempClasses : Descriptor[t] = Descriptor[klass]
  /\ IF FindInLast(klass) = {}
       THEN aborted' = TRUE /\ UNCHANGED <<classes, retired>>
       ELSE \E existing \in FindInLast(klass) :
              IF existing = klass \/ existing \notin TempClasses \/ klass \in TempClasses
                THEN aborted' = TRUE /\ UNCHANGED <<classes, retired>>
                ELSE /\ classes' = [classes EXCEPT ![Len(classes)].slots =
                                      (@ \ {existing}) \cup {klass}]
                     /\ retired' = retired \cup {existing}
                     /\ UNCHANGED aborted
  /\ UNCHANGED <<strongRoots, oatFiles>>

(* Mutant: the image set appended after the unfrozen set.                  *)
AddClassSetAppend(set) ==
  /\ ~aborted
  /\ Len(classes) < MaxSets
  /\ set \cap (InTable \cup retired) = {}
  /\ classes' = Append(classes, NewSet("image", set))
  /\ UNCHANGED <<strongRoots, oatFiles, retired, aborted>>

(***************************************************************************)
(* ClassTable::ReadFromMemory / AddClassSet: an image's class set goes     *)
(* just before the last set, so that new classes still go to the last set *)
(* and the frozen sets keep their order.                                   *)
(***************************************************************************)
AddClassSet(set) ==
  /\ ~aborted
  /\ Len(classes) < MaxSets
  /\ set \cap (InTable \cup retired) = {}
  /\ classes' = SubSeq(classes, 1, Len(classes) - 1)
                  \o <<NewSet("image", set), Last(classes)>>
  /\ UNCHANGED <<strongRoots, oatFiles, retired, aborted>>

(* ClassTable::InsertOatFileLocked: append unless already present.         *)
InsertOatFileLocked(oatFile) ==
  IF oatFile \in RangeOf(oatFiles)
    THEN oatFiles
    ELSE Append(oatFiles, oatFile)

(* ClassTable::InsertOatFile.                                              *)
InsertOatFile(oatFile) ==
  /\ ~aborted
  /\ oatFiles' = InsertOatFileLocked(oatFile)
  /\ UNCHANGED <<classes, strongRoots, retired, aborted>>

(***************************************************************************)
(* ClassTable::InsertStrongRoot: nothing if obj is already a root;         *)
(* otherwise append it, and if it is a dex cache whose oat file has .bss   *)
(* GC roots, register that oat file too.                                   *)
(***************************************************************************)
InsertStrongRoot(obj) ==
  /\ ~aborted
  /\ IF obj \in RangeOf(strongRoots)
       THEN UNCHANGED <<strongRoots, oatFiles>>
       ELSE /\ strongRoots' = Append(strongRoots, obj)
            /\ oatFiles' =
                 IF obj \in DexCaches /\ OatFileOf[obj] \in BssGcRootFiles
                   THEN InsertOatFileLocked(OatFileOf[obj])
                   ELSE oatFiles
  /\ UNCHANGED <<classes, retired, aborted>>

(* Mutant: oat_files_ cleared but strong_roots_ kept.                      *)
ClearStrongRootsKeepRoots ==
  /\ ~aborted
  /\ oatFiles' = <<>>
  /\ UNCHANGED <<classes, strongRoots, retired, aborted>>

(* ClassTable::ClearStrongRoots.                                           *)
ClearStrongRoots ==
  /\ ~aborted
  /\ oatFiles' = <<>>
  /\ strongRoots' = <<>>
  /\ UNCHANGED <<classes, retired, aborted>>

(***************************************************************************)
(* ClassTable::Lookup: under lock_ as a reader, search the sets from the   *)
(* last back and return the first class with the descriptor; the caller    *)
(* keeps it after the lock is released.  Finding none returns nullptr and  *)
(* changes nothing.                                                        *)
(***************************************************************************)
LookupCandidates(descriptor) ==
  LET has(i) == \E c \in classes[i].slots : Descriptor[c] = descriptor
      hits == {i \in DOMAIN classes : has(i)}
  IN  IF hits = {} THEN {}
      ELSE LET newest == CHOOSE i \in hits : \A j \in hits : j <= i
           IN  {c \in classes[newest].slots : Descriptor[c] = descriptor}

Lookup(descriptor) ==
  /\ ~aborted
  /\ \E c \in LookupCandidates(descriptor) : held' = held \cup {c}
  /\ UNCHANGED <<classes, strongRoots, oatFiles, retired, aborted>>

(* The operations that hold lock_ as a writer.                              *)
TableStep ==
  \/ FreezeSnapshot
  \/ \E k \in Classes : InsertWithHash(k)
  \/ \E k \in Classes : UpdateClass(k)
  \/ \E s \in ImageSets : AddClassSet(s)
  \/ \E f \in OatFiles : InsertOatFile(f)
  \/ \E o \in Objects : InsertStrongRoot(o)
  \/ ClearStrongRoots

Next ==
  \/ TableStep /\ UNCHANGED held
  \/ \E c \in Classes : Lookup(Descriptor[c])

Spec == Init /\ [][Next]_vars

-----------------------------------------------------------------------------
(***************************************************************************)
(* The queries, which hold lock_ as readers.                               *)
(***************************************************************************)

(* ClassTable::CountDefiningLoaderClasses.                                 *)
CountDefiningLoaderClasses(loader, set) ==
  Cardinality({c \in set.slots : DefiningLoader[c] = loader})

(* Mutant: the loop runs over every set, the last one included.            *)
NumZygoteClassesAllSets(loader) ==
  SumFunctionOnSet([i \in DOMAIN classes |->
                      CountDefiningLoaderClasses(loader, classes[i])],
                   DOMAIN classes)

(* ClassTable::NumZygoteClasses: every set but the last.                   *)
NumZygoteClasses(loader) ==
  SumFunctionOnSet([i \in DOMAIN classes |->
                      CountDefiningLoaderClasses(loader, classes[i])],
                   1 .. Len(classes) - 1)

(* ClassTable::NumNonZygoteClasses: the last set.                          *)
NumNonZygoteClasses(loader) ==
  CountDefiningLoaderClasses(loader, Last(classes))

(* ClassTable::NumReferencedZygoteClasses.                                 *)
NumReferencedZygoteClasses ==
  SumFunctionOnSet([i \in DOMAIN classes |-> Cardinality(classes[i].slots)],
                   1 .. Len(classes) - 1)

(* ClassTable::NumReferencedNonZygoteClasses.                              *)
NumReferencedNonZygoteClasses == Cardinality(Last(classes).slots)

-----------------------------------------------------------------------------
TypeOK ==
  /\ classes \in Seq([id : Nat, origin : {"ctor", "freeze", "image"},
                      slots : SUBSET Classes])
  /\ Len(classes) >= 1
  /\ strongRoots \in Seq(Objects)
  /\ oatFiles \in Seq(OatFiles)
  /\ retired \subseteq TempClasses
  /\ aborted \in BOOLEAN
  /\ held \subseteq Classes

-----------------------------------------------------------------------------
(***************************************************************************)
(* New classes always go to the newest set that the constructor or         *)
(* FreezeSnapshot created: the last set of classes_ is never an image set  *)
(* and no set created by FreezeSnapshot is newer.  This is what            *)
(* AddClassSet's insert before the last set, rather than an append,        *)
(* keeps true across image loading.                                        *)
(***************************************************************************)
ActiveSetIsNewest ==
  /\ Last(classes).origin # "image"
  /\ \A i \in DOMAIN classes :
       classes[i].origin # "image" => classes[i].id <= Last(classes).id

(***************************************************************************)
(* A frozen or image set never changes: across every step each set but the *)
(* last keeps its classes, wherever AddClassSet moved it.  Insert and      *)
(* UpdateClass write classes_.back() only.                                 *)
(***************************************************************************)
FrozenSetsUnchanged ==
  [][\A i \in 1 .. Len(classes) - 1 :
       \E j \in DOMAIN classes' :
         classes'[j].id = classes[i].id /\ classes'[j].slots = classes[i].slots
    ]_classes

(***************************************************************************)
(* Once UpdateClass has replaced a temporary class, Lookup of its          *)
(* descriptor can never return it again: the slot is overwritten in place, *)
(* not added beside the old one.                                           *)
(***************************************************************************)
NoRetiredClassVisible ==
  \A t \in retired : t \notin LookupCandidates(Descriptor[t])

(***************************************************************************)
(* A class pointer Lookup returned is still good after lock_ is released:  *)
(* if UpdateClass has since retired that temporary class, a new Lookup of  *)
(* its descriptor finds exactly one class, the non-temporary one written   *)
(* over its slot, so the class linker can always move its caller on to the *)
(* linked class.                                                           *)
(***************************************************************************)
HeldClassHasReplacement ==
  \A t \in held \cap retired :
    \E k \in Classes \ TempClasses : LookupCandidates(Descriptor[t]) = {k}

(***************************************************************************)
(* UpdateClass never reaches its LOG(FATAL)s or CHECKs for the calls the   *)
(* class linker makes: the temporary class it replaces is still in the     *)
(* last set, even after images were added, because snapshots are only      *)
(* frozen with no class being linked.                                      *)
(***************************************************************************)
UpdateClassNeverAborts == ~aborted

(***************************************************************************)
(* The zygote and non-zygote counts split the table: for every loader,     *)
(* NumZygoteClasses + NumNonZygoteClasses counts each of its classes once, *)
(* and NumReferencedZygoteClasses + NumReferencedNonZygoteClasses counts   *)
(* every class once (the loops stop before the last set).                  *)
(***************************************************************************)
ZygoteCountsPartition ==
  /\ \A l \in {DefiningLoader[c] : c \in Classes} :
       NumZygoteClasses(l) + NumNonZygoteClasses(l)
         = Cardinality({c \in InTable : DefiningLoader[c] = l})
  /\ NumReferencedZygoteClasses + NumReferencedNonZygoteClasses
       = Cardinality(InTable)

(***************************************************************************)
(* The .bss GC roots of every dex cache held as a strong root are visited: *)
(* its oat file, if it has such roots, is in oat_files_, whatever order    *)
(* InsertStrongRoot, InsertOatFile and ClearStrongRoots ran in.            *)
(***************************************************************************)
BssRootsRegistered ==
  \A o \in RangeOf(strongRoots) :
    (o \in DexCaches /\ OatFileOf[o] \in BssGcRootFiles)
      => OatFileOf[o] \in RangeOf(oatFiles)

-----------------------------------------------------------------------------
(***************************************************************************)
(* Refinement: seen through Lookup, the table is the descriptor map of     *)
(* ClassTableSpec.  Every step, image loading and UpdateClass included,    *)
(* either gives a descriptor without a class its first class, replaces a   *)
(* temporary class by its linked class, hands a caller the class a lookup  *)
(* returns, or changes nothing a lookup can see; no class ever disappears  *)
(* or is shadowed by another.  Once UpdateClass has aborted the process    *)
(* nothing more happens.                                                   *)
(***************************************************************************)
Abstract == INSTANCE ClassTableSpec WITH
  visible <- [d \in {Descriptor[c] : c \in Classes} |->
                IF LookupCandidates(d) = {} THEN NoClass
                ELSE CHOOSE c \in LookupCandidates(d) : TRUE]

ImplementsClassTableSpec == Abstract!Spec
=============================================================================
