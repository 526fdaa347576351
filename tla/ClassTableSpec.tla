---------------------------- MODULE ClassTableSpec ----------------------------
(***************************************************************************)
(* What a class loader's ClassTable promises its callers, with the sets,   *)
(* the snapshots and the roots left out: a map from each descriptor to the *)
(* class a lookup returns, or none.  A descriptor without a class gets one *)
(* (Insert, or an image's classes), a temporary class is replaced by a     *)
(* non-temporary class of the same descriptor (UpdateClass), and nothing   *)
(* else ever changes what a descriptor maps to.  held is the set of        *)
(* classes callers obtained by lookups.                                    *)
(***************************************************************************)
CONSTANTS Classes, TempClasses, Descriptor, ImageSets, NoClass

VARIABLES visible, held

Descriptors == {Descriptor[c] : c \in Classes}

Init ==
  /\ visible = [d \in Descriptors |-> NoClass]
  /\ held = {}

(* A class defined for a descriptor that had none.                         *)
Define(c) ==
  /\ visible[Descriptor[c]] = NoClass
  /\ visible' = [visible EXCEPT ![Descriptor[c]] = c]
  /\ UNCHANGED held

(* An image's classes, each for a descriptor that had none.                *)
DefineImage(set) ==
  /\ \A c \in set : visible[Descriptor[c]] = NoClass
  /\ visible' = [d \in Descriptors |->
                   IF \E c \in set : Descriptor[c] = d
                     THEN CHOOSE c \in set : Descriptor[c] = d
                     ELSE visible[d]]
  /\ UNCHANGED held

(* A temporary class replaced by the linked class of its descriptor.       *)
Replace(k) ==
  /\ k \notin TempClasses
  /\ visible[Descriptor[k]] \in TempClasses
  /\ visible' = [visible EXCEPT ![Descriptor[k]] = k]
  /\ UNCHANGED held

(* A lookup that finds a class; its caller keeps it.                       *)
Look(d) ==
  /\ visible[d] # NoClass
  /\ held' = held \cup {visible[d]}
  /\ UNCHANGED visible

Next ==
  \/ \E c \in Classes : Define(c)
  \/ \E s \in ImageSets : DefineImage(s)
  \/ \E k \in Classes : Replace(k)
  \/ \E d \in Descriptors : Look(d)

(* Most steps of a class table change nothing a lookup sees; the          *)
(* stuttering disjunct, which [Next]_v allows anyway, is stated first.     *)
Spec == Init /\ [][UNCHANGED <<visible, held>> \/ Next]_<<visible, held>>
=============================================================================
