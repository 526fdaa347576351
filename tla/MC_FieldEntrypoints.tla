------------------------- MODULE MC_FieldEntrypoints -------------------------
(***************************************************************************)
(* One class with a final static int FS, a private instance int FI and an  *)
(* instance reference field FO; a referrer R1 of that class and R2 of      *)
(* another class, which may not see FI; one object that the GC can move   *)
(* between two addresses.                                                  *)
(***************************************************************************)
EXTENDS FieldEntrypoints

CONSTANTS FS, FI, FO, R1, R2, O1

MCFields == {FS, FI, FO}
MCStaticFields == {FS}
MCObjectFields == {FO}
MCFinalFields == {FS}
MCReferrers == {R1, R2}
MCOwnReferrers == {R1}
MCAccessible == ({R1} \X MCFields) \cup {<<R2, FS>>, <<R2, FO>>}
MCObjects == {O1}
MCAddrs == {1, 2}

=============================================================================
