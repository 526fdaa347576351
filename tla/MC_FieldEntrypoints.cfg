CONSTANTS
  FS = FS
  FI = FI
  FO = FO
  R1 = R1
  R2 = R2
  O1 = O1
  Null = Null
  NullPtr = NullPtr
  Fields <- MCFields
  StaticFields <- MCStaticFields
  ObjectFields <- MCObjectFields
  FinalFields <- MCFinalFields
  Referrers <- MCReferrers
  OwnReferrers <- MCOwnReferrers
  Accessible <- MCAccessible
  Objects <- MCObjects
  Addrs <- MCAddrs

SPECIFICATION Spec

INVARIANT TypeOK
INVARIANT AccessThroughCurrentAddress
INVARIANT StaticAccessOnInitializedClass
INVARIANT FinalWrittenOnlyByOwnClass
INVARIANT ReturnMatchesException
INVARIANT StoredReferenceTypeResolved
