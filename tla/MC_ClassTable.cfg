CONSTANTS
  T1 = T1
  K1 = K1
  C2 = C2
  I1 = I1
  L1 = L1
  L2 = L2
  DC1 = DC1
  DC2 = DC2
  O1 = O1
  F1 = F1
  F2 = F2
  NoOatFile = NoOatFile
  NoClass = NoClass
  Classes <- MCClasses
  TempClasses <- MCTempClasses
  Descriptor <- MCDescriptor
  DefiningLoader <- MCDefiningLoader
  ImageSets <- MCImageSets
  DexCaches <- MCDexCaches
  OtherObjects <- MCOtherObjects
  OatFiles <- MCOatFiles
  OatFileOf <- MCOatFileOf
  BssGcRootFiles <- MCBssGcRootFiles
  MaxSets <- MCMaxSets

SPECIFICATION Spec

INVARIANT TypeOK
INVARIANT ActiveSetIsNewest
INVARIANT NoRetiredClassVisible
INVARIANT HeldClassHasReplacement
INVARIANT UpdateClassNeverAborts
INVARIANT ZygoteCountsPartition
INVARIANT BssRootsRegistered
PROPERTY FrozenSetsUnchanged
PROPERTY ImplementsClassTableSpec
