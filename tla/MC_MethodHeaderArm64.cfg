CONSTANTS
  ISA = "kArm64"
  CodeSizes = {4, 8, 12}
  NumMethods = 3
  CodeInfoBase = 1024
  OatBase = 4096
  NterpWithClinitCode = 65536
  NterpWithClinitSize = 16
  NterpCode = 65600
  NterpSize = 16
  JunkSizes = {0, 100000}
  Locals = {0, 4, 8}
  MaxSpills = 2
  NoLookup = NoLookup
  NoFlag = NoFlag

SPECIFICATION Spec

INVARIANT ReturnPcMapsToItsMethod
