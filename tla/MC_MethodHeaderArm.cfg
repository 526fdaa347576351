CONSTANTS
  ISA = "kArm"
  CodeSizes = {2, 4, 6}
  NumMethods = 3
  CodeInfoBase = 1024
  OatBase = 4096
  NterpWithClinitCode = 65536
  NterpWithClinitSize = 8
  NterpCode = 65600
  NterpSize = 8
  JunkSizes = {0, 100000}
  Locals = {0, 4, 8}
  MaxSpills = 2
  NoLookup = NoLookup
  NoFlag = NoFlag

SPECIFICATION Spec

INVARIANT ReturnPcMapsToItsMethod
INVARIANT HeaderFromEntryPoint
INVARIANT DeoptFlagReadExactlyWhenPresent
INVARIANT DeoptFlagInsideFrame
