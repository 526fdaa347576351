CONSTANTS
  MaxInsns = 2
  Targets = {0, 1, 2, 3, 4}
  NoTry = NoTry
  StructuralFailure = StructuralFailure
  NoResult = NoResult
  HugeMethodThreshold = 3
  CodeUnits <- MCCodeUnits
  Filters <- MCFilters
  DominatorFailures <- MCDominatorFailures
  SsaFailures = {}
  MaxArgs = 0
SPECIFICATION Spec
INVARIANT NoStructuralFailureAfterPartitioning
