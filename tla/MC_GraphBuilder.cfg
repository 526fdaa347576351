CONSTANTS
  FailIrreducibleLoop = FailIrreducibleLoop
  FailAmbiguousArrayOp = FailAmbiguousArrayOp
  FailPhiEquivalentInOsr = FailPhiEquivalentInOsr
  NoResult = NoResult
  HugeMethodThreshold <- MCHugeMethodThreshold
  CodeUnits <- MCCodeUnits
  Filters <- MCFilters
  DominatorFailures <- MCDominatorFailures
  SsaFailures <- MCSsaFailures
  MaxArgs <- MCMaxArgs

SPECIFICATION Spec

INVARIANT TypeOK
PROPERTY ImplementsGraphBuilderSpec
