\* The skeletons of MC_Dominators.tla; Undefined is a model value.
CONSTANTS
  Blocks = {0, 1, 2, 3}
  Entry = 0
  EntryPreds = {1}
  Undefined = Undefined
SPECIFICATION Spec

INVARIANT IdomMatchesPathDefinition
INVARIANT FixpointWithinBlockPasses
CHECK_DEADLOCK FALSE
