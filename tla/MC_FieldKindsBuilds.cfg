\* Both builds, arm64 and riscv64, in one run.
SPECIFICATION Spec

INVARIANT GetterReturnsStoredValueOnEachIsa
