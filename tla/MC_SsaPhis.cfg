\* Phis are model values and interchangeable; I and J are primitive, R a
\* reference.  The finalizer returns, so deadlock is not checked.
CONSTANTS
  Phis = {p1, p2, p3}
  I = I
  J = J
  R = R
  Defs = {I, J, R}
  DefKind <- MCDefKind
  NumPreds = 2
SPECIFICATION Spec
SYMMETRY Symmetry
INVARIANT EliminationKeepsSources
INVARIANT ConflictExactlyOnMixedLivePhi
CHECK_DEADLOCK FALSE
