SPECIFICATION Spec
CONSTANTS
  EventIds = {e1, e2, e3}
  Engagements = {g1}
  Callers = {c1, c2}
  MaxClock = 2
  Tampering = TRUE
SYMMETRY MCSymmetry
INVARIANT ChainLinked
PROPERTY VerifyExposesTampering
