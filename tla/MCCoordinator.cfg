\* Four requests, one slot, a line of two: the line orders two waiting
\* requests while a third is refused.
CONSTANTS
  Requests = {r1, r2, r3, r4}
  MaxConcurrent = 1
  QueueMax = 2
SPECIFICATION Spec
SYMMETRY Symmetry
INVARIANTS
  WorkBounded
  LineServed
  FateDecidedOnce
PROPERTIES
  ImplementsBoundedAdmission
