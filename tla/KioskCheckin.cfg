SPECIFICATION Spec
CONSTANTS
  Staff = {u1, u2}
  Drains = {d1, d2}
  Requests = {r1, r2}
  MaxDay = 2
  MaxItems = 2
SYMMETRY Symmetry
INVARIANTS Inv ShownIsBacked
PROPERTY PromiseKept
