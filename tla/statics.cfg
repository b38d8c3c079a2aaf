CONSTANTS
  Sessions = {s1, s2}
  Loops = {l1, l2}
  Stranger = Stranger
SPECIFICATION StaticsSpec
INVARIANTS
  AloneIsExact
  AcceptedWasSigned
