CONSTANTS
  c1 = c1
  c2 = c2
  k1 = k1
  v1 = v1
  v2 = v2
  r1 = r1
  r2 = r2
  None = None
  Customers = {c1, c2}
  Companions = {k1}
  Shown = k1
  Reviews = {v1, v2}
  Requests = {r1, r2}
  MaxFetches = 2
SPECIFICATION Spec
SYMMETRY Symmetry
INVARIANTS OwnBlocksHonoured ReviewShownOnce
