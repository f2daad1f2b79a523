CONSTANTS
  c1 = c1
  c2 = c2
  p1 = p1
  p2 = p2
  p3 = p3
  r1 = r1
  r2 = r2
  None = None
  Customers = {c1, c2}
  Phones = {p1, p2, p3}
  Allowlist = {p1, p2}
  Requests = {r1, r2}
  First = c1
  FirstPhone = p1
  MaxAttempts = 1
  MaxCodes = 2
  MaxLogins = 2
  MaxExchanges = 1
SPECIFICATION Spec
SYMMETRY Symmetry
INVARIANTS TypeOK CodeEntersOnce LoginHoldsOneToken GuessesBounded
