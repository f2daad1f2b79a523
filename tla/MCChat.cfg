CONSTANTS
  m1 = m1
  m2 = m2
  m3 = m3
  r1 = r1
  r2 = r2
  s1 = s1
  s2 = s2
  None = None
  Texts = {m1, m2, m3}
  Tagged = {m1}
  Author <- MCAuthor
  Requests = {r1, r2}
  Sockets = {s1, s2}
  MaxMessages = 2
  MaxGhosts = 1
SPECIFICATION Spec
SYMMETRY Symmetry
INVARIANTS TypeOK UnreadIsWhatArrived OneRowPerTag PresenceIsSockets
