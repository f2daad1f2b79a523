CONSTANTS
  c1 = c1
  c2 = c2
  k1 = k1
  r1 = r1
  r2 = r2
  None = None
  Customers = {c1, c2}
  Companions = {k1}
  Starts = {12}
  Displays <- MCDisplays
  Offers = {15}
  ServerOffset = 18
  ServerShows <- MCServerShows
  Rates = {333}
  Hours = {1}
  Multipliers = {125}
  Moves <- MCMoves
  Requests = {r1, r2}
  MaxRows = 2
SPECIFICATION Spec
SYMMETRY Symmetry
INVARIANTS TypeOK StandingBookingRespected OnlyWaitingIsResent SentIsTrue TermsSound
