CONSTANTS
  b1 = b1
  r1 = r1
  r2 = r2
  None = None
  Bookings = {b1}
  Amounts = {1, 2}
  Lifecycle = {"pending", "accepted", "declined", "counter_proposed", "payment_pending", "cancelled", "in_progress", "completed", "disputed", "refunded", "expired"}
  Requests = {r1, r2}
  Ops = {"callback", "cancel", "modify", "dispute", "checkIn", "end", "pay"}
  Incoming = {"accepted", "in_progress", "cancelled"}
SPECIFICATION Spec
SYMMETRY Symmetry
INVARIANTS TypeOK AcceptedHasPass LiveIsStamped DisputeOnRecord
PROPERTIES NeverBackOnOffer SessionBornAccepted CallbacksNeverRollBack
