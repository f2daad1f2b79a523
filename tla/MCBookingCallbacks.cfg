CONSTANTS
  b1 = b1
  r1 = r1
  r2 = r2
  None = None
  Bookings = {b1}
  Amounts = {1}
  Lifecycle = {"pending", "accepted", "declined", "counter_proposed", "payment_pending", "cancelled", "in_progress", "completed", "disputed", "refunded", "expired"}
  Requests = {r1, r2}
  Ops = {"callback", "counter", "modify", "openChat", "pay", "adminReceives"}
  Incoming = {"accepted", "declined", "counter_proposed", "in_progress", "active", "completed", "cancelled", "expired"}
SPECIFICATION Spec
SYMMETRY Symmetry
INVARIANTS AdminNotAhead ShutOnlyWhenOver
PROPERTIES ClosedIsFinal SessionKeepsItsProgress
