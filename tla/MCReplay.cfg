CONSTANTS
  b1 = b1
  r1 = r1
  r2 = r2
  None = None
  Bookings = {b1}
  Amounts = {1}
  Lifecycle = {"pending", "accepted", "declined", "counter_proposed", "payment_pending", "cancelled", "in_progress", "completed", "disputed", "refunded", "expired"}
  Requests = {r1, r2}
  Ops = {"callback", "checkIn"}
  Incoming = {"accepted", "in_progress"}
SPECIFICATION Spec
PROPERTY ReplaysAreHarmless
