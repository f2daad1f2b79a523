CONSTANTS
  b1 = b1
  r1 = r1
  o1 = o1
  p1 = p1
  p2 = p2
  k1 = k1
  k2 = k2
  None = None
  Bookings = {b1}
  Amounts = {1, 2}
  Lifecycle = {"pending", "accepted", "declined", "counter_proposed", "payment_pending", "cancelled", "in_progress", "completed", "disputed", "refunded", "expired"}
  Orders = {o1}
  Payments = {p1, p2}
  Calls = {k1, k2}
  Endpoints = {"createOrder", "verify", "webhook"}
  Requests = {r1}
  Ops = {"callback", "cancel", "modify", "checkIn", "pay"}
  Incoming = {"accepted", "cancelled"}
SPECIFICATION FairSpec
INVARIANTS BuyerHasPass OnlyCapturedMoney ConfirmedAnswersArePaid
PROPERTIES RefinesBoth CaptureNeverReopens CapturedIsRecorded
