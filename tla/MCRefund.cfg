CONSTANTS
  b1 = b1
  r1 = r1
  r2 = r2
  o1 = o1
  p1 = p1
  k1 = k1
  None = None
  Bookings = {b1}
  Amounts = {1}
  Lifecycle = {"pending", "accepted", "declined", "counter_proposed", "payment_pending", "cancelled", "in_progress", "completed", "disputed", "refunded", "expired"}
  Orders = {o1}
  Payments = {p1}
  Calls = {k1}
  Endpoints = {"createOrder", "verify"}
  Requests = {r1, r2}
  Ops = {"callback", "cancel", "pay"}
  Incoming = {"accepted"}
SPECIFICATION Spec
PROPERTY RefundKeepsBooking
