CONSTANTS
  b1 = b1
  o1 = o1
  o2 = o2
  p1 = p1
  p2 = p2
  k1 = k1
  k2 = k2
  None = None
  Bookings = {b1}
  Amounts = {1}
  Lifecycle = {"accepted", "cancelled"}
  Orders = {o1, o2}
  Payments = {p1, p2}
  Calls = {k1, k2}
  Endpoints = {"createOrder", "verify"}
SPECIFICATION Spec
INVARIANT ConfirmedOrderPaid
