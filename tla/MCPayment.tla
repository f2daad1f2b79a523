------------------------------- MODULE MCPayment -------------------------------
(* PaymentService for TLC: one booking, a few orders and payments.          *)
EXTENDS Payment, TLC

Symmetry ==
  Permutations(Orders) \cup Permutations(Payments) \cup Permutations(Calls)
===============================================================================
