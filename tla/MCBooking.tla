------------------------------- MODULE MCBooking -------------------------------
(* The life of one booking for TLC; a run selects the operations.           *)
EXTENDS Booking, TLC

Symmetry == Permutations(Requests)
===============================================================================
