------------------------------- MODULE MCBackend -------------------------------
(* Payments and the life of one booking together, for TLC.                  *)
EXTENDS Backend, TLC
===============================================================================
