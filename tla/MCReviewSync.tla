------------------------------ MODULE MCReviewSync ------------------------------
(* Two reviews, of which a cron job takes one, for TLC.                     *)
EXTENDS ReviewSync
===============================================================================
