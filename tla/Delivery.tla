-------------------------------- MODULE Delivery --------------------------------
(***************************************************************************)
(* What the review synchronisation promises: an item is due once it was    *)
(* stored, it is delivered at least once and never before it is due, and   *)
(* only what was delivered is ticked off, for good.                        *)
(***************************************************************************)
CONSTANTS Services, Reviews

VARIABLES due, delivered, ticked

Init == due = {} /\ delivered = {} /\ ticked = {}

Fall(b) ==
  /\ due' = due \cup (Services \X {b})
  /\ UNCHANGED <<delivered, ticked>>

Hand(i) ==
  /\ i \in due
  /\ delivered' = delivered \cup {i}
  /\ UNCHANGED <<due, ticked>>

Tick(i) ==
  /\ i \in delivered
  /\ ticked' = ticked \cup {i}
  /\ UNCHANGED <<due, delivered>>

Next == \/ \E b \in Reviews : Fall(b)
        \/ \E i \in Services \X Reviews : Hand(i) \/ Tick(i)

Spec == Init /\ [][Next]_<<due, delivered, ticked>>
===============================================================================
