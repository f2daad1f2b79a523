------------------------------ MODULE CustomerDb ------------------------------
(***************************************************************************)
(* The one table that several services of the Customer Backend write: the  *)
(* row of customer_bookings.  BookingService and SessionService move its   *)
(* status, PaymentService moves its payment status, nobody takes a lock    *)
(* that outlives one transaction.                                          *)
(*                                                                         *)
(* The two steps below are the contract between the services.  Each module *)
(* that owns one kind of step uses the other as its environment; Backend   *)
(* puts the modules together, with the handlers in the place of both.      *)
(***************************************************************************)
EXTENDS Naturals

CONSTANTS Bookings,   \* ids of the bookings of one customer
          Amounts,    \* totals a booking can have
          Lifecycle   \* statuses the rest of the backend can write

VARIABLE booking      \* booking[b]: the row of booking b

BookingStatus ==
  {"pending", "accepted", "declined", "counter_proposed", "payment_pending",
   "confirmed", "cancelled", "in_progress", "completed", "disputed",
   "refunded", "expired"}

PaymentStatus == {"pending", "completed"}

BookingRow ==
  [status : BookingStatus, paymentStatus : PaymentStatus, total : Amounts]

ASSUME AmountsAssumption == Amounts \subseteq Nat \ {0}

\* "confirmed" is written by a settlement only.
ASSUME LifecycleAssumption == Lifecycle \subseteq BookingStatus \ {"confirmed"}

BookingTypeOK == booking \in [Bookings -> BookingRow]

\* A booking is created pending and unpaid, with the total the server computed.
BookingInit ==
  booking \in [Bookings ->
                 [status : {"pending"}, paymentStatus : {"pending"}, total : Amounts]]

-------------------------------------------------------------------------------

\* Mutant of Settleable: the payment status is not looked at.
SettleableByStatus(b, amount) ==
  booking[b].status = "accepted" /\ booking[b].total = amount

\* The where-clause of the conditional update that links a captured payment.
Settleable(b, amount) ==
  /\ booking[b].status = "accepted"
  /\ booking[b].paymentStatus = "pending"
  /\ booking[b].total = amount

Settled(row) == [row EXCEPT !.status = "confirmed", !.paymentStatus = "completed"]

\* PaymentService's step on a booking: an accepted, unpaid booking is paid for.
SettlementMove(b) ==
  /\ Settleable(b, booking[b].total)
  /\ booking' = [booking EXCEPT ![b] = Settled(@)]

\* Every other service's step on a booking: it may change the status and the
\* total (of a confirmed booking too), it never confirms a booking and never
\* touches the payment status.
LifecycleMove(b) ==
  \E s \in Lifecycle \cup {booking[b].status}, t \in Amounts :
    booking' = [booking EXCEPT ![b].status = s, ![b].total = t]
===============================================================================
