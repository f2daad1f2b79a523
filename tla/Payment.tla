-------------------------------- MODULE Payment --------------------------------
(***************************************************************************)
(* PaymentService: provider orders, captured payments, the wallet and the  *)
(* transaction ledger.  Every await of a handler ends a step, so requests  *)
(* of the checkout app, of the provider's webhook and of the development   *)
(* endpoints interleave; the settlement transaction is one step, because   *)
(* its first write, a conditional update, locks the order row and the      *)
(* second one locks the booking row.                                       *)
(*                                                                         *)
(* External and modelled from its use here: the provider (Razorpay), whose *)
(* payments are authorized, then captured, and whose webhook reports a     *)
(* capture at least once; the rest of the backend moves bookings by        *)
(* LifecycleMove.                                                          *)
(***************************************************************************)
EXTENDS CustomerDb, Sequences, FiniteSets

CONSTANTS Orders,     \* order ids the provider can hand out
          Payments,   \* payment ids
          Calls,      \* requests that can be in flight at once
          Endpoints,  \* endpoints that are called
          None        \* null

AllEndpoints ==
  {"createOrder", "addMoney", "verify", "webhook", "confirmBooking", "simulatedVerify"}

ASSUME EndpointsAssumption == Endpoints \subseteq AllEndpoints
ASSUME NoneAssumption ==
  /\ None \notin Bookings /\ None \notin Orders
  /\ None \notin Payments /\ None \notin Amounts

VARIABLES
  order,    \* customer_razorpay_orders
  ledger,   \* customer_transactions, by the order they were written for
  wallet,   \* the customer's wallet balance
  call,     \* requests in flight
  told,     \* the bookingStatus the last answer about an order carried
  charge    \* the provider's payments (external)

payVars == <<order, ledger, wallet, call, told, charge>>
vars == <<booking, order, ledger, wallet, call, told, charge>>

OrderRow ==
  [status : {"none", "created", "paid"}, booking : Bookings \cup {None},
   amount : Amounts \cup {None}, payment : Payments \cup {None}]

NoOrder == [status |-> "none", booking |-> None, amount |-> None, payment |-> None]

LedgerRow == [payment : Payments, amount : Amounts, status : {"completed", "pending"}]

Charge == [status : {"none", "authorized", "captured", "simulated"},
           order : Orders \cup {None}]

CallState ==
  [at : {"idle", "store", "simulatedStore", "fetch", "settle", "webhookSettle",
         "simulatedSettle", "reply", "simulatedReply"},
   booking : Bookings \cup {None}, amount : Amounts \cup {None},
   order : Orders \cup {None}, payment : Payments \cup {None}]

Idle == [at |-> "idle", booking |-> None, amount |-> None,
         order |-> None, payment |-> None]

TypeOK ==
  /\ BookingTypeOK
  /\ order \in [Orders -> OrderRow]
  /\ ledger \in [Orders -> Seq(LedgerRow)]
  /\ wallet \in Nat
  /\ call \in [Calls -> CallState]
  /\ told \in [Orders -> {"nothing", "confirmed", "reconciliation_required"}]
  /\ charge \in [Payments -> Charge]

Init ==
  /\ BookingInit
  /\ order = [o \in Orders |-> NoOrder]
  /\ ledger = [o \in Orders |-> << >>]
  /\ wallet = 0
  /\ call = [k \in Calls |-> Idle]
  /\ told = [o \in Orders |-> "nothing"]
  /\ charge = [p \in Payments |-> [status |-> "none", order |-> None]]

-------------------------------------------------------------------------------
(* Helpers *)

Enter(k, state) == call' = [call EXCEPT ![k] = state]
Finish(k) == Enter(k, Idle)

\* What createOrder accepts, and what the development shortcut accepts.
Payable(b) == booking[b].status = "accepted" /\ booking[b].paymentStatus = "pending"
PayableInDevelopment(b) == booking[b].status \in {"accepted", "pending"}

\* Mutant of Claimable: the claim is an update by order id only.
ClaimableAgain(o) == order[o].status # "none"

\* The order is claimed by whoever moves it out of "created".
Claimable(o) == order[o].status = "created"
Claim(o, p) == order' = [order EXCEPT ![o].status = "paid", ![o].payment = p]

Record(o, p, status) ==
  ledger' = [ledger EXCEPT ![o] =
               Append(@, [payment |-> p, amount |-> order[o].amount, status |-> status])]

BookingPaymentConfirmed(b) ==
  booking[b].status = "confirmed" /\ booking[b].paymentStatus = "completed"

\* Mutant of NewOrder: the ledger's word for what is not paid yet.
NewOrderPending(b, amount) ==
  [status |-> "pending", booking |-> b, amount |-> amount, payment |-> None]

NewOrder(b, amount) ==
  [status |-> "created", booking |-> b, amount |-> amount, payment |-> None]

-------------------------------------------------------------------------------
(* settleCapturedPayment: claim the order, then credit the wallet or link  *)
(* the booking, and write the ledger row in any case.                      *)

\* Mutants: a booking payment that is credited to the wallet, a booking that is
\* confirmed whatever became of it.
CreditWalletAnyOrder(o) ==
  /\ wallet' = wallet + order[o].amount
  /\ UNCHANGED booking

LinkBookingAnyway(o) ==
  /\ order[o].booking # None
  /\ booking' = [booking EXCEPT ![order[o].booking] = Settled(@)]
  /\ UNCHANGED wallet

CreditWallet(o) ==
  /\ order[o].booking = None
  /\ wallet' = wallet + order[o].amount
  /\ UNCHANGED booking

LinkBooking(o) ==
  /\ order[o].booking # None
  /\ Settleable(order[o].booking, order[o].amount)
  /\ booking' = [booking EXCEPT ![order[o].booking] = Settled(@)]
  /\ UNCHANGED wallet

KeepForReconciliation(o) ==
  /\ order[o].booking # None
  /\ ~ Settleable(order[o].booking, order[o].amount)
  /\ UNCHANGED <<booking, wallet>>

Settle(o, p) ==
  /\ Claimable(o)
  /\ Claim(o, p)
  /\ \/ (CreditWallet(o) \/ LinkBooking(o)) /\ Record(o, p, "completed")
     \/ KeepForReconciliation(o) /\ Record(o, p, "pending")

\* The claim found the order paid by this very payment: nothing is written.
AlreadySettled(o, p) ==
  /\ ~ Claimable(o)
  /\ order[o].status = "paid" /\ order[o].payment = p
  /\ UNCHANGED <<booking, order, ledger, wallet>>
-------------------------------------------------------------------------------
(* createOrder and addMoney: read, ask the provider, store the order       *)

CreateOrder(k, b) ==
  /\ "createOrder" \in Endpoints
  /\ call[k] = Idle
  /\ Payable(b)
  /\ Enter(k, [Idle EXCEPT !.at = "store", !.booking = b, !.amount = booking[b].total])
  /\ UNCHANGED <<booking, order, ledger, wallet, told, charge>>

AddMoney(k, amount) ==
  /\ "addMoney" \in Endpoints
  /\ call[k] = Idle
  /\ Enter(k, [Idle EXCEPT !.at = "store", !.amount = amount])
  /\ UNCHANGED <<booking, order, ledger, wallet, told, charge>>

\* The provider answered with a fresh order id; the row keeps the amount that
\* was read before the provider was asked.
StoreOrder(k, o) ==
  /\ call[k].at = "store"
  /\ order[o].status = "none"
  /\ order' = [order EXCEPT ![o] = NewOrder(call[k].booking, call[k].amount)]
  /\ Finish(k)
  /\ UNCHANGED <<booking, ledger, wallet, told, charge>>

-------------------------------------------------------------------------------
(* The provider and the checkout app (external)                            *)

\* An order made up by a development endpoint is unknown to the provider.
Simulated(o) == \E p \in Payments : charge[p] = [status |-> "simulated", order |-> o]

Authorize(p, o) ==
  /\ charge[p].status = "none"
  /\ order[o].status # "none" /\ ~ Simulated(o)
  /\ charge' = [charge EXCEPT ![p] = [status |-> "authorized", order |-> o]]
  /\ UNCHANGED <<booking, order, ledger, wallet, call, told>>

Capture(p) ==
  /\ charge[p].status = "authorized"
  /\ charge' = [charge EXCEPT ![p].status = "captured"]
  /\ UNCHANGED <<booking, order, ledger, wallet, call, told>>

-------------------------------------------------------------------------------
(* verifyPayment and verifyWalletTopup                                     *)

\* The signature names an order and a payment the provider authorized for it.
\* An order that is already paid by another payment is refused; one paid by
\* this payment is answered at once.
Verify(k, o, p) ==
  /\ "verify" \in Endpoints
  /\ call[k] = Idle
  /\ charge[p].status \in {"authorized", "captured"} /\ charge[p].order = o
  /\ \/ /\ Claimable(o)
        /\ Enter(k, [Idle EXCEPT !.at = "fetch", !.order = o, !.payment = p])
     \/ /\ order[o].status = "paid" /\ order[o].payment = p
        /\ order[o].booking # None
        /\ Enter(k, [Idle EXCEPT !.at = "reply", !.order = o])
  /\ UNCHANGED <<booking, order, ledger, wallet, told, charge>>

\* confirmCapturedPayment: the provider is asked before anything is settled.
ValidCapture(o, p) == charge[p].status = "captured" /\ charge[p].order = o

\* Mutant of ConfirmCaptured: the signature is taken for the capture.
ConfirmSigned(k) ==
  /\ call[k].at = "fetch"
  /\ Enter(k, [call[k] EXCEPT !.at = "settle"])
  /\ UNCHANGED <<booking, order, ledger, wallet, told, charge>>

ConfirmCaptured(k) ==
  /\ call[k].at = "fetch"
  /\ ValidCapture(call[k].order, call[k].payment)
  /\ Enter(k, [call[k] EXCEPT !.at = "settle"])
  /\ UNCHANGED <<booking, order, ledger, wallet, told, charge>>

\* A settled booking order still has its booking read for the answer.
SettleVerified(k) ==
  LET o == call[k].order IN
  /\ call[k].at = "settle"
  /\ Settle(o, call[k].payment) \/ AlreadySettled(o, call[k].payment)
  /\ IF order[o].booking = None
       THEN Finish(k)
       ELSE Enter(k, [Idle EXCEPT !.at = "reply", !.order = o])
  /\ UNCHANGED <<told, charge>>

\* Mutant of Answer: the booking is not read again.
AnswerUnread(b) == "confirmed"

Answer(b) ==
  IF BookingPaymentConfirmed(b) THEN "confirmed" ELSE "reconciliation_required"

Reply(k) ==
  LET o == call[k].order IN
  /\ call[k].at = "reply"
  /\ told' = [told EXCEPT ![o] = Answer(order[o].booking)]
  /\ Finish(k)
  /\ UNCHANGED <<booking, order, ledger, wallet, charge>>

-------------------------------------------------------------------------------
(* handleWebhook, event payment.captured, delivered at least once          *)

\* Mutant of ReceiveWebhook: a capture for a booking that is no longer accepted and
\* unpaid is not processed.
ReceivePayableWebhook(k, p) ==
  /\ "webhook" \in Endpoints
  /\ call[k] = Idle
  /\ charge[p].status = "captured"
  /\ Claimable(charge[p].order) /\ Payable(order[charge[p].order].booking)
  /\ Enter(k, [Idle EXCEPT !.at = "webhookSettle",
                           !.order = charge[p].order, !.payment = p])
  /\ UNCHANGED <<booking, order, ledger, wallet, told, charge>>

\* A paid order is acknowledged or refused without a write.
ReceiveWebhook(k, p) ==
  /\ "webhook" \in Endpoints
  /\ call[k] = Idle
  /\ charge[p].status = "captured"
  /\ Claimable(charge[p].order)
  /\ Enter(k, [Idle EXCEPT !.at = "webhookSettle",
                           !.order = charge[p].order, !.payment = p])
  /\ UNCHANGED <<booking, order, ledger, wallet, told, charge>>

SettleWebhook(k) ==
  /\ call[k].at = "webhookSettle"
  /\ \/ Settle(call[k].order, call[k].payment)
     \/ AlreadySettled(call[k].order, call[k].payment)
  /\ Finish(k)
  /\ UNCHANGED <<told, charge>>

-------------------------------------------------------------------------------
(* The development endpoints: confirmBookingPayment stores an order of its *)
(* own, the simulated branch of verifyPayment takes any order and payment. *)

ConfirmBooking(k, b) ==
  /\ "confirmBooking" \in Endpoints
  /\ call[k] = Idle
  /\ PayableInDevelopment(b)
  /\ Enter(k, [Idle EXCEPT !.at = "simulatedStore", !.booking = b,
                           !.amount = booking[b].total])
  /\ UNCHANGED <<booking, order, ledger, wallet, told, charge>>

StoreSimulatedOrder(k, o, p) ==
  /\ call[k].at = "simulatedStore"
  /\ order[o].status = "none"
  /\ charge[p].status = "none"
  /\ order' = [order EXCEPT ![o] = NewOrder(call[k].booking, call[k].amount)]
  /\ charge' = [charge EXCEPT ![p] = [status |-> "simulated", order |-> o]]
  /\ Enter(k, [Idle EXCEPT !.at = "simulatedSettle", !.order = o, !.payment = p])
  /\ UNCHANGED <<booking, ledger, wallet, told>>

SimulatedVerify(k, o, p) ==
  /\ "simulatedVerify" \in Endpoints
  /\ call[k] = Idle
  /\ order[o].status # "none"
  /\ Enter(k, [Idle EXCEPT !.at = "simulatedSettle", !.order = o, !.payment = p])
  /\ UNCHANGED <<booking, order, ledger, wallet, told, charge>>

SettleSimulated(k) ==
  /\ call[k].at = "simulatedSettle"
  /\ \/ Settle(call[k].order, call[k].payment)
     \/ AlreadySettled(call[k].order, call[k].payment)
  /\ Enter(k, [Idle EXCEPT !.at = "simulatedReply", !.order = call[k].order])
  /\ UNCHANGED <<told, charge>>

\* The answer, and the status sent to the Admin Backend, are always "confirmed".
ReplySimulated(k) ==
  /\ call[k].at = "simulatedReply"
  /\ told' = [told EXCEPT ![call[k].order] = "confirmed"]
  /\ Finish(k)
  /\ UNCHANGED <<booking, order, ledger, wallet, charge>>

-------------------------------------------------------------------------------

\* A request ends early: refused, timed out, rolled back, or lost in a crash.
Abort(k) ==
  /\ call[k] # Idle
  /\ Finish(k)
  /\ UNCHANGED <<booking, order, ledger, wallet, told, charge>>

\* The rest of the backend moves a booking.
BookingMoves(b) == LifecycleMove(b) /\ UNCHANGED payVars

Progress(k) ==
  \/ \E o \in Orders : StoreOrder(k, o)
  \/ ConfirmCaptured(k) \/ SettleVerified(k) \/ Reply(k)
  \/ SettleWebhook(k)
  \/ \E o \in Orders, p \in Payments : StoreSimulatedOrder(k, o, p)
  \/ SettleSimulated(k) \/ ReplySimulated(k)
  \/ Abort(k)

Arrive(k) ==
  \/ \E b \in Bookings : CreateOrder(k, b) \/ ConfirmBooking(k, b)
  \/ \E a \in Amounts : AddMoney(k, a)
  \/ \E o \in Orders, p \in Payments : Verify(k, o, p) \/ SimulatedVerify(k, o, p)
  \/ \E p \in Payments : ReceiveWebhook(k, p)

Next ==
  \/ \E k \in Calls : Arrive(k) \/ Progress(k)
  \/ \E p \in Payments : Capture(p)
  \/ \E p \in Payments, o \in Orders : Authorize(p, o)
  \/ \E b \in Bookings : BookingMoves(b)

Spec == Init /\ [][Next]_vars

-------------------------------------------------------------------------------
(* Properties                                                              *)

\* An order is settled exactly once: it is paid if and only if the ledger holds
\* one row for it, and that row names the payment that claimed the order.  Two
\* webhook deliveries and a checkout verification may all be past their
\* "already paid?" read at once (settleCapturedPayment's claim).
SettledOnce ==
  \A o \in Orders :
    \/ order[o].status # "paid" /\ ledger[o] = << >>
    \/ /\ order[o].status = "paid" /\ Len(ledger[o]) = 1
       /\ ledger[o][1].payment = order[o].payment
       /\ ledger[o][1].amount = order[o].amount

\* The orders whose ledger row says that they paid for booking b.
PaidFor(b) == {o \in Orders : /\ order[o].booking = b
                              /\ ledger[o] # << >> /\ ledger[o][1].status = "completed"}

\* A booking is bought once: its payment status is completed if and only if one
\* order of the many its customer may have opened is the one that paid for it;
\* the money of every other order stays "pending" in the ledger.
BoughtOnce ==
  \A b \in Bookings :
    /\ \A o1, o2 \in PaidFor(b) : o1 = o2
    /\ booking[b].paymentStatus = "completed" <=> PaidFor(b) # {}

\* Every rupee of every top-up that was paid, counted once.
TopUps == {o \in Orders : order[o].status = "paid" /\ order[o].booking = None}
TopUpRupees == UNION {{o} \X (1..order[o].amount) : o \in TopUps}

\* The wallet holds exactly the top-ups that were paid, whatever the number of
\* verifications and webhook deliveries of each (settleCapturedPayment).
WalletIsTopUps == wallet = Cardinality(TopUpRupees)

\* "A delayed capture must never reopen a cancelled/completed booking": a step
\* that records money confirms a booking only out of "accepted", at the total
\* the customer was charged, and otherwise leaves the booking as it is.
CaptureNeverReopens ==
  [][\A b \in Bookings :
       ledger' # ledger /\ booking'[b] # booking[b] =>
         /\ booking[b].status = "accepted" /\ booking'[b] = Settled(booking[b])
         /\ \E o \in Orders : /\ order[o].booking = b /\ order[o].status = "created"
                              /\ order'[o].status = "paid"
                              /\ order[o].amount = booking[b].total]_vars

\* No money is credited on the strength of a signature alone: a paid order was
\* paid by a payment that the provider captured for this order
\* (confirmCapturedPayment, validateCapturedPayment).
OnlyCapturedMoney ==
  \A o \in Orders :
    order[o].status = "paid" => ValidCapture(o, order[o].payment)

\* The customer is told that a booking is confirmed only when it is paid for,
\* even if it was cancelled between the settlement and the answer.
ConfirmedAnswersArePaid ==
  \A o \in Orders :
    told[o] = "confirmed" =>
      /\ order[o].booking # None
      /\ booking[order[o].booking].paymentStatus = "completed"

\* The ledger holds a row for order o that names payment p.
Recorded(o, p) == \E i \in DOMAIN ledger[o] : ledger[o][i].payment = p

\* A payment the provider captured gets its ledger row in the end, by the webhook if
\* every verification of the app fails, unless another captured payment of the same
\* order has got one: the order is paid by that one, every delivery of this one is
\* refused, and its money is in no row (settleCapturedPayment, handleWebhook).
CapturedIsRecorded ==
  \A p \in Payments, o \in Orders :
    ValidCapture(o, p) ~>
      \/ Recorded(o, p)
      \/ \E q \in Payments \ {p} : ValidCapture(o, q) /\ Recorded(o, q)

\* PaymentService implements Settlement: a bill is an order row, a bill's money
\* is put aside when its ledger row stays "pending".
Bill(o) == [purpose |-> order[o].booking, amount |-> order[o].amount,
            paidBy |-> order[o].payment]
Buyer(b) == IF PaidFor(b) = {} THEN None ELSE CHOOSE o \in PaidFor(b) : TRUE

Abstract == INSTANCE Settlement WITH
              bill <- [o \in Orders |-> Bill(o)],
              bought <- [b \in Bookings |-> Buyer(b)],
              aside <- {o \in Orders : ledger[o] # << >> /\ ledger[o][1].status = "pending"}

\* Every behaviour of the handlers is one that Settlement allows: whatever races
\* with whatever, a bill is paid once and a booking is bought by one bill.
ImplementsSettlement == Abstract!Spec
-------------------------------------------------------------------------------
(* A claim of the repository that the code does not keep                   *)

\* Captured money that could not be linked to the booking "remain[s] recorded for
\* reconciliation/refund", and the answer about it says so: an order is answered
\* "confirmed" only if it is the order that paid for the booking.
ConfirmedOrderPaid ==
  \A o \in Orders : told[o] = "confirmed" => o \in PaidFor(order[o].booking)
===============================================================================
