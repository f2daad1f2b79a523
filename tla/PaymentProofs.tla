---------------------------- MODULE PaymentProofs ----------------------------
(***************************************************************************)
(* Proofs about Payment, for every set of bookings, orders, payments,      *)
(* amounts and requests in flight, and every choice of endpoints.          *)
(***************************************************************************)
EXTENDS Payment, FiniteSetTheorems, TLAPS

\* What a suspended request carries.
CallSound(c) ==
  /\ c.at \in {"store", "simulatedStore"} => c.amount \in Amounts
  /\ c.at = "simulatedStore" => c.booking \in Bookings
  /\ c.at \in {"fetch", "settle", "webhookSettle", "simulatedSettle"} =>
       c.order \in Orders /\ c.payment \in Payments
  /\ c.at \in {"reply", "simulatedReply"} => c.order \in Orders

CallsSound == \A k \in Calls : CallSound(call[k])

\* An order row is either absent or carries the amount it was stored with, and
\* names its payment when it is paid.
OrdersSound ==
  \A o \in Orders :
    /\ order[o].status = "none" => order[o] = NoOrder
    /\ order[o].status # "none" => order[o].amount \in Amounts
    /\ order[o].status = "created" => order[o].payment = None
    /\ order[o].status = "paid" => order[o].payment \in Payments

ChargesSound == \A p \in Payments : charge[p].status # "none" => charge[p].order \in Orders

IInv == /\ TypeOK /\ CallsSound /\ OrdersSound /\ ChargesSound
        /\ SettledOnce /\ BoughtOnce

-------------------------------------------------------------------------------
(* Initial states *)

LEMMA InitIInv == Init => IInv
<1> SUFFICES ASSUME Init PROVE IInv OBVIOUS
<1> USE DEF Init
<1>1. TypeOK
  <2>1. BookingTypeOK
    BY DEF BookingInit, BookingTypeOK, BookingRow, BookingStatus, PaymentStatus
  <2>2. order \in [Orders -> OrderRow] /\ charge \in [Payments -> Charge]
    BY DEF NoOrder, OrderRow, Charge
  <2>3. call \in [Calls -> CallState]
    BY DEF Idle, CallState
  <2>4. ledger \in [Orders -> Seq(LedgerRow)]
    OBVIOUS
  <2> QED BY <2>1, <2>2, <2>3, <2>4 DEF TypeOK
<1>2. CallsSound
  BY DEF CallsSound, CallSound, Idle
<1>3. OrdersSound /\ ChargesSound
  BY DEF OrdersSound, ChargesSound, NoOrder
<1>4. SettledOnce
  BY DEF SettledOnce, NoOrder
<1>5. BoughtOnce
  <2>1. \A b \in Bookings : PaidFor(b) = {} /\ booking[b].paymentStatus = "pending"
    BY DEF PaidFor, BookingInit
  <2> QED BY <2>1 DEF BoughtOnce
<1> QED BY <1>1, <1>2, <1>3, <1>4, <1>5 DEF IInv

-------------------------------------------------------------------------------
(* Requests *)

\* A request enters a state.
LEMMA Entered ==
  ASSUME IInv, NEW k \in Calls, NEW c \in CallState, CallSound(c), Enter(k, c)
  PROVE  call' \in [Calls -> CallState] /\ CallsSound'
BY DEF IInv, TypeOK, CallsSound, CallSound, Enter

LEMMA Finished ==
  ASSUME IInv, NEW k \in Calls, Finish(k)
  PROVE  call' \in [Calls -> CallState] /\ CallsSound'
<1>1. Idle \in CallState /\ CallSound(Idle)
  BY DEF Idle, CallState, CallSound
<1> QED BY <1>1, Entered DEF Finish

LEMMA Suspended ==
  ASSUME IInv, NEW k \in Calls
  PROVE  call[k] \in CallState /\ CallSound(call[k])
BY DEF IInv, TypeOK, CallsSound

\* A step that writes no table.
LEMMA TablesUnchanged ==
  ASSUME IInv, call' \in [Calls -> CallState], CallsSound',
         UNCHANGED <<booking, order, ledger, wallet>>,
         told' \in [Orders -> {"nothing", "confirmed", "reconciliation_required"}],
         charge' \in [Payments -> Charge], ChargesSound'
  PROVE  IInv'
<1>1. \A b \in Bookings : PaidFor(b)' = PaidFor(b)
  BY DEF PaidFor
<1> QED BY <1>1 DEF IInv, TypeOK, BookingTypeOK, OrdersSound, SettledOnce, BoughtOnce

\* Requests that are started by a read.
LEMMA ArriveStep ==
  ASSUME IInv, NEW k \in Calls, Arrive(k)
  PROVE  IInv'
<1>1. \A b \in Bookings : booking[b].total \in Amounts
  BY DEF IInv, TypeOK, BookingTypeOK, BookingRow
<1>2. UNCHANGED <<booking, order, ledger, wallet, told, charge>>
  BY DEF Arrive, CreateOrder, ConfirmBooking, AddMoney, Verify, SimulatedVerify, ReceiveWebhook
<1>3. PICK c \in CallState : CallSound(c) /\ Enter(k, c)
  <2>1. CASE \E b \in Bookings : CreateOrder(k, b)
    BY <1>1, <2>1 DEF CreateOrder, Idle, CallState, CallSound
  <2>2. CASE \E b \in Bookings : ConfirmBooking(k, b)
    BY <1>1, <2>2 DEF ConfirmBooking, Idle, CallState, CallSound
  <2>3. CASE \E a \in Amounts : AddMoney(k, a)
    BY <2>3 DEF AddMoney, Idle, CallState, CallSound
  <2>4. CASE \E o \in Orders, p \in Payments : Verify(k, o, p)
    BY <2>4 DEF Verify, Idle, CallState, CallSound
  <2>5. CASE \E o \in Orders, p \in Payments : SimulatedVerify(k, o, p)
    BY <2>5 DEF SimulatedVerify, Idle, CallState, CallSound
  <2>6. CASE \E p \in Payments : ReceiveWebhook(k, p)
    <3>1. PICK p \in Payments : ReceiveWebhook(k, p)
      BY <2>6
    <3>2. charge[p].order \in Orders
      BY <3>1 DEF IInv, ChargesSound, ReceiveWebhook
    <3> QED BY <3>1, <3>2 DEF ReceiveWebhook, Idle, CallState, CallSound
  <2> QED BY <2>1, <2>2, <2>3, <2>4, <2>5, <2>6 DEF Arrive
<1>4. call' \in [Calls -> CallState] /\ CallsSound'
  BY <1>3, Entered
<1> QED BY <1>2, <1>4, TablesUnchanged DEF IInv, TypeOK, ChargesSound

-------------------------------------------------------------------------------
(* Storing an order *)

\* A new order is unpaid and has no ledger row: nothing that is settled moves.
LEMMA OrderStored ==
  ASSUME IInv, NEW o \in Orders, order[o].status = "none",
         NEW b \in Bookings \cup {None}, NEW amount \in Amounts,
         order' = [order EXCEPT ![o] = NewOrder(b, amount)],
         UNCHANGED <<booking, ledger, wallet>>
  PROVE  /\ order' \in [Orders -> OrderRow] /\ OrdersSound'
         /\ SettledOnce' /\ BoughtOnce'
<1>1. /\ NewOrder(b, amount) \in OrderRow
      /\ NewOrder(b, amount).status = "created" /\ NewOrder(b, amount).payment = None
      /\ NewOrder(b, amount).amount = amount
  BY DEF NewOrder, OrderRow
<1>2. order' \in [Orders -> OrderRow] /\ OrdersSound'
  BY <1>1 DEF IInv, TypeOK, OrdersSound
<1>3. ledger[o] = << >>
  BY DEF IInv, SettledOnce
<1>4. SettledOnce'
  BY <1>1, <1>3 DEF IInv, TypeOK, SettledOnce
<1>5. \A c \in Bookings : PaidFor(c)' = PaidFor(c)
  BY <1>3 DEF IInv, TypeOK, PaidFor
<1>6. BoughtOnce'
  BY <1>5 DEF IInv, BoughtOnce
<1> QED BY <1>2, <1>4, <1>6

LEMMA StoreOrderStep ==
  ASSUME IInv, NEW k \in Calls, NEW o \in Orders, StoreOrder(k, o)
  PROVE  IInv'
<1>1. call[k].booking \in Bookings \cup {None} /\ call[k].amount \in Amounts
  BY Suspended DEF StoreOrder, CallSound, CallState
<1>2. call' \in [Calls -> CallState] /\ CallsSound'
  BY Finished DEF StoreOrder
<1>3. order' \in [Orders -> OrderRow] /\ OrdersSound' /\ SettledOnce' /\ BoughtOnce'
  BY <1>1, OrderStored DEF StoreOrder
<1> QED BY <1>2, <1>3 DEF StoreOrder, IInv, TypeOK, BookingTypeOK, ChargesSound

LEMMA StoreSimulatedOrderStep ==
  ASSUME IInv, NEW k \in Calls, NEW o \in Orders, NEW p \in Payments,
         StoreSimulatedOrder(k, o, p)
  PROVE  IInv'
<1>1. call[k].booking \in Bookings /\ call[k].amount \in Amounts
  BY Suspended DEF StoreSimulatedOrder, CallSound
<1> DEFINE c == [Idle EXCEPT !.at = "simulatedSettle", !.order = o, !.payment = p]
<1>2. c \in CallState /\ CallSound(c)
  BY DEF Idle, CallState, CallSound
<1>3. call' \in [Calls -> CallState] /\ CallsSound'
  BY <1>2, Entered DEF StoreSimulatedOrder
<1>4. order' \in [Orders -> OrderRow] /\ OrdersSound' /\ SettledOnce' /\ BoughtOnce'
  BY <1>1, OrderStored DEF StoreSimulatedOrder
<1>5. charge' \in [Payments -> Charge] /\ ChargesSound'
  BY DEF StoreSimulatedOrder, IInv, TypeOK, ChargesSound, Charge
<1> QED BY <1>3, <1>4, <1>5 DEF StoreSimulatedOrder, IInv, TypeOK, BookingTypeOK

-------------------------------------------------------------------------------
(* Settling an order *)

\* What the three outcomes of a settlement have in common: the order was created
\* and unsettled, and is paid by p; its ledger gets its first row.
LEMMA OrderClaimed ==
  ASSUME IInv, NEW o \in Orders, NEW p \in Payments, NEW s \in {"completed", "pending"},
         Claimable(o), Claim(o, p), Record(o, p, s)
  PROVE  /\ order' \in [Orders -> OrderRow] /\ OrdersSound'
         /\ ledger' \in [Orders -> Seq(LedgerRow)]
         /\ SettledOnce'
         /\ ledger[o] = << >> /\ Len(ledger'[o]) = 1 /\ ledger'[o][1].status = s
         /\ \A b \in Bookings :
              PaidFor(b)' = IF s = "completed" /\ order[o].booking = b
                              THEN PaidFor(b) \cup {o} ELSE PaidFor(b)
<1> DEFINE row == [payment |-> p, amount |-> order[o].amount, status |-> s]
<1>1. /\ order \in [Orders -> OrderRow] /\ ledger \in [Orders -> Seq(LedgerRow)]
      /\ order[o].status = "created" /\ order[o].amount \in Amounts
  BY DEF IInv, TypeOK, OrdersSound, Claimable
<1>2. ledger[o] = << >>
  BY <1>1 DEF IInv, SettledOnce
<1>3. row \in LedgerRow
  BY <1>1 DEF LedgerRow
<1>4. ledger' = [ledger EXCEPT ![o] = Append(<< >>, row)]
  BY <1>2 DEF Record
<1>5. /\ Append(<< >>, row) \in Seq(LedgerRow)
      /\ Append(<< >>, row) # << >>
      /\ Len(Append(<< >>, row)) = 1 /\ Append(<< >>, row)[1] = row
  BY <1>3
<1>6. /\ ledger' \in [Orders -> Seq(LedgerRow)]
      /\ ledger'[o] # << >> /\ Len(ledger'[o]) = 1 /\ ledger'[o][1] = row
      /\ \A q \in Orders \ {o} : ledger'[q] = ledger[q]
  BY <1>1, <1>4, <1>5
<1>7. /\ order' \in [Orders -> OrderRow] /\ OrdersSound'
      /\ order'[o].status = "paid" /\ order'[o].payment = p
      /\ order'[o].amount = order[o].amount /\ order'[o].booking = order[o].booking
      /\ \A q \in Orders \ {o} : order'[q] = order[q]
  BY <1>1 DEF IInv, OrdersSound, Claim, OrderRow
<1>8. SettledOnce'
  BY <1>6, <1>7 DEF IInv, SettledOnce
<1>9. \A b \in Bookings :
        PaidFor(b)' = IF s = "completed" /\ order[o].booking = b
                        THEN PaidFor(b) \cup {o} ELSE PaidFor(b)
  BY <1>2, <1>6, <1>7 DEF PaidFor
<1> QED BY <1>2, <1>6, <1>7, <1>8, <1>9

\* A settlement that links the booking is PaymentService's step on a booking.
LEMMA LinkSettles ==
  ASSUME IInv, NEW o \in Orders, LinkBooking(o)
  PROVE  /\ order[o].booking \in Bookings
         /\ order[o].amount = booking[order[o].booking].total
         /\ SettlementMove(order[o].booking)
         /\ booking[order[o].booking].status = "accepted"
         /\ PaidFor(order[o].booking) = {}
<1>1. order[o].booking \in Bookings
  BY DEF IInv, TypeOK, OrderRow, LinkBooking
<1>2. booking[order[o].booking].paymentStatus # "completed"
  BY DEF LinkBooking, Settleable
<1> QED BY <1>1, <1>2 DEF LinkBooking, Settleable, SettlementMove, IInv, BoughtOnce

LEMMA SettlementTyped ==
  ASSUME IInv, NEW b \in Bookings, SettlementMove(b)
  PROVE  /\ BookingTypeOK'
         /\ \A c \in Bookings : booking'[c].paymentStatus =
              IF c = b THEN "completed" ELSE booking[c].paymentStatus
<1>1. booking \in [Bookings -> BookingRow] /\ booking[b] \in BookingRow
  BY DEF IInv, TypeOK, BookingTypeOK
<1> QED BY <1>1 DEF BookingTypeOK, SettlementMove, Settled, BookingRow, BookingStatus,
                    PaymentStatus

LEMMA SettleKeeps ==
  ASSUME IInv, NEW o \in Orders, NEW p \in Payments, Settle(o, p)
  PROVE  /\ BookingTypeOK' /\ order' \in [Orders -> OrderRow] /\ OrdersSound'
         /\ ledger' \in [Orders -> Seq(LedgerRow)] /\ wallet' \in Nat
         /\ SettledOnce' /\ BoughtOnce'
<1>1. Claimable(o) /\ Claim(o, p)
  BY DEF Settle
<1>2. order[o].amount \in Nat /\ wallet \in Nat /\ None \notin Bookings
  BY <1>1, AmountsAssumption, NoneAssumption DEF IInv, TypeOK, OrdersSound, Claimable
<1>3. CASE CreditWallet(o) /\ Record(o, p, "completed")
  <2>1. /\ order' \in [Orders -> OrderRow] /\ OrdersSound'
        /\ ledger' \in [Orders -> Seq(LedgerRow)] /\ SettledOnce'
        /\ \A b \in Bookings : PaidFor(b)' = PaidFor(b)
    BY <1>1, <1>2, <1>3, OrderClaimed DEF CreditWallet
  <2>2. BookingTypeOK' /\ wallet' \in Nat /\ BoughtOnce'
    BY <1>2, <1>3, <2>1 DEF CreditWallet, IInv, TypeOK, BookingTypeOK, BoughtOnce
  <2> QED BY <2>1, <2>2
<1>4. CASE LinkBooking(o) /\ Record(o, p, "completed")
  <2> DEFINE b == order[o].booking
  <2>1. /\ order' \in [Orders -> OrderRow] /\ OrdersSound'
        /\ ledger' \in [Orders -> Seq(LedgerRow)] /\ SettledOnce'
        /\ \A c \in Bookings :
             PaidFor(c)' = IF b = c THEN PaidFor(c) \cup {o} ELSE PaidFor(c)
    BY <1>1, <1>4, OrderClaimed
  <2>2. b \in Bookings /\ SettlementMove(b) /\ PaidFor(b) = {}
    BY <1>4, LinkSettles
  <2>3. /\ BookingTypeOK'
        /\ \A c \in Bookings : booking'[c].paymentStatus =
             IF c = b THEN "completed" ELSE booking[c].paymentStatus
    BY <2>2, SettlementTyped
  <2>4. BoughtOnce'
    <3> SUFFICES ASSUME NEW c \in Bookings
                 PROVE  /\ \A o1, o2 \in PaidFor(c)' : o1 = o2
                        /\ booking'[c].paymentStatus = "completed" <=> PaidFor(c)' # {}
      BY DEF BoughtOnce
    <3>1. CASE c = b
      <4>1. PaidFor(c)' = {o}
        BY <2>1, <2>2, <3>1
      <4> QED BY <2>3, <3>1, <4>1
    <3>2. CASE c # b
      <4>1. /\ PaidFor(c)' = PaidFor(c)
            /\ booking'[c].paymentStatus = booking[c].paymentStatus
        BY <2>1, <2>3, <3>2
      <4> QED BY <4>1 DEF IInv, BoughtOnce
    <3> QED BY <3>1, <3>2
  <2>5. wallet' \in Nat
    BY <1>2, <1>4 DEF LinkBooking
  <2> QED BY <2>1, <2>3, <2>4, <2>5
<1>5. CASE KeepForReconciliation(o) /\ Record(o, p, "pending")
  <2>1. /\ order' \in [Orders -> OrderRow] /\ OrdersSound'
        /\ ledger' \in [Orders -> Seq(LedgerRow)] /\ SettledOnce'
        /\ \A b \in Bookings : PaidFor(b)' = PaidFor(b)
    BY <1>1, <1>5, OrderClaimed
  <2>2. BookingTypeOK' /\ wallet' \in Nat /\ BoughtOnce'
    BY <1>2, <1>5, <2>1 DEF KeepForReconciliation, IInv, TypeOK, BookingTypeOK, BoughtOnce
  <2> QED BY <2>1, <2>2
<1> QED BY <1>3, <1>4, <1>5 DEF Settle

LEMMA AlreadySettledKeeps ==
  ASSUME IInv, NEW o \in Orders, NEW p \in Payments, AlreadySettled(o, p)
  PROVE  /\ BookingTypeOK' /\ order' \in [Orders -> OrderRow] /\ OrdersSound'
         /\ ledger' \in [Orders -> Seq(LedgerRow)] /\ wallet' \in Nat
         /\ SettledOnce' /\ BoughtOnce'
<1>1. \A b \in Bookings : PaidFor(b)' = PaidFor(b)
  BY DEF AlreadySettled, PaidFor
<1> QED BY <1>1 DEF AlreadySettled, IInv, TypeOK, BookingTypeOK, OrdersSound,
                    SettledOnce, BoughtOnce

\* The three handlers that settle: a verification, a webhook, a simulation.
LEMMA SettleSteps ==
  ASSUME IInv, NEW k \in Calls,
         SettleVerified(k) \/ SettleWebhook(k) \/ SettleSimulated(k)
  PROVE  IInv'
<1>1. call[k].order \in Orders /\ call[k].payment \in Payments
  BY Suspended DEF SettleVerified, SettleWebhook, SettleSimulated, CallSound
<1>2. /\ BookingTypeOK' /\ order' \in [Orders -> OrderRow] /\ OrdersSound'
      /\ ledger' \in [Orders -> Seq(LedgerRow)] /\ wallet' \in Nat
      /\ SettledOnce' /\ BoughtOnce'
  BY <1>1, SettleKeeps, AlreadySettledKeeps DEF SettleVerified, SettleWebhook, SettleSimulated
<1>3. call' \in [Calls -> CallState] /\ CallsSound'
  <2>1. \A at \in {"reply", "simulatedReply"} :
          LET c == [Idle EXCEPT !.at = at, !.order = call[k].order]
          IN  c \in CallState /\ CallSound(c)
    BY <1>1 DEF Idle, CallState, CallSound
  <2> QED BY <2>1, Entered, Finished DEF SettleVerified, SettleWebhook, SettleSimulated
<1> QED BY <1>2, <1>3 DEF SettleVerified, SettleWebhook, SettleSimulated,
                          IInv, TypeOK, ChargesSound

-------------------------------------------------------------------------------
(* The other steps *)

LEMMA RequestSteps ==
  ASSUME IInv, NEW k \in Calls,
         ConfirmCaptured(k) \/ Reply(k) \/ ReplySimulated(k) \/ Abort(k)
  PROVE  IInv'
<1>1. call' \in [Calls -> CallState] /\ CallsSound'
  <2>1. CASE ConfirmCaptured(k)
    <3> DEFINE c == [call[k] EXCEPT !.at = "settle"]
    <3>1. c \in CallState /\ CallSound(c)
      BY <2>1, Suspended DEF ConfirmCaptured, CallState, CallSound
    <3> QED BY <2>1, <3>1, Entered DEF ConfirmCaptured
  <2>2. CASE Reply(k) \/ ReplySimulated(k) \/ Abort(k)
    BY <2>2, Finished DEF Reply, ReplySimulated, Abort
  <2> QED BY <2>1, <2>2
<1>2. told' \in [Orders -> {"nothing", "confirmed", "reconciliation_required"}]
  BY DEF ConfirmCaptured, Reply, ReplySimulated, Abort, Answer, IInv, TypeOK
<1> QED BY <1>1, <1>2, TablesUnchanged
        DEF ConfirmCaptured, Reply, ReplySimulated, Abort, IInv, TypeOK, ChargesSound

LEMMA ProviderSteps ==
  ASSUME IInv, NEW p \in Payments, Capture(p) \/ \E o \in Orders : Authorize(p, o)
  PROVE  IInv'
<1>1. charge' \in [Payments -> Charge] /\ ChargesSound'
  <2>1. /\ charge \in [Payments -> Charge] /\ charge[p] \in Charge
        /\ \A q \in Payments : charge[q].status # "none" => charge[q].order \in Orders
    BY DEF IInv, TypeOK, ChargesSound
  <2>2. CASE Capture(p)
    BY <2>1, <2>2 DEF Capture, ChargesSound, Charge
  <2>3. CASE \E o \in Orders : Authorize(p, o)
    BY <2>1, <2>3 DEF Authorize, ChargesSound, Charge
  <2> QED BY <2>2, <2>3
<1> QED BY <1>1, TablesUnchanged
        DEF Capture, Authorize, IInv, TypeOK, CallsSound, CallSound

LEMMA BookingMovesStep ==
  ASSUME IInv, NEW b \in Bookings, BookingMoves(b)
  PROVE  IInv'
<1>1. PICK s \in Lifecycle \cup {booking[b].status}, t \in Amounts :
        booking' = [booking EXCEPT ![b].status = s, ![b].total = t]
  BY DEF BookingMoves, LifecycleMove
<1>2. booking \in [Bookings -> BookingRow] /\ booking[b] \in BookingRow
  BY DEF IInv, TypeOK, BookingTypeOK
<1>3. /\ BookingTypeOK'
      /\ \A c \in Bookings : booking'[c].paymentStatus = booking[c].paymentStatus
  BY <1>1, <1>2, LifecycleAssumption DEF BookingTypeOK, BookingRow
<1>4. \A c \in Bookings : PaidFor(c)' = PaidFor(c)
  BY DEF BookingMoves, payVars, PaidFor
<1> QED BY <1>3, <1>4 DEF BookingMoves, payVars, IInv, TypeOK, CallsSound, CallSound,
                          OrdersSound, ChargesSound, SettledOnce, BoughtOnce

-------------------------------------------------------------------------------
(* Theorems *)

\* Every step of every handler keeps the inductive invariant.
LEMMA NextIInv == IInv /\ [Next]_vars => IInv'
<1> SUFFICES ASSUME IInv, [Next]_vars PROVE IInv' OBVIOUS
<1>1. CASE UNCHANGED vars
  <2>1. \A b \in Bookings : PaidFor(b)' = PaidFor(b)
    BY <1>1 DEF vars, PaidFor
  <2> QED BY <1>1, <2>1 DEF vars, IInv, TypeOK, BookingTypeOK, CallsSound, CallSound,
                            OrdersSound, ChargesSound, SettledOnce, BoughtOnce
<1>2. ASSUME NEW k \in Calls, Arrive(k) PROVE IInv'
  BY <1>2, ArriveStep
<1>3. ASSUME NEW k \in Calls, Progress(k) PROVE IInv'
  BY <1>3, StoreOrderStep, StoreSimulatedOrderStep, SettleSteps, RequestSteps DEF Progress
<1>4. ASSUME NEW p \in Payments, Capture(p) \/ \E o \in Orders : Authorize(p, o)
      PROVE  IInv'
  BY <1>4, ProviderSteps
<1>5. ASSUME NEW b \in Bookings, BookingMoves(b) PROVE IInv'
  BY <1>5, BookingMovesStep
<1> QED BY <1>1, <1>2, <1>3, <1>4, <1>5 DEF Next

\* The inductive invariant holds in every reachable state.
THEOREM Invariance == Spec => []IInv
<1> QED BY InitIInv, NextIInv, PTL DEF Spec

\* Every variable keeps its type, whatever races with whatever.
THEOREM TypeCorrect == Spec => []TypeOK
<1>1. IInv => TypeOK BY DEF IInv
<1> QED BY <1>1, Invariance, PTL

\* However many verifications, webhook deliveries and simulations are past their
\* "already paid?" read, one of them settles an order: its conditional update is
\* the only way out of "created".
THEOREM OrderSettledOnce == Spec => []SettledOnce
<1>1. IInv => SettledOnce BY DEF IInv
<1> QED BY <1>1, Invariance, PTL

\* However many orders a customer opens for a booking, one pays for it, and a
\* booking whose payment is completed has the ledger row of that order.
THEOREM BookingBoughtOnce == Spec => []BoughtOnce
<1>1. IInv => BoughtOnce BY DEF IInv
<1> QED BY <1>1, Invariance, PTL

-------------------------------------------------------------------------------
(* What a step may do to the tables *)

\* A step settles one order, stores one order, is a move of the rest of the
\* backend, or writes none of the tables the abstract specification sees.
LEMMA TableWrites ==
  ASSUME IInv, [Next]_vars
  PROVE  \/ \E o \in Orders, p \in Payments : Settle(o, p)
         \/ /\ UNCHANGED <<booking, ledger, wallet>>
            /\ \E o \in Orders, b \in Bookings \cup {None}, amount \in Amounts :
                 /\ order[o].status = "none"
                 /\ order' = [order EXCEPT ![o] = NewOrder(b, amount)]
         \/ \E b \in Bookings : BookingMoves(b)
         \/ UNCHANGED <<booking, order, ledger, wallet>>
<1>1. CASE UNCHANGED vars
  BY <1>1 DEF vars
<1>2. CASE \E k \in Calls : Arrive(k)
  BY <1>2 DEF Arrive, CreateOrder, ConfirmBooking, AddMoney, Verify, SimulatedVerify,
              ReceiveWebhook
<1>3. ASSUME NEW k \in Calls, SettleVerified(k) \/ SettleWebhook(k) \/ SettleSimulated(k)
      PROVE  \/ \E o \in Orders, p \in Payments : Settle(o, p)
             \/ UNCHANGED <<booking, order, ledger, wallet>>
  <2>1. call[k].order \in Orders /\ call[k].payment \in Payments
    BY <1>3, Suspended DEF SettleVerified, SettleWebhook, SettleSimulated, CallSound
  <2> QED BY <1>3, <2>1 DEF SettleVerified, SettleWebhook, SettleSimulated, AlreadySettled
<1>4. ASSUME NEW k \in Calls, NEW o \in Orders,
             StoreOrder(k, o) \/ \E p \in Payments : StoreSimulatedOrder(k, o, p)
      PROVE  /\ UNCHANGED <<booking, ledger, wallet>>
             /\ \E b \in Bookings \cup {None}, amount \in Amounts :
                  /\ order[o].status = "none"
                  /\ order' = [order EXCEPT ![o] = NewOrder(b, amount)]
  <2>1. call[k].booking \in Bookings \cup {None} /\ call[k].amount \in Amounts
    BY <1>4, Suspended DEF StoreOrder, StoreSimulatedOrder, CallSound, CallState
  <2> QED BY <1>4, <2>1 DEF StoreOrder, StoreSimulatedOrder
<1>5. ASSUME NEW k \in Calls, ConfirmCaptured(k) \/ Reply(k) \/ ReplySimulated(k) \/ Abort(k)
      PROVE  UNCHANGED <<booking, order, ledger, wallet>>
  BY <1>5 DEF ConfirmCaptured, Reply, ReplySimulated, Abort
<1>6. CASE \E p \in Payments : Capture(p) \/ \E o \in Orders : Authorize(p, o)
  BY <1>6 DEF Capture, Authorize
<1>7. CASE \E b \in Bookings : BookingMoves(b)
  BY <1>7
<1> QED BY <1>1, <1>2, <1>3, <1>4, <1>5, <1>6, <1>7 DEF Next, Progress

\* A delayed capture never reopens a booking: the step that records money
\* confirms an accepted booking at the total its order was opened for, or
\* leaves every booking as it is.
THEOREM NeverReopened == Spec => CaptureNeverReopens
<1> DEFINE Bought(b) ==
             ledger' # ledger /\ booking'[b] # booking[b] =>
               /\ booking[b].status = "accepted" /\ booking'[b] = Settled(booking[b])
               /\ \E o \in Orders : /\ order[o].booking = b /\ order[o].status = "created"
                                    /\ order'[o].status = "paid"
                                    /\ order[o].amount = booking[b].total
           Kept == \A b \in Bookings : Bought(b)
<1>1. ASSUME IInv, [Next]_vars PROVE [Kept]_vars
  <2>1. SUFFICES ASSUME ledger' # ledger PROVE Kept
    OBVIOUS
  <2>2. PICK o \in Orders, p \in Payments : Settle(o, p)
    BY <1>1, <2>1, TableWrites DEF BookingMoves, payVars
  <2>3. CASE UNCHANGED booking
    BY <2>3
  <2>4. CASE LinkBooking(o)
    <3>1. /\ order[o].booking \in Bookings
          /\ order[o].amount = booking[order[o].booking].total
          /\ booking[order[o].booking].status = "accepted"
      BY <1>1, <2>4, LinkSettles
    <3>2. order[o].status = "created" /\ order'[o].status = "paid"
      BY <1>1, <2>2 DEF Settle, Claimable, Claim, IInv, TypeOK, OrderRow
    <3>3. booking' = [booking EXCEPT ![order[o].booking] = Settled(booking[order[o].booking])]
      BY <2>4 DEF LinkBooking
    <3>4. booking \in [Bookings -> BookingRow]
      BY <1>1 DEF IInv, TypeOK, BookingTypeOK
    <3>5. ASSUME NEW b \in Bookings, booking'[b] # booking[b] PROVE b = order[o].booking
      BY <3>3, <3>4, <3>5
    <3>6. booking'[order[o].booking] = Settled(booking[order[o].booking])
      BY <3>1, <3>3, <3>4
    <3> QED BY <3>1, <3>2, <3>5, <3>6
  <2> QED BY <2>2, <2>3, <2>4 DEF Settle, CreditWallet, KeepForReconciliation
<1>2. IInv /\ [Next]_vars => [Kept]_vars
  BY <1>1
<1> QED BY <1>2, Invariance, PTL DEF Spec, CaptureNeverReopens

\* A step of PaymentService, the provider or the app on a booking settles it.
LEMMA OwnStepsSettle ==
  ASSUME IInv,
         \/ \E k \in Calls : Arrive(k) \/ Progress(k)
         \/ \E p \in Payments : Capture(p) \/ \E o \in Orders : Authorize(p, o)
  PROVE  UNCHANGED booking \/ \E b \in Bookings : SettlementMove(b)
<1>1. ASSUME NEW o \in Orders, NEW p \in Payments, Settle(o, p)
      PROVE  UNCHANGED booking \/ \E b \in Bookings : SettlementMove(b)
  BY <1>1, LinkSettles DEF Settle, CreditWallet, KeepForReconciliation
<1>2. CASE \E k \in Calls : Arrive(k)
  BY <1>2 DEF Arrive, CreateOrder, ConfirmBooking, AddMoney, Verify, SimulatedVerify,
              ReceiveWebhook
<1>3. ASSUME NEW k \in Calls, SettleVerified(k) \/ SettleWebhook(k) \/ SettleSimulated(k)
      PROVE  UNCHANGED booking \/ \E b \in Bookings : SettlementMove(b)
  <2>1. call[k].order \in Orders /\ call[k].payment \in Payments
    BY <1>3, Suspended DEF SettleVerified, SettleWebhook, SettleSimulated, CallSound
  <2> QED BY <1>1, <1>3, <2>1 DEF SettleVerified, SettleWebhook, SettleSimulated, AlreadySettled
<1>4. ASSUME NEW k \in Calls, Progress(k),
             ~ (SettleVerified(k) \/ SettleWebhook(k) \/ SettleSimulated(k))
      PROVE  UNCHANGED booking
  BY <1>4 DEF Progress, StoreOrder, StoreSimulatedOrder, ConfirmCaptured, Reply,
              ReplySimulated, Abort
<1>5. CASE \E p \in Payments : Capture(p) \/ \E o \in Orders : Authorize(p, o)
  BY <1>5 DEF Capture, Authorize
<1> QED BY <1>2, <1>3, <1>4, <1>5

-------------------------------------------------------------------------------
(* The wallet *)

\* The rupees are finitely many although the orders need not be: only paid ones
\* count, and they are paid one at a time.
WInv == IsFiniteSet(TopUpRupees) /\ WalletIsTopUps

\* The rupees of one order, none of them counted before.
LEMMA RupeesAdded ==
  ASSUME NEW S, IsFiniteSet(S), NEW o, NEW amount \in Nat,
         \A i : <<o, i>> \notin S
  PROVE  /\ IsFiniteSet(S \cup ({o} \X (1..amount)))
         /\ Cardinality(S \cup ({o} \X (1..amount))) = Cardinality(S) + amount
<1> DEFINE T == {o} \X (1..amount)
<1>1. IsFiniteSet({o}) /\ Cardinality({o}) = 1
  BY FS_Singleton
<1>2. IsFiniteSet(1..amount) /\ Cardinality(1..amount) = amount
  BY FS_Interval
<1>3. IsFiniteSet(T) /\ Cardinality(T) = amount
  <2>1. IsFiniteSet(T) /\ Cardinality(T) = Cardinality({o}) * Cardinality(1..amount)
    BY <1>1, <1>2, FS_Product
  <2> QED BY <1>1, <1>2, <2>1
<1>4. S \cap T = {}
  OBVIOUS
<1>5. Cardinality({}) = 0
  BY FS_EmptySet
<1>6. Cardinality(S) \in Nat
  BY FS_CardinalityType
<1> HIDE DEF T
<1>7. /\ IsFiniteSet(S \cup T)
      /\ Cardinality(S \cup T) = Cardinality(S) + Cardinality(T) - Cardinality(S \cap T)
  BY <1>3, FS_Union
<1>8. Cardinality(S \cap T) = 0
  BY <1>4, <1>5
<1>9. Cardinality(S \cup T) = Cardinality(S) + amount
  <2>1. \A n, m \in Nat : n + m - 0 = n + m
    OBVIOUS
  <2>2. Cardinality(S \cup T) = Cardinality(S) + amount - 0
    BY <1>3, <1>7, <1>8
  <2> QED BY <1>6, <2>1, <2>2
<1> QED BY <1>7, <1>9 DEF T

\* A settlement adds the rupees of a top-up, or none.
LEMMA RupeesOfSettlement ==
  ASSUME IInv, NEW o \in Orders, NEW p \in Payments, Claimable(o), Claim(o, p)
  PROVE  /\ order[o].amount \in Nat
         /\ \A i : <<o, i>> \notin TopUpRupees
         /\ TopUpRupees' = IF order[o].booking = None
                             THEN TopUpRupees \cup ({o} \X (1..order[o].amount))
                             ELSE TopUpRupees
<1>1. /\ order[o] \in OrderRow /\ order[o].status = "created" /\ order[o].amount \in Nat
  BY AmountsAssumption DEF IInv, TypeOK, OrdersSound, Claimable
<1>2. \A q \in Orders :
        /\ order'[q].amount = order[q].amount /\ order'[q].booking = order[q].booking
        /\ order'[q].status = IF q = o THEN "paid" ELSE order[q].status
  BY <1>1 DEF IInv, TypeOK, Claim, OrderRow
<1>3. TopUps' = IF order[o].booking = None THEN TopUps \cup {o} ELSE TopUps
  BY <1>2 DEF TopUps
<1>4. o \notin TopUps
  BY <1>1 DEF TopUps
<1>5. \A i : <<o, i>> \notin TopUpRupees
  BY <1>4 DEF TopUpRupees
<1>6. \A q \in TopUps' : {q} \X (1..order'[q].amount) = {q} \X (1..order[q].amount)
  BY <1>2 DEF TopUps
<1>7. TopUpRupees' = UNION {{q} \X (1..order[q].amount) : q \in TopUps'}
  BY <1>6 DEF TopUpRupees
<1>8. CASE order[o].booking = None
  <2>1. TopUps' = TopUps \cup {o}
    BY <1>3, <1>8
  <2>2. TopUpRupees' = TopUpRupees \cup ({o} \X (1..order[o].amount))
    BY <1>7, <2>1 DEF TopUpRupees
  <2> QED BY <1>1, <1>5, <1>8, <2>2
<1>9. CASE order[o].booking # None
  <2>1. TopUps' = TopUps
    BY <1>3, <1>9
  <2>2. TopUpRupees' = TopUpRupees
    BY <1>7, <2>1 DEF TopUpRupees
  <2> QED BY <1>1, <1>5, <1>9, <2>2
<1> QED BY <1>8, <1>9

LEMMA WalletStep == IInv /\ WInv /\ [Next]_vars => WInv'
<1> SUFFICES ASSUME IInv, WInv, [Next]_vars PROVE WInv' OBVIOUS
<1>1. ASSUME UNCHANGED wallet, TopUpRupees' = TopUpRupees PROVE WInv'
  BY <1>1 DEF WInv, WalletIsTopUps
<1>2. ASSUME NEW o \in Orders, NEW p \in Payments, Settle(o, p) PROVE WInv'
  <2>1. Claimable(o) /\ Claim(o, p)
    BY <1>2 DEF Settle
  <2>2. /\ order[o].amount \in Nat /\ \A i : <<o, i>> \notin TopUpRupees
        /\ TopUpRupees' = IF order[o].booking = None
                            THEN TopUpRupees \cup ({o} \X (1..order[o].amount))
                            ELSE TopUpRupees
    BY <2>1, RupeesOfSettlement
  <2>3. CASE CreditWallet(o)
    <3>1. wallet' = wallet + order[o].amount
      BY <2>3 DEF CreditWallet
    <3>2. TopUpRupees' = TopUpRupees \cup ({o} \X (1..order[o].amount))
      BY <2>2, <2>3 DEF CreditWallet
    <3> DEFINE added == TopUpRupees \cup ({o} \X (1..order[o].amount))
    <3>3. IsFiniteSet(added) /\ Cardinality(added) = Cardinality(TopUpRupees) + order[o].amount
      BY <2>2, RupeesAdded DEF WInv
    <3> HIDE DEF added
    <3>4. TopUpRupees' = added
      BY <3>2 DEF added
    <3> QED BY <3>1, <3>3, <3>4 DEF WInv, WalletIsTopUps
  <2>4. CASE LinkBooking(o) \/ KeepForReconciliation(o)
    <3>1. TopUpRupees' = TopUpRupees /\ UNCHANGED wallet
      BY <2>2, <2>4 DEF LinkBooking, KeepForReconciliation
    <3> QED BY <1>1, <3>1
  <2> QED BY <1>2, <2>3, <2>4 DEF Settle
<1>3. ASSUME NEW o \in Orders, NEW b, NEW amount, order[o].status = "none",
             order' = [order EXCEPT ![o] = NewOrder(b, amount)], UNCHANGED wallet
      PROVE  WInv'
  <2>1. \A q \in Orders : order'[q] = order[q] \/ (q = o /\ order'[q].status = "created")
    BY <1>3 DEF IInv, TypeOK, NewOrder
  <2>2. TopUps' = TopUps /\ \A q \in TopUps : order'[q] = order[q]
    BY <1>3, <2>1 DEF TopUps
  <2>3. TopUpRupees' = TopUpRupees
    BY <2>2 DEF TopUpRupees
  <2> QED BY <1>1, <1>3, <2>3
<1>4. CASE UNCHANGED <<order, wallet>>
  BY <1>1, <1>4 DEF TopUpRupees, TopUps
<1> QED BY <1>2, <1>3, <1>4, TableWrites DEF BookingMoves, payVars

\* The wallet is worth its paid top-ups to the rupee: a top-up that the app
\* verifies, verifies again and the webhook reports raises it once, a payment for
\* a booking never does.
THEOREM WalletKeepsTopUps == Spec => []WalletIsTopUps
<1>1. Init => WInv
  <2> SUFFICES ASSUME Init PROVE WInv OBVIOUS
  <2>1. TopUps = {}
    BY DEF Init, TopUps, NoOrder
  <2>2. TopUpRupees = {}
    BY <2>1 DEF TopUpRupees
  <2> QED BY <2>2, FS_EmptySet DEF Init, WInv, WalletIsTopUps
<1>2. WInv => WalletIsTopUps BY DEF WInv
<1> QED BY <1>1, <1>2, WalletStep, Invariance, PTL DEF Spec

-------------------------------------------------------------------------------
(* What holds when the development endpoints are off (NODE_ENV production) *)

Production == Endpoints \cap {"confirmBooking", "simulatedVerify"} = {}

\* A request on its way to a settlement carries a payment the provider captured
\* for its order, and no request runs a development endpoint.
CaptureChecked ==
  \A k \in Calls :
    /\ call[k].at \notin {"simulatedStore", "simulatedSettle", "simulatedReply"}
    /\ call[k].at \in {"settle", "webhookSettle"} =>
         ValidCapture(call[k].order, call[k].payment)

\* A request that answers about an order answers about a booking's order.
AnswersAboutBookings ==
  \A k \in Calls : call[k].at = "reply" => order[call[k].order].booking # None

PInv == CaptureChecked /\ OnlyCapturedMoney /\ AnswersAboutBookings /\ ConfirmedAnswersArePaid

LEMMA InitPInv == Init => PInv
BY DEF Init, PInv, CaptureChecked, OnlyCapturedMoney, AnswersAboutBookings,
       ConfirmedAnswersArePaid, Idle, NoOrder

\* The state a request may enter: one that has nothing checked yet, one that
\* carries a capture the provider confirmed, one that is about to answer for a
\* booking's order, or one of a development endpoint.
Enterable(c) ==
  \/ c.at \in {"idle", "store", "fetch"}
  \/ /\ c.at \in {"settle", "webhookSettle"}
     /\ c.order \in Orders /\ c.payment \in Payments
     /\ ValidCapture(c.order, c.payment)
  \/ /\ c.at = "reply"
     /\ c.order \in Orders /\ order[c.order].booking # None
  \/ /\ c.at \in {"simulatedStore", "simulatedSettle", "simulatedReply"}
     /\ ~ (Production /\ CaptureChecked)

LEMMA EnterableStates ==
  ASSUME IInv, NEW k \in Calls, Arrive(k) \/ Progress(k)
  PROVE  \E c : Enter(k, c) /\ Enterable(c)
<1>1. CASE Finish(k)
  <2>1. Enterable(Idle)
    BY DEF Enterable, Idle
  <2> QED BY <1>1, <2>1 DEF Finish
<1>2. ASSUME NEW b \in Bookings, CreateOrder(k, b) PROVE \E c : Enter(k, c) /\ Enterable(c)
  <2> DEFINE c == [Idle EXCEPT !.at = "store", !.booking = b, !.amount = booking[b].total]
  <2>1. Enterable(c)
    BY DEF Enterable, Idle
  <2>2. Enter(k, c)
    BY <1>2 DEF CreateOrder
  <2> HIDE DEF c
  <2> QED BY <2>1, <2>2
<1>3. ASSUME NEW a \in Amounts, AddMoney(k, a) PROVE \E c : Enter(k, c) /\ Enterable(c)
  <2> DEFINE c == [Idle EXCEPT !.at = "store", !.amount = a]
  <2>1. Enterable(c)
    BY DEF Enterable, Idle
  <2>2. Enter(k, c)
    BY <1>3 DEF AddMoney
  <2> HIDE DEF c
  <2> QED BY <2>1, <2>2
<1>4. ASSUME NEW b \in Bookings, ConfirmBooking(k, b) PROVE \E c : Enter(k, c) /\ Enterable(c)
  <2> DEFINE c == [Idle EXCEPT !.at = "simulatedStore", !.booking = b,
                               !.amount = booking[b].total]
  <2>1. ~ Production
    BY <1>4 DEF ConfirmBooking, Production
  <2>2. Enterable(c)
    BY <2>1 DEF Enterable, Idle
  <2>3. Enter(k, c)
    BY <1>4 DEF ConfirmBooking
  <2> HIDE DEF c
  <2> QED BY <2>2, <2>3
<1>5. ASSUME NEW o \in Orders, NEW p \in Payments, Verify(k, o, p)
      PROVE  \E c : Enter(k, c) /\ Enterable(c)
  <2> DEFINE c == [Idle EXCEPT !.at = "fetch", !.order = o, !.payment = p]
             d == [Idle EXCEPT !.at = "reply", !.order = o]
  <2>1. Enterable(c) /\ (order[o].booking # None => Enterable(d))
    BY DEF Enterable, Idle
  <2>2. Enter(k, c) \/ (order[o].booking # None /\ Enter(k, d))
    BY <1>5 DEF Verify
  <2> HIDE DEF c, d
  <2> QED BY <2>1, <2>2
<1>6. ASSUME NEW o \in Orders, NEW p \in Payments, SimulatedVerify(k, o, p)
      PROVE  \E c : Enter(k, c) /\ Enterable(c)
  <2> DEFINE c == [Idle EXCEPT !.at = "simulatedSettle", !.order = o, !.payment = p]
  <2>1. ~ Production
    BY <1>6 DEF SimulatedVerify, Production
  <2>2. Enterable(c)
    BY <2>1 DEF Enterable, Idle
  <2>3. Enter(k, c)
    BY <1>6 DEF SimulatedVerify
  <2> HIDE DEF c
  <2> QED BY <2>2, <2>3
<1>7. ASSUME NEW p \in Payments, ReceiveWebhook(k, p) PROVE \E c : Enter(k, c) /\ Enterable(c)
  <2> DEFINE c == [Idle EXCEPT !.at = "webhookSettle", !.order = charge[p].order, !.payment = p]
  <2>1. charge[p].order \in Orders /\ ValidCapture(charge[p].order, p)
    BY <1>7 DEF ReceiveWebhook, ValidCapture, IInv, ChargesSound
  <2>2. c.at = "webhookSettle" /\ c.order = charge[p].order /\ c.payment = p
    BY DEF Idle
  <2>3. Enter(k, c)
    BY <1>7 DEF ReceiveWebhook
  <2> HIDE DEF c
  <2>4. Enterable(c)
    BY <2>1, <2>2 DEF Enterable
  <2> QED BY <2>3, <2>4
<1>8. CASE ConfirmCaptured(k)
  <2> DEFINE c == [call[k] EXCEPT !.at = "settle"]
  <2>1. /\ call[k] \in CallState
        /\ call[k].order \in Orders /\ call[k].payment \in Payments
        /\ ValidCapture(call[k].order, call[k].payment)
    BY <1>8, Suspended DEF ConfirmCaptured, CallSound
  <2>2. c.at = "settle" /\ c.order = call[k].order /\ c.payment = call[k].payment
    BY <2>1 DEF CallState
  <2>3. Enter(k, c)
    BY <1>8 DEF ConfirmCaptured
  <2> HIDE DEF c
  <2>4. Enterable(c)
    BY <2>1, <2>2 DEF Enterable
  <2> QED BY <2>3, <2>4
<1>9. CASE SettleVerified(k)
  <2> DEFINE c == [Idle EXCEPT !.at = "reply", !.order = call[k].order]
  <2>1. call[k].order \in Orders
    BY <1>9, Suspended DEF SettleVerified, CallSound
  <2>2. c.at = "reply" /\ c.order = call[k].order
    BY DEF Idle
  <2>3. Finish(k) \/ (order[call[k].order].booking # None /\ Enter(k, c))
    BY <1>9 DEF SettleVerified
  <2> HIDE DEF c
  <2>4. order[call[k].order].booking # None => Enterable(c)
    BY <2>1, <2>2 DEF Enterable
  <2> QED BY <1>1, <2>3, <2>4
<1>10. ASSUME NEW o \in Orders, NEW p \in Payments, StoreSimulatedOrder(k, o, p)
       PROVE  \E c : Enter(k, c) /\ Enterable(c)
  <2> DEFINE c == [Idle EXCEPT !.at = "simulatedSettle", !.order = o, !.payment = p]
  <2>1. ~ CaptureChecked
    BY <1>10 DEF StoreSimulatedOrder, CaptureChecked
  <2>2. Enterable(c)
    BY <2>1 DEF Enterable, Idle
  <2>3. Enter(k, c)
    BY <1>10 DEF StoreSimulatedOrder
  <2> HIDE DEF c
  <2> QED BY <2>2, <2>3
<1>11. CASE SettleSimulated(k)
  <2> DEFINE c == [Idle EXCEPT !.at = "simulatedReply", !.order = call[k].order]
  <2>1. ~ CaptureChecked
    BY <1>11 DEF SettleSimulated, CaptureChecked
  <2>2. Enterable(c)
    BY <2>1 DEF Enterable, Idle
  <2>3. Enter(k, c)
    BY <1>11 DEF SettleSimulated
  <2> HIDE DEF c
  <2> QED BY <2>2, <2>3
<1>12. CASE Arrive(k)
  BY <1>2, <1>3, <1>4, <1>5, <1>6, <1>7, <1>12 DEF Arrive
<1>13. CASE Progress(k)
  BY <1>1, <1>8, <1>9, <1>10, <1>11, <1>13
     DEF Progress, StoreOrder, Reply, SettleWebhook, ReplySimulated, Abort
<1> QED BY <1>12, <1>13

\* What a step makes of a request.
LEMMA CallWrites ==
  ASSUME IInv, [Next]_vars, NEW k \in Calls
  PROVE  call'[k] = call[k] \/ Enterable(call'[k])
<1>1. call \in [Calls -> CallState]
  BY DEF IInv, TypeOK
<1>2. ASSUME NEW j \in Calls, NEW c, Enter(j, c), Enterable(c)
      PROVE  call'[k] = call[k] \/ Enterable(call'[k])
  BY <1>1, <1>2 DEF Enter
<1>3. UNCHANGED call \/ \E j \in Calls : Arrive(j) \/ Progress(j)
  BY DEF Next, vars, Capture, Authorize, BookingMoves, payVars
<1> QED BY <1>2, <1>3, EnterableStates

\* An order keeps its booking, and a booking stays paid for.
LEMMA PaidStaysPaid ==
  ASSUME IInv, [Next]_vars
  PROVE  /\ \A o \in Orders :
              order[o].booking # None => order'[o].booking = order[o].booking
         /\ \A b \in Bookings :
              booking[b].paymentStatus = "completed" => booking'[b].paymentStatus = "completed"
<1>1. /\ order \in [Orders -> OrderRow] /\ booking \in [Bookings -> BookingRow]
      /\ \A o \in Orders : order[o].status = "none" => order[o].booking = None
  BY DEF IInv, TypeOK, BookingTypeOK, OrdersSound, NoOrder
<1>2. ASSUME NEW o \in Orders, NEW p \in Payments, Settle(o, p)
      PROVE  /\ \A q \in Orders : order'[q].booking = order[q].booking
             /\ \A b \in Bookings :
                  booking[b].paymentStatus = "completed" => booking'[b].paymentStatus = "completed"
  <2>1. \A q \in Orders : order'[q].booking = order[q].booking
    BY <1>1, <1>2 DEF Settle, Claim, OrderRow
  <2>2. CASE UNCHANGED booking
    BY <2>1, <2>2
  <2>3. CASE LinkBooking(o)
    BY <2>1, <2>3, LinkSettles, SettlementTyped
  <2> QED BY <1>2, <2>2, <2>3 DEF Settle, CreditWallet, KeepForReconciliation
<1>3. ASSUME NEW o \in Orders, NEW b \in Bookings \cup {None}, NEW amount \in Amounts,
             order[o].status = "none", order' = [order EXCEPT ![o] = NewOrder(b, amount)]
      PROVE  \A q \in Orders : order[q].booking # None => order'[q].booking = order[q].booking
  BY <1>1, <1>3
<1>4. ASSUME NEW b \in Bookings, LifecycleMove(b)
      PROVE  \A c \in Bookings : booking'[c].paymentStatus = booking[c].paymentStatus
  BY <1>1, <1>4 DEF LifecycleMove, BookingRow
<1> QED BY <1>2, <1>3, <1>4, TableWrites DEF BookingMoves, payVars

LEMMA AnswersStep ==
  ASSUME IInv, AnswersAboutBookings, ConfirmedAnswersArePaid, CaptureChecked, [Next]_vars
  PROVE  AnswersAboutBookings' /\ ConfirmedAnswersArePaid'
<1>1. /\ call \in [Calls -> CallState]
      /\ told \in [Orders -> {"nothing", "confirmed", "reconciliation_required"}]
      /\ \A k \in Calls : CallSound(call[k])
      /\ \A o \in Orders : order[o].booking \in Bookings \cup {None}
  BY DEF IInv, TypeOK, CallsSound, OrderRow
<1>2. ASSUME NEW k \in Calls, call'[k].at = "reply"
      PROVE  order'[call'[k].order].booking # None
  <2>1. /\ call'[k].order \in Orders /\ order[call'[k].order].booking # None
    BY <1>1, <1>2, CallWrites DEF AnswersAboutBookings, CallSound, Enterable
  <2> QED BY <2>1, PaidStaysPaid, NoneAssumption
<1>3. ASSUME NEW o \in Orders, told'[o] = "confirmed"
      PROVE  /\ order'[o].booking # None
             /\ booking'[order'[o].booking].paymentStatus = "completed"
  <2>1. /\ order[o].booking # None
        /\ booking[order[o].booking].paymentStatus = "completed"
    <3>1. CASE told'[o] = told[o]
      BY <1>3, <3>1 DEF ConfirmedAnswersArePaid
    <3>2. ASSUME NEW k \in Calls, Reply(k), told'[o] # told[o]
          PROVE  order[o].booking # None
                 /\ booking[order[o].booking].paymentStatus = "completed"
      <4>1. o = call[k].order /\ Answer(order[o].booking) = "confirmed"
        BY <1>1, <1>3, <3>2 DEF Reply, CallSound
      <4> QED BY <3>2, <4>1 DEF Reply, Answer, BookingPaymentConfirmed, AnswersAboutBookings
    <3>3. ASSUME told'[o] # told[o] PROVE \E k \in Calls : Reply(k)
      BY <3>3 DEF Next, vars, Arrive, CreateOrder, ConfirmBooking, AddMoney, Verify,
           SimulatedVerify, ReceiveWebhook, Progress, StoreOrder, ConfirmCaptured,
           SettleVerified, SettleWebhook, StoreSimulatedOrder, SettleSimulated,
           ReplySimulated, Abort, Capture, Authorize, BookingMoves, payVars, CaptureChecked
    <3> QED BY <3>1, <3>2, <3>3
  <2>2. order[o].booking \in Bookings
    BY <1>1, <2>1
  <2> QED BY <2>1, <2>2, PaidStaysPaid
<1> QED BY <1>2, <1>3 DEF AnswersAboutBookings, ConfirmedAnswersArePaid

LEMMA CaptureStep ==
  ASSUME IInv, Production, CaptureChecked, OnlyCapturedMoney, [Next]_vars
  PROVE  CaptureChecked' /\ OnlyCapturedMoney'
<1>1. /\ call \in [Calls -> CallState] /\ order \in [Orders -> OrderRow]
      /\ charge \in [Payments -> Charge]
      /\ \A k \in Calls : CallSound(call[k])
  BY DEF IInv, TypeOK, CallsSound
<1>2. \A k \in Calls : ~ SettleSimulated(k) /\ ~ ReplySimulated(k) /\
        \A o \in Orders, p \in Payments : ~ StoreSimulatedOrder(k, o, p)
  BY DEF CaptureChecked, SettleSimulated, ReplySimulated, StoreSimulatedOrder
<1>3. \A o \in Orders, p \in Payments : ValidCapture(o, p) => ValidCapture(o, p)'
  <2>1. CASE UNCHANGED charge
    BY <2>1 DEF ValidCapture
  <2>2. CASE \E p \in Payments : Capture(p) \/ \E o \in Orders : Authorize(p, o)
    BY <1>1, <2>2 DEF Capture, Authorize, ValidCapture, Charge
  <2> QED BY <1>2, <2>1, <2>2 DEF Next, vars, Arrive, CreateOrder, ConfirmBooking, AddMoney,
           Verify, SimulatedVerify, ReceiveWebhook, Progress, StoreOrder, ConfirmCaptured,
           SettleVerified, Reply, SettleWebhook, Abort, BookingMoves, payVars
<1>4. ASSUME NEW k \in Calls
      PROVE  /\ call'[k].at \notin {"simulatedStore", "simulatedSettle", "simulatedReply"}
             /\ call'[k].at \in {"settle", "webhookSettle"} =>
                  /\ call'[k].order \in Orders /\ call'[k].payment \in Payments
                  /\ ValidCapture(call'[k].order, call'[k].payment)
  BY <1>1, CallWrites DEF CaptureChecked, CallSound, Enterable
<1>5. CaptureChecked'
  BY <1>3, <1>4 DEF CaptureChecked, ValidCapture
<1>6. ASSUME NEW o \in Orders, order'[o].status = "paid"
      PROVE  order'[o].payment \in Payments /\ ValidCapture(o, order'[o].payment)
  <2>1. CASE order'[o] = order[o]
    BY <1>6, <2>1 DEF OnlyCapturedMoney, IInv, OrdersSound
  <2>2. ASSUME NEW k \in Calls, SettleVerified(k) \/ SettleWebhook(k), order'[o] # order[o]
        PROVE  order'[o].payment \in Payments /\ ValidCapture(o, order'[o].payment)
    BY <1>1, <2>2 DEF SettleVerified, SettleWebhook, Settle, AlreadySettled, Claim,
         CaptureChecked, CallSound, OrderRow
  <2>3. ASSUME NEW k \in Calls, NEW q \in Orders, StoreOrder(k, q) PROVE order'[o] = order[o]
    BY <1>1, <1>6, <2>3 DEF StoreOrder, NewOrder
  <2>4. ASSUME order'[o] # order[o]
        PROVE  \E k \in Calls : \/ SettleVerified(k) \/ SettleWebhook(k)
                                \/ \E q \in Orders : StoreOrder(k, q)
    BY <1>2, <2>4 DEF Next, vars, Arrive, CreateOrder, ConfirmBooking, AddMoney, Verify,
         SimulatedVerify, ReceiveWebhook, Progress, ConfirmCaptured, Reply, Abort, Capture,
         Authorize, BookingMoves, payVars
  <2> QED BY <2>1, <2>2, <2>3, <2>4
<1>7. OnlyCapturedMoney'
  BY <1>3, <1>6 DEF OnlyCapturedMoney, ValidCapture
<1> QED BY <1>5, <1>7

\* Every step keeps the production invariant.
LEMMA NextPInv == Production /\ IInv /\ PInv /\ [Next]_vars => PInv'
BY AnswersStep, CaptureStep DEF PInv

\* With the development endpoints off, an order is paid only by a payment the
\* provider captured for it: a signature alone, which every request before the
\* provider's answer carries, settles nothing.
THEOREM NoMoneyOnSignature ==
  ASSUME Production PROVE Spec => []OnlyCapturedMoney
<1>1. PInv => OnlyCapturedMoney BY DEF PInv
<1>2. IInv /\ PInv /\ [Next]_vars => PInv' BY NextPInv
<1> QED BY <1>1, <1>2, InitPInv, Invariance, PTL DEF Spec

\* With the development endpoints off, an order that was answered "confirmed" is
\* for a booking whose payment is completed, at the answer and ever after.
THEOREM NoFalseConfirmation ==
  ASSUME Production PROVE Spec => []ConfirmedAnswersArePaid
<1>1. PInv => ConfirmedAnswersArePaid BY DEF PInv
<1>2. IInv /\ PInv /\ [Next]_vars => PInv' BY NextPInv
<1> QED BY <1>1, <1>2, InitPInv, Invariance, PTL DEF Spec

-------------------------------------------------------------------------------
(* Payment implements Settlement *)

\* The abstract variables.
bills == [o \in Orders |-> Bill(o)]
buyers == [b \in Bookings |-> Buyer(b)]
putAside == {o \in Orders : ledger[o] # << >> /\ ledger[o][1].status = "pending"}

LEMMA InitImplements == Init => Abstract!Init
<1> SUFFICES ASSUME Init PROVE Abstract!Init OBVIOUS
<1>1. bills = [o \in Orders |-> Abstract!NoBill]
  BY DEF Init, bills, Bill, NoOrder, Abstract!NoBill
<1>2. buyers = [b \in Bookings |-> None]
  BY DEF Init, buyers, Buyer, PaidFor
<1>3. putAside = {} /\ wallet = 0
  BY DEF Init, putAside
<1> QED BY <1>1, <1>2, <1>3 DEF Abstract!Init, bills, buyers, putAside

\* A settlement pays one bill and leaves the others alone.
LEMMA BillPaid ==
  ASSUME IInv, NEW o \in Orders, NEW p \in Payments, Settle(o, p)
  PROVE  /\ Abstract!PayBill(o, p)
         /\ bills[o].purpose = order[o].booking /\ bills[o].amount = order[o].amount
<1>1. /\ order \in [Orders -> OrderRow]
      /\ order[o].status = "created" /\ order[o].payment = None
      /\ order[o].amount \in Amounts /\ order[o].amount # None
  BY NoneAssumption DEF IInv, TypeOK, OrdersSound, Settle, Claimable
<1>2. /\ \A q \in Orders : order'[q].booking = order[q].booking
                           /\ order'[q].amount = order[q].amount
      /\ \A q \in Orders : order'[q].payment = IF q = o THEN p ELSE order[q].payment
  BY <1>1 DEF Settle, Claim, OrderRow
<1>3. bills' = [bills EXCEPT ![o].paidBy = p]
  BY <1>2 DEF bills, Bill
<1>4. /\ bills[o].purpose = order[o].booking /\ bills[o].amount = order[o].amount
      /\ bills[o].paidBy = None
  BY <1>1 DEF bills, Bill
<1> QED BY <1>1, <1>3, <1>4 DEF Abstract!PayBill, bills

\* A buyer depends on the set of paying orders alone; a single one is the buyer.
LEMMA BuyerOf ==
  ASSUME NEW b \in Bookings
  PROVE  /\ PaidFor(b) = {} => Buyer(b) = None
         /\ PaidFor(b)' = PaidFor(b) => Buyer(b)' = Buyer(b)
         /\ \A o \in Orders : PaidFor(b)' = {o} => Buyer(b)' = o
<1> DEFINE Only(S) == IF S = {} THEN None ELSE CHOOSE o \in S : TRUE
<1>1. Buyer(b) = Only(PaidFor(b)) /\ Buyer(b)' = Only(PaidFor(b)')
  BY DEF Buyer
<1>2. Only({}) = None
  OBVIOUS
<1>3. \A o \in Orders : Only({o}) = o
  OBVIOUS
<1> HIDE DEF Only
<1> QED BY <1>1, <1>2, <1>3

LEMMA SettleImplements ==
  ASSUME IInv, NEW o \in Orders, NEW p \in Payments, Settle(o, p)
  PROVE  Abstract!TopUp(o, p) \/ Abstract!Buy(o, p) \/ Abstract!PutAside(o, p)
<1>1. Claimable(o) /\ Claim(o, p) /\ ledger[o] = << >>
  BY DEF Settle, IInv, SettledOnce, Claimable
<1>2. /\ Abstract!PayBill(o, p)
      /\ bills[o].purpose = order[o].booking /\ bills[o].amount = order[o].amount
  BY BillPaid
<1>3. ASSUME NEW s \in {"completed", "pending"}, Record(o, p, s)
      PROVE  /\ putAside' = IF s = "pending" THEN putAside \cup {o} ELSE putAside
             /\ \A b \in Bookings :
                  PaidFor(b)' = IF s = "completed" /\ order[o].booking = b
                                  THEN PaidFor(b) \cup {o} ELSE PaidFor(b)
  <2>1. /\ Len(ledger'[o]) = 1 /\ ledger'[o][1].status = s
        /\ \A b \in Bookings :
             PaidFor(b)' = IF s = "completed" /\ order[o].booking = b
                             THEN PaidFor(b) \cup {o} ELSE PaidFor(b)
    BY <1>1, <1>3, OrderClaimed
  <2>2. /\ ledger'[o] # << >>
        /\ \A q \in Orders \ {o} : ledger'[q] = ledger[q]
    BY <1>3, <2>1 DEF Record, IInv, TypeOK
  <2>3. putAside' = IF s = "pending" THEN putAside \cup {o} ELSE putAside
    BY <1>1, <2>1, <2>2 DEF putAside
  <2> QED BY <2>1, <2>3
<1>4. CASE CreditWallet(o) /\ Record(o, p, "completed")
  <2>1. putAside' = putAside /\ \A b \in Bookings : PaidFor(b)' = PaidFor(b)
    BY <1>3, <1>4, NoneAssumption DEF CreditWallet
  <2>2. buyers' = buyers
    BY <2>1, BuyerOf DEF buyers
  <2>3. bills[o].purpose = None /\ wallet' = wallet + bills[o].amount
    BY <1>2, <1>4 DEF CreditWallet
  <2> QED BY <1>2, <2>1, <2>2, <2>3 DEF Abstract!TopUp, bills, buyers, putAside
<1>5. CASE LinkBooking(o) /\ Record(o, p, "completed")
  <2> DEFINE b == order[o].booking
  <2>1. b \in Bookings /\ PaidFor(b) = {} /\ b # None
    BY <1>5, LinkSettles DEF LinkBooking
  <2>2. /\ putAside' = putAside
        /\ \A c \in Bookings : PaidFor(c)' = IF c = b THEN {o} ELSE PaidFor(c)
    BY <1>3, <1>5, <2>1
  <2>3. buyers[b] = None
    BY <2>1, BuyerOf DEF buyers
  <2>4. buyers' = [buyers EXCEPT ![b] = o]
    BY <2>1, <2>2, BuyerOf DEF buyers
  <2>5. wallet' = wallet
    BY <1>5 DEF LinkBooking
  <2> QED BY <1>2, <2>1, <2>2, <2>3, <2>4, <2>5 DEF Abstract!Buy, bills, buyers, putAside
<1>6. CASE KeepForReconciliation(o) /\ Record(o, p, "pending")
  <2>1. putAside' = putAside \cup {o} /\ \A b \in Bookings : PaidFor(b)' = PaidFor(b)
    BY <1>3, <1>6
  <2>2. buyers' = buyers
    BY <2>1, BuyerOf DEF buyers
  <2>3. bills[o].purpose # None /\ wallet' = wallet
    BY <1>2, <1>6 DEF KeepForReconciliation
  <2> QED BY <1>2, <2>1, <2>2, <2>3 DEF Abstract!PutAside, bills, buyers, putAside
<1> QED BY <1>4, <1>5, <1>6 DEF Settle

LEMMA OrderImplements ==
  ASSUME IInv, NEW o \in Orders, NEW b \in Bookings \cup {None}, NEW amount \in Amounts,
         UNCHANGED <<booking, ledger, wallet>>, order[o].status = "none",
         order' = [order EXCEPT ![o] = NewOrder(b, amount)]
  PROVE  Abstract!Open(o, b, amount)
<1>1. /\ order \in [Orders -> OrderRow] /\ order[o] = NoOrder /\ ledger[o] = << >>
      /\ order'[o] = NewOrder(b, amount)
      /\ \A q \in Orders \ {o} : order'[q] = order[q]
  BY DEF IInv, TypeOK, OrdersSound, SettledOnce
<1>2. bills[o] = Abstract!NoBill
  BY <1>1 DEF bills, Bill, NoOrder, Abstract!NoBill
<1>3. bills' = [bills EXCEPT ![o] = [purpose |-> b, amount |-> amount, paidBy |-> None]]
  BY <1>1 DEF bills, Bill, NewOrder
<1>4. putAside' = putAside
  BY DEF putAside
<1>5. \A c \in Bookings : PaidFor(c)' = PaidFor(c)
  BY <1>1 DEF PaidFor
<1>6. buyers' = buyers
  BY <1>5, BuyerOf DEF buyers
<1> QED BY <1>2, <1>3, <1>4, <1>6 DEF Abstract!Open, bills, buyers, putAside

LEMMA StepImplements ==
  IInv /\ [Next]_vars => [Abstract!Next]_<<bills, buyers, putAside, wallet>>
<1> SUFFICES ASSUME IInv, [Next]_vars
             PROVE  [Abstract!Next]_<<bills, buyers, putAside, wallet>>
  OBVIOUS
<1>1. CASE \E o \in Orders, p \in Payments : Settle(o, p)
  BY <1>1, SettleImplements DEF Abstract!Next
<1>2. CASE /\ UNCHANGED <<booking, ledger, wallet>>
           /\ \E o \in Orders, b \in Bookings \cup {None}, amount \in Amounts :
                /\ order[o].status = "none"
                /\ order' = [order EXCEPT ![o] = NewOrder(b, amount)]
  BY <1>2, OrderImplements DEF Abstract!Next
<1>3. CASE UNCHANGED <<order, ledger, wallet>>
  BY <1>3 DEF bills, Bill, buyers, Buyer, PaidFor, putAside
<1> QED BY <1>1, <1>2, <1>3, TableWrites DEF BookingMoves, payVars

\* Payment implements Settlement: whatever its requests do, and in whatever
\* order, a bill is paid once and a booking is bought by one bill for good.
THEOREM Implements == Spec => ImplementsSettlement
<1> QED BY InitImplements, StepImplements, Invariance, PTL
        DEF Spec, ImplementsSettlement, Abstract!Spec, bills, buyers, putAside
===============================================================================
