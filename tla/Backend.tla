-------------------------------- MODULE Backend --------------------------------
(***************************************************************************)
(* PaymentService and the handlers of a booking's life on the one table    *)
(* they share.  Payment and Booking are each checked with an environment   *)
(* in the place of the other; here the handlers themselves interleave, and *)
(* the theorems say that each module's account of the other was right.     *)
(***************************************************************************)
EXTENDS CustomerDb, TLAPS

CONSTANTS Orders, Payments, Calls, Endpoints,  \* of Payment
          Requests, Ops, Incoming,             \* of Booking
          None

VARIABLES
  order, ledger, wallet, call, told, charge,            \* of Payment
  session, conv, dispute, started, posted, admin, req   \* of Booking

Pay == INSTANCE PaymentProofs
Life == INSTANCE BookingProofs

\* The assumptions of both modules.
ASSUME PaymentAssumption ==
  /\ Endpoints \subseteq Pay!AllEndpoints
  /\ None \notin Bookings /\ None \notin Orders
  /\ None \notin Payments /\ None \notin Amounts
ASSUME BookingAssumption ==
  /\ Ops \subseteq Life!AllOps /\ "pay" \in Ops
  /\ None \notin Incoming /\ None \notin BookingStatus
  /\ Lifecycle = BookingStatus \ {"confirmed"}

vars == <<booking, order, ledger, wallet, call, told, charge,
          session, conv, dispute, started, posted, admin, req>>

Init == Pay!Init /\ Life!Init

\* PaymentService sends no notification, and the last one is forgotten when it
\* writes a booking.
Aside ==
  /\ posted' = IF booking' = booking THEN posted ELSE Life!Quiet
  /\ UNCHANGED <<session, conv, dispute, started, admin, req>>

\* A step of PaymentService, of its provider or of the app.
PaymentStep ==
  /\ \/ \E k \in Calls : Pay!Arrive(k) \/ Pay!Progress(k)
     \/ \E p \in Payments : Pay!Capture(p) \/ \E o \in Orders : Pay!Authorize(p, o)
  /\ Aside

\* A step of BookingService, SessionService, ChatService or of a callback.
BookingStep ==
  /\ \/ \E r \in Requests : Life!Proceed(r) \/ Life!Abort(r)
     \/ \E r \in Requests, b \in Bookings : Life!Arrive(r, b)
  /\ UNCHANGED <<order, ledger, wallet, call, told, charge>>

Next == PaymentStep \/ BookingStep

Spec == Init /\ [][Next]_vars

\* PaymentService's requests finish or fail (Node schedules every pending promise,
\* provider calls time out).  The provider repeats a webhook that was not
\* acknowledged, and not every repetition of it meets a crash.  Nothing is assumed
\* of the booking handlers, which may stop anywhere.
WebhookFairness(p) ==
  /\ SF_vars(\E k \in Calls : Pay!ReceiveWebhook(k, p) /\ Aside)
  /\ SF_vars(\E k \in Calls : call[k].payment = p /\ Pay!SettleWebhook(k) /\ Aside)

FairSpec ==
  /\ Spec
  /\ \A k \in Calls : WF_vars(Pay!Progress(k) /\ Aside)
  /\ \A p \in Payments : WebhookFairness(p)
-------------------------------------------------------------------------------
(* Properties of both together *)

\* Seen by itself, each service runs as its own module says, although its
\* environment is the other service here and an assumption there: nobody but
\* PaymentService confirms a booking or writes its payment status, and nothing a
\* settlement does is more than the payment Booking allows for.  Whatever holds of
\* either module therefore holds of the two together.
RefinesBoth == Pay!Spec /\ Life!Spec

\* Whoever's order bought a booking holds the pass its check-in asks for, whatever
\* became of the booking: the money is PaymentService's, the pass the callback's.
BuyerHasPass ==
  \A o \in Orders, b \in Bookings : o \in Pay!PaidFor(b) => session[b].pass

\* "A delayed capture must never reopen a cancelled/completed booking": next to the
\* real cancellations, check-ins and modifications, which can pass the
\* settlement at every await.
CaptureNeverReopens == Pay!CaptureNeverReopens

\* Money is credited for captures only, never for a signature: a payment that was
\* captured for an order stays so whatever becomes of its booking.
OnlyCapturedMoney == Pay!OnlyCapturedMoney

\* Whoever was answered "confirmed" has paid, and no cancellation, modification or
\* check-in that read the booking before takes the payment back.
ConfirmedAnswersArePaid == Pay!ConfirmedAnswersArePaid

\* A captured payment is recorded in the end, even where the booking it was meant
\* for was cancelled, modified or started before the webhook came; the one exception
\* is a second payment of an order that another captured payment has paid.
CapturedIsRecorded == Pay!CapturedIsRecorded

-------------------------------------------------------------------------------
(* A claim of the repository that the code does not keep                   *)

\* A cancellation that requires a refund leaves the booking active (support FAQ
\* f6, and the error that cancelBooking throws), with the real settlement in the
\* place of Booking's payment.
RefundKeepsBooking == Life!RefundKeepsBooking
-------------------------------------------------------------------------------
(***************************************************************************)
(* Proofs.  A step of either service is, for the other, a step of its      *)
(* environment: given the invariant of the service that takes the step,    *)
(* it settles one booking, or moves one without confirming it.  So each    *)
(* invariant is kept by its own module's proof.                            *)
(***************************************************************************)

IInv == Pay!IInv /\ Life!SInv

\* What the two modules assume of the constants.
LEMMA PaymentConstants ==
  /\ Amounts \subseteq Nat \ {0}
  /\ Lifecycle \subseteq Pay!BookingStatus \ {"confirmed"}
  /\ Endpoints \subseteq Pay!AllEndpoints
  /\ None \notin Bookings /\ None \notin Orders
  /\ None \notin Payments /\ None \notin Amounts
BY AmountsAssumption, LifecycleAssumption, PaymentAssumption DEF BookingStatus, Pay!BookingStatus

LEMMA BookingConstants ==
  /\ Amounts \subseteq Nat \ {0}
  /\ Lifecycle \subseteq Life!BookingStatus \ {"confirmed"}
  /\ Ops \subseteq Life!AllOps
  /\ None \notin Bookings /\ None \notin Amounts
  /\ None \notin Incoming /\ None \notin Life!BookingStatus
  /\ Lifecycle = Life!BookingStatus \ {"confirmed"}
BY AmountsAssumption, LifecycleAssumption, PaymentAssumption, BookingAssumption
   DEF BookingStatus, Life!BookingStatus

\* The contract's steps are the same for both.
LEMMA SameMoves ==
  ASSUME NEW b \in Bookings
  PROVE  /\ Pay!SettlementMove(b) => Life!SettlementMove(b)
         /\ Life!LifecycleMove(b) => Pay!LifecycleMove(b)
BY DEF Pay!SettlementMove, Life!SettlementMove, Pay!Settleable, Life!Settleable,
       Pay!Settled, Life!Settled, Pay!LifecycleMove, Life!LifecycleMove

\* To Booking, a step of PaymentService is a payment, or nothing.
LEMMA PaymentStepIsPay ==
  ASSUME IInv, PaymentStep
  PROVE  [Pay!Next]_(Pay!vars) /\ [Life!Next]_(Life!vars)
<1>1. Pay!Next
  BY DEF PaymentStep, Pay!Next
<1>2. UNCHANGED booking \/ \E b \in Bookings : Pay!SettlementMove(b)
  BY Pay!OwnStepsSettle, PaymentConstants DEF PaymentStep, IInv
<1>3. CASE UNCHANGED booking
  BY <1>1, <1>3 DEF PaymentStep, Aside, Life!vars
<1>4. ASSUME NEW b \in Bookings, Pay!SettlementMove(b), booking' # booking PROVE Life!Next
  <2>1. Life!Pay(b)
    BY <1>4, SameMoves, BookingAssumption
       DEF PaymentStep, Aside, Life!Pay, Life!Silent
  <2> QED BY <2>1 DEF Life!Next
<1> QED BY <1>1, <1>2, <1>3, <1>4

\* To PaymentService, a step of Booking's handlers is a move of the rest of the
\* backend, or nothing.
LEMMA BookingStepIsMove ==
  ASSUME IInv, BookingStep
  PROVE  [Pay!Next]_(Pay!vars) /\ [Life!Next]_(Life!vars)
<1>1. Life!Next
  BY DEF BookingStep, Life!Next
<1>2. UNCHANGED booking \/ \E b \in Bookings : Life!LifecycleMove(b)
  BY Life!HandlerMoves, BookingConstants
     DEF BookingStep, IInv, Life!SInv
<1>3. CASE UNCHANGED booking
  BY <1>1, <1>3 DEF BookingStep, Pay!vars
<1>4. ASSUME NEW b \in Bookings, Life!LifecycleMove(b) PROVE Pay!Next
  <2>1. Pay!BookingMoves(b)
    BY <1>4, SameMoves DEF BookingStep, Pay!BookingMoves, Pay!payVars
  <2> QED BY <2>1 DEF Pay!Next
<1> QED BY <1>1, <1>2, <1>3, <1>4

\* Every step of the two together is a step, or none, of each.
LEMMA StepsOfBoth ==
  IInv /\ [Next]_vars => [Pay!Next]_(Pay!vars) /\ [Life!Next]_(Life!vars)
<1>1. UNCHANGED vars => UNCHANGED Pay!vars /\ UNCHANGED Life!vars
  BY DEF vars, Pay!vars, Life!vars
<1> QED BY <1>1, PaymentStepIsPay, BookingStepIsMove DEF Next

LEMMA InitIInv == Init => IInv
<1>1. Pay!Init => Pay!IInv
  BY Pay!InitIInv, PaymentConstants
<1>2. Life!Init => Life!SInv
  BY Life!InitSInv, BookingConstants
<1> QED BY <1>1, <1>2 DEF Init, IInv

LEMMA NextIInv == IInv /\ [Next]_vars => IInv'
<1> SUFFICES ASSUME IInv, [Next]_vars PROVE IInv' OBVIOUS
<1>1. [Pay!Next]_(Pay!vars) /\ [Life!Next]_(Life!vars)
  BY StepsOfBoth
<1>2. Pay!IInv'
  BY <1>1, Pay!NextIInv, PaymentConstants DEF IInv
<1>3. Life!SInv'
  BY <1>1, Life!NextSInv, BookingConstants DEF IInv
<1> QED BY <1>2, <1>3 DEF IInv

\* The invariants of both modules hold while their handlers interleave.
THEOREM Invariance == Spec => []IInv
<1> QED BY InitIInv, NextIInv, PTL DEF Spec

\* What PaymentService and Booking each take the other to do is what it does: the
\* two together run, seen from either, as that module says.
THEOREM Composition == Spec => RefinesBoth
<1>1. Init => Pay!Init /\ Life!Init
  BY DEF Init
<1>2. Spec => Pay!Spec
  BY <1>1, StepsOfBoth, Invariance, PTL DEF Spec, Pay!Spec
<1>3. Spec => Life!Spec
  BY <1>1, StepsOfBoth, Invariance, PTL DEF Spec, Life!Spec
<1> QED BY <1>2, <1>3 DEF RefinesBoth

\* A booking that somebody's order bought has a session with a pass code, for good:
\* PaymentService's ledger row and SessionService's row stand and fall together.
THEOREM BuyersCanCheckIn == Spec => []BuyerHasPass
<1>1. IInv => BuyerHasPass
  <2> SUFFICES ASSUME IInv, NEW o \in Orders, NEW b \in Bookings, o \in Pay!PaidFor(b)
               PROVE  session[b].pass
    BY DEF BuyerHasPass
  <2>1. booking[b].paymentStatus = "completed"
    BY DEF IInv, Pay!IInv, Pay!BoughtOnce
  <2> QED BY <2>1 DEF IInv, Life!SInv, Life!IInv, Life!AcceptedHasPass
<1> QED BY <1>1, Invariance, PTL

\* No capture, however late, reopens a booking that the customer or the companion
\* closed, or buys one at a price it no longer has.
THEOREM NeverReopened == Spec => CaptureNeverReopens
<1>1. Pay!Spec => Pay!CaptureNeverReopens
  BY Pay!NeverReopened, PaymentConstants
<1> QED BY <1>1, Composition, PTL DEF RefinesBoth, CaptureNeverReopens

\* With the development endpoints off, a paid order was paid by a payment captured
\* for it, for good.
THEOREM NoMoneyOnSignature ==
  ASSUME Pay!Production PROVE Spec => []OnlyCapturedMoney
<1>1. Pay!Spec => []Pay!OnlyCapturedMoney
  BY Pay!NoMoneyOnSignature, PaymentConstants
<1> QED BY <1>1, Composition, PTL DEF RefinesBoth, OnlyCapturedMoney

\* With the development endpoints off, an order that was answered "confirmed" is
\* for a booking whose payment is completed, whatever the booking handlers write.
THEOREM NoFalseConfirmation ==
  ASSUME Pay!Production PROVE Spec => []ConfirmedAnswersArePaid
<1>1. Pay!Spec => []Pay!ConfirmedAnswersArePaid
  BY Pay!NoFalseConfirmation, PaymentConstants
<1> QED BY <1>1, Composition, PTL DEF RefinesBoth, ConfirmedAnswersArePaid
===============================================================================
