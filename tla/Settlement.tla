------------------------------ MODULE Settlement ------------------------------
(***************************************************************************)
(* What PaymentService promises, without requests, deliveries or rows: a   *)
(* bill is opened with a fixed purpose and amount and is paid at most      *)
(* once.  Paying a top-up raises the wallet; paying for a booking buys it, *)
(* unless it cannot be bought any more, and then the money is put aside.   *)
(* A booking is bought by one bill for good.                               *)
(***************************************************************************)
EXTENDS Naturals

CONSTANTS Bookings, Amounts, Orders, Payments, None

VARIABLES bill,     \* bill[o]: purpose, amount and payment of bill o
          bought,   \* bought[b]: the bill that bought booking b
          aside,    \* the bills whose money was put aside
          wallet

NoBill == [purpose |-> None, amount |-> None, paidBy |-> None]

Init ==
  /\ bill = [o \in Orders |-> NoBill]
  /\ bought = [b \in Bookings |-> None]
  /\ aside = {}
  /\ wallet = 0

Open(o, purpose, amount) ==
  /\ bill[o] = NoBill
  /\ bill' = [bill EXCEPT ![o] = [purpose |-> purpose, amount |-> amount, paidBy |-> None]]
  /\ UNCHANGED <<bought, aside, wallet>>

PayBill(o, p) ==
  /\ bill[o].amount # None /\ bill[o].paidBy = None
  /\ bill' = [bill EXCEPT ![o].paidBy = p]

TopUp(o, p) ==
  /\ PayBill(o, p)
  /\ bill[o].purpose = None
  /\ wallet' = wallet + bill[o].amount
  /\ UNCHANGED <<bought, aside>>

Buy(o, p) ==
  /\ PayBill(o, p)
  /\ bill[o].purpose # None
  /\ bought[bill[o].purpose] = None
  /\ bought' = [bought EXCEPT ![bill[o].purpose] = o]
  /\ UNCHANGED <<aside, wallet>>

PutAside(o, p) ==
  /\ PayBill(o, p)
  /\ bill[o].purpose # None
  /\ aside' = aside \cup {o}
  /\ UNCHANGED <<bought, wallet>>

Next ==
  \E o \in Orders :
    \/ \E purpose \in Bookings \cup {None}, amount \in Amounts : Open(o, purpose, amount)
    \/ \E p \in Payments : TopUp(o, p) \/ Buy(o, p) \/ PutAside(o, p)

Spec == Init /\ [][Next]_<<bill, bought, aside, wallet>>
===============================================================================
