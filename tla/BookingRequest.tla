----------------------------- MODULE BookingRequest -----------------------------
(***************************************************************************)
(* createBooking: a customer's tap is priced, checked against the taken    *)
(* slots of the companion and against the customer's own open requests,    *)
(* stored and dispatched to the Companion Backend.  Every query and every  *)
(* remote call is a step; the table has no constraint that would stop two  *)
(* taps from passing the same check.  Afterwards a modification writes new *)
(* terms into the row, and the acceptance of a counter-offer the           *)
(* companion's start.                                                      *)
(*                                                                         *)
(* A slot is what the look-ups compare: companion, start and the displayed *)
(* time as text.  "steady" is a history variable: the rows that nobody has *)
(* written since the tap arrived, or stored them.                          *)
(***************************************************************************)
EXTENDS Integers

CONSTANTS Customers, Companions,
          Starts,        \* hours of the day at which a booking starts
          Displays,      \* displayed times the apps send
          Offers,        \* starts that companions propose in a counter-offer
          ServerOffset,  \* hours by which the server's clock is ahead of the customer's
          ServerShows,   \* how the server displays such a start, on its own clock
          Rates, Hours,  \* published hourly rates, durations that are asked for
          Multipliers,   \* activity multipliers, in per cent
          Moves,         \* status changes made by the rest of the backend
          Requests,      \* taps in flight at once
          MaxRows,       \* bound on the rows ever stored
          None

Rows == 1..MaxRows

Status == {"pending", "counter_proposed", "accepted", "confirmed", "in_progress",
           "completed", "cancelled", "declined", "disputed"}
Half == {"AM", "PM", "none"}
Time == [hour : 0..23, half : Half]

ASSUME NoneAssumption == None \notin Rows /\ None \notin Customers
ASSUME MaxRowsAssumption == MaxRows \in Nat
ASSUME DisplaysAssumption == Displays \subseteq Time
ASSUME StartsAssumption == Starts \subseteq 0..23 /\ Offers \subseteq 0..23
ASSUME MovesAssumption == Moves \subseteq Status \X Status
ASSUME RatesAssumption == Rates \subseteq Nat /\ Hours \subseteq Nat /\ Multipliers \subseteq Nat

\* The hour of the day that a displayed time names to whoever reads it.
ReadAs(d) ==
  IF d.half = "none" THEN d.hour ELSE (d.hour % 12) + (IF d.half = "PM" THEN 12 ELSE 0)

\* toLocaleTimeString without a time zone: the hour on the server's clock, in the
\* server's locale (external).
ASSUME ServerAssumption ==
  /\ ServerOffset \in 0..23
  /\ ServerShows \in [Offers -> Time]
  /\ \A s \in Offers : ReadAs(ServerShows[s]) = (s + ServerOffset) % 24

VARIABLES row,      \* customer_bookings
          notified, \* bookings whose customer has a "Booking Request Sent" row
          offered,  \* bookings the Companion Backend has received (external)
          req,      \* taps in flight
          steady    \* steady[r]: rows not moved since tap r arrived

vars == <<row, notified, offered, req, steady>>

\* What a tap asks for, and what a row says in the same columns.
Want == [customer : Customers, companion : Companions, start : Starts, display : Displays]
Terms == [customer : Customers, companion : Companions, start : 0..23, display : Time]
Price == [base : Nat, total : Nat]
NoPrice == [base |-> 0, total |-> 0]
NoRow == [status |-> "none"]
Row == [want : Terms, status : Status, price : Price, offers : SUBSET Offers]
Request == [at : {"price", "conflict", "duplicate", "store", "dispatch", "redispatch",
                  "sent", "unavailable"},
            want : Want, price : Price, booking : Rows \cup {None}]
Idle == [at |-> "idle"]
-------------------------------------------------------------------------------
(* Prices and the displayed time *)

Rounded(n, d) == (2 * n + d) \div (2 * d)      \* Math.round(n / d)

BaseTotal(rate, multiplier, hours) == Rounded(rate * multiplier * hours, 100)

\* Mutant of PriceOf: the tax is taken of base and fee.
PriceOfTaxedFee(rate, multiplier, hours) ==
  LET base == BaseTotal(rate, multiplier, hours)
      fee == Rounded(base * 15, 100)
  IN [base |-> base, total |-> base + fee + Rounded((base + fee) * 18, 100)]

PriceOf(rate, multiplier, hours) ==
  LET base == BaseTotal(rate, multiplier, hours)
  IN [base |-> base, total |-> base + Rounded(base * 15, 100) + Rounded(base * 18, 100)]

\* The hour of the day that a displayed time names; -1 is a refusal.
HourOf(d) ==
  CASE d.half = "none" -> d.hour
    [] d.half # "none" /\ d.hour \notin 1..12 -> -1
    [] d.half = "AM" /\ d.hour \in 1..12 -> IF d.hour = 12 THEN 0 ELSE d.hour
    [] d.half = "PM" /\ d.hour \in 1..12 -> IF d.hour = 12 THEN 12 ELSE d.hour + 12
-------------------------------------------------------------------------------
(* The table *)

Stored == {b \in Rows : row[b] # NoRow}

\* Mutant of Taken: a session under way does not count.
TakenAhead == {"accepted", "confirmed"}
Taken == {"accepted", "confirmed", "in_progress"}

\* Mutant of Waiting: whatever the customer once asked for counts.
WaitingOrOver == {"pending", "counter_proposed", "accepted", "confirmed", "cancelled"}
Waiting == {"pending", "counter_proposed", "accepted", "confirmed"}

SameSlot(b, w) ==
  /\ row[b].want.companion = w.companion
  /\ row[b].want.start = w.start
  /\ row[b].want.display = w.display

Conflicts(w) == {b \in Stored : SameSlot(b, w) /\ row[b].status \in Taken}
Duplicates(w) == {b \in Stored : row[b].want = w /\ row[b].status \in Waiting}
-------------------------------------------------------------------------------
Init ==
  /\ row = [b \in Rows |-> NoRow]
  /\ notified = {} /\ offered = {}
  /\ req = [r \in Requests |-> Idle]
  /\ steady = [r \in Requests |-> {}]

Goes(r, here, next) ==
  /\ req[r].at = here
  /\ req' = [req EXCEPT ![r].at = next]

Ends(r) ==
  /\ req' = [req EXCEPT ![r] = Idle]
  /\ steady' = [steady EXCEPT ![r] = {}]

Tap(r, w) ==
  /\ req[r] = Idle
  /\ req' = [req EXCEPT ![r] =
               [at |-> "price", want |-> w, price |-> NoPrice, booking |-> None]]
  /\ steady' = [steady EXCEPT ![r] = Stored]
  /\ UNCHANGED <<row, notified, offered>>

\* The companion's rate has come back; the displayed time must name the start.
Quote(r) ==
  /\ req[r].at = "price"
  /\ HourOf(req[r].want.display) = req[r].want.start
  /\ \E rate \in Rates \ {0}, m \in Multipliers, h \in Hours \cap 1..8 :
       req' = [req EXCEPT ![r].at = "conflict", ![r].price = PriceOf(rate, m, h)]
  /\ UNCHANGED <<row, notified, offered, steady>>

FindNoConflict(r) ==
  /\ Goes(r, "conflict", "duplicate")
  /\ Conflicts(req[r].want) = {}
  /\ UNCHANGED <<row, notified, offered, steady>>

RefuseConflict(r) ==
  /\ req[r].at = "conflict"
  /\ Conflicts(req[r].want) # {}
  /\ Ends(r)
  /\ UNCHANGED <<row, notified, offered>>

\* No ordering is asked for: any of the duplicates may be found.
FindDuplicate(r) ==
  /\ req[r].at = "duplicate"
  /\ \E b \in Duplicates(req[r].want) :
       req' = [req EXCEPT ![r].at = "redispatch", ![r].booking = b]
  /\ UNCHANGED <<row, notified, offered, steady>>

FindNoDuplicate(r) ==
  /\ Goes(r, "duplicate", "store")
  /\ Duplicates(req[r].want) = {}
  /\ UNCHANGED <<row, notified, offered, steady>>

\* Mutant of NewRow: the price is left out.
NewRowUnpriced(w, p) == [want |-> w, status |-> "pending", offers |-> {}]
NewRow(w, p) == [want |-> w, status |-> "pending", price |-> p, offers |-> {}]

\* One transaction: the row and the notification.
Store(r) ==
  /\ req[r].at = "store"
  /\ \E b \in Rows \ Stored :
       /\ \A c \in Rows \ Stored : b <= c
       /\ row' = [row EXCEPT ![b] = NewRow(req[r].want, req[r].price)]
       /\ notified' = notified \cup {b}
       /\ req' = [req EXCEPT ![r].at = "dispatch", ![r].booking = b]
       /\ steady' = [steady EXCEPT ![r] = @ \cup {b}]
  /\ UNCHANGED offered

\* Mutant of Outcome: a lost answer is taken for a success.
OutcomeHopeful(reached, answered) == IF reached \/ ~answered THEN "sent" ELSE "unavailable"
Outcome(reached, answered) == IF reached /\ answered THEN "sent" ELSE "unavailable"

\* The request reaches the Companion Backend or not, and its answer comes back or not.
Dispatch(r) ==
  /\ req[r].at \in {"dispatch", "redispatch"}
  /\ \E reached, answered \in BOOLEAN :
       /\ offered' = IF reached THEN offered \cup {req[r].booking} ELSE offered
       /\ req' = [req EXCEPT ![r].at = Outcome(reached, answered)]
  /\ UNCHANGED <<row, notified, steady>>

\* The tap is answered, or it ends at an await: a blocked companion, no price,
\* a time that is not the start, an error, a crash.
End(r) ==
  /\ req[r] # Idle
  /\ Ends(r)
  /\ UNCHANGED <<row, notified, offered>>

-------------------------------------------------------------------------------
(* What becomes of a stored row *)

\* Another handler writes row b.
Written(b, new) ==
  /\ row' = [row EXCEPT ![b] = new]
  /\ steady' = [r \in Requests |-> steady[r] \ {b}]
  /\ UNCHANGED <<notified, offered, req>>

\* The booking of row b may go from its status to s.
CanMove(b, s) ==
  /\ b \in Stored
  /\ s # row[b].status /\ <<row[b].status, s>> \in Moves

\* modifyBooking: the row was pending when it was read, and is written by its id
\* after the new price has come back.  A failed call puts back what was read, which
\* are terms of the same kind.
Modify(b) ==
  /\ b \in Stored
  /\ \E start \in Starts, d \in Displays,
        rate \in Rates \ {0}, m \in Multipliers, h \in Hours \cap 1..8 :
       /\ HourOf(d) = start
       /\ Written(b, [row[b] EXCEPT !.want.start = start, !.want.display = d,
                                    !.price = PriceOf(rate, m, h)])

\* A counter-offer, with a new start or without one.  An acceptance under way may have
\* read an earlier one, so those are kept.
CounterProposed(b) ==
  /\ CanMove(b, "counter_proposed")
  /\ \E proposed \in {{}} \cup {{s} : s \in Offers} :
       Written(b, [row[b] EXCEPT !.status = "counter_proposed", !.offers = @ \cup proposed])

\* Mutant of Agreed: the proposed start without its displayed time.
AgreedUnshown(w, s) == [w EXCEPT !.start = s]

\* The acceptance of a counter-offer replaces the start and the displayed time.
Agreed(w, s) == [w EXCEPT !.start = s, !.display = ServerShows[s]]

\* An acceptance writes what it read of the counter-offer, which is nothing if no start
\* was proposed by then.
Accepted(b) ==
  /\ CanMove(b, "accepted")
  /\ \/ Written(b, [row[b] EXCEPT !.status = "accepted"])
     \/ \E s \in row[b].offers :
          Written(b, [row[b] EXCEPT !.status = "accepted", !.want = Agreed(@, s)])

\* Every other handler changes the status.
Move(b) ==
  \E s \in Status \ {"accepted", "counter_proposed"} :
    CanMove(b, s) /\ Written(b, [row[b] EXCEPT !.status = s])

Next ==
  \/ \E r \in Requests :
       \/ \E w \in Want : Tap(r, w)
       \/ Quote(r) \/ FindNoConflict(r) \/ RefuseConflict(r)
       \/ FindDuplicate(r) \/ FindNoDuplicate(r)
       \/ Store(r) \/ Dispatch(r) \/ End(r)
  \/ \E b \in Rows : Modify(b) \/ CounterProposed(b) \/ Accepted(b) \/ Move(b)

Spec == Init /\ [][Next]_vars
-------------------------------------------------------------------------------
(* Properties *)

\* Every variable has its type.
TypeOK ==
  /\ row \in [Rows -> Row \cup {NoRow}]
  /\ notified \subseteq Rows /\ offered \subseteq Rows
  /\ req \in [Requests -> Request \cup {Idle}]
  /\ steady \in [Requests -> SUBSET Rows]

\* A tap that is about to store a row has not overlooked a booking that stood all
\* the time: no companion's slot that was taken before the tap is booked again, and
\* no request of the customer's own that was waiting is doubled.  Bookings that
\* others store or move during the tap can be overlooked.
StandingBookingRespected ==
  \A r \in Requests : req[r].at = "store" =>
    \A b \in steady[r] :
      /\ SameSlot(b, req[r].want) => row[b].status \notin {"accepted", "confirmed", "in_progress"}
      /\ row[b].want = req[r].want =>
           row[b].status \notin {"pending", "counter_proposed", "accepted", "confirmed", "in_progress"}

\* A second tap sends the booking again, but never one that was over or under way
\* before the customer tapped.
OnlyWaitingIsResent ==
  \A r \in Requests :
    req[r].at = "redispatch" /\ req[r].booking \in steady[r] =>
      row[req[r].booking].status \in {"pending", "counter_proposed", "accepted", "confirmed"}

\* Whoever is told "sent" has a stored booking of their own, with the companion they
\* chose, that the Companion Backend received; it says what they asked for unless
\* it was moved or modified meanwhile.  A lost answer is told as "unavailable".
SentIsTrue ==
  \A r \in Requests : req[r].at = "sent" =>
    LET b == req[r].booking IN
    /\ b \in offered \cap notified
    /\ row[b].want.customer = req[r].want.customer
    /\ row[b].want.companion = req[r].want.companion
    /\ b \in steady[r] => row[b].want = req[r].want

\* What the customer agreed to, however often the booking is modified, countered and
\* accepted: the total is base plus 33 per cent, to the rupee, and the displayed time
\* names the hour of the start -- on the server's clock, if it is a start that the
\* companion proposed (createBooking, modifyBooking, handleInternalStatusUpdate).
TermsSound ==
  \A b \in Stored :
    /\ LET p == row[b].price IN 100 * p.total - 133 * p.base \in -100..100
    /\ LET w == row[b].want
       IN \/ ReadAs(w.display) = w.start
          \/ w.start \in row[b].offers /\ ReadAs(w.display) = (w.start + ServerOffset) % 24
===============================================================================
