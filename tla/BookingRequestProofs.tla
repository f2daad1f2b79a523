-------------------------- MODULE BookingRequestProofs --------------------------
(***************************************************************************)
(* Proofs about BookingRequest, for every set of customers, companions,    *)
(* starts, displayed times, rates and taps, and any number of rows.        *)
(***************************************************************************)
EXTENDS BookingRequest, TLAPS

\* Prices, and starts with their displayed times, as TermsSound wants them: as the
\* customer wrote them, or as the server displays one of the starts that were offered.
SoundPrices == {p \in Price : 100 * p.total - 133 * p.base \in -100..100}
SoundTimes == {w \in Terms : ReadAs(w.display) = w.start}
ServerTimes(offers) ==
  {w \in Terms : w.start \in offers /\ ReadAs(w.display) = (w.start + ServerOffset) % 24}

Asked(w, p) == w \in Want \cap SoundTimes /\ p \in SoundPrices
TermsOf(x) == x.price \in SoundPrices /\ x.want \in SoundTimes \cup ServerTimes(x.offers)

\* Row b is the booking that tap r asked for, in the same words if it is steady.
Own(r, b) ==
  /\ row[b].want.customer = req[r].want.customer
  /\ row[b].want.companion = req[r].want.companion
  /\ b \in steady[r] => row[b].want = req[r].want

NoStandingConflict(r) ==
  \A b \in steady[r] : SameSlot(b, req[r].want) => row[b].status \notin Taken
NoStandingDuplicate(r) ==
  \A b \in steady[r] : row[b].want = req[r].want => row[b].status \notin Waiting

\* What a tap knows at the step it is suspended at.
Sound(r) ==
  /\ steady[r] \subseteq Stored
  /\ req[r].at \notin {"idle", "price"} => Asked(req[r].want, req[r].price)
  /\ req[r].at \in {"duplicate", "store"} => NoStandingConflict(r)
  /\ req[r].at = "store" => NoStandingDuplicate(r)
  /\ req[r].at \in {"dispatch", "redispatch", "sent", "unavailable"} =>
       req[r].booking \in Stored \cap notified /\ Own(r, req[r].booking)
  /\ req[r].at = "redispatch" /\ req[r].booking \in steady[r] =>
       row[req[r].booking].status \in Waiting
  /\ req[r].at = "sent" => req[r].booking \in offered

RowsSound == \A b \in Stored : b \in notified /\ TermsOf(row[b])

IInv == TypeOK /\ RowsSound /\ \A r \in Requests : Sound(r)
-------------------------------------------------------------------------------
\* Rounding a natural number of hundredths gives a natural number, half a unit off at most.
LEMMA RoundedHundredths ==
  ASSUME NEW n \in Nat
  PROVE  Rounded(n, 100) \in Nat /\ 100 * Rounded(n, 100) - n \in -50..50
BY DEF Rounded

\* A price is base plus fee and tax, each off by half a rupee at most.
LEMMA PriceSound ==
  ASSUME NEW rate \in Nat, NEW m \in Nat, NEW h \in Nat
  PROVE  /\ PriceOf(rate, m, h) \in Price
         /\ 100 * PriceOf(rate, m, h).total - 133 * PriceOf(rate, m, h).base \in -100..100
<1> DEFINE base == BaseTotal(rate, m, h)
<1>1. rate * m * h \in Nat
  OBVIOUS
<1>2. base \in Nat
  BY <1>1, RoundedHundredths DEF BaseTotal
<1> DEFINE fee == Rounded(base * 15, 100)
           tax == Rounded(base * 18, 100)
<1>3. PriceOf(rate, m, h) = [base |-> base, total |-> base + fee + tax]
  BY DEF PriceOf
<1> HIDE DEF base
<1>4. fee \in Nat /\ 100 * fee - base * 15 \in -50..50
  <2>1. base * 15 \in Nat
    BY <1>2
  <2> QED BY <2>1, RoundedHundredths
<1>5. tax \in Nat /\ 100 * tax - base * 18 \in -50..50
  <2>1. base * 18 \in Nat
    BY <1>2
  <2> QED BY <2>1, RoundedHundredths
<1> HIDE DEF fee, tax
<1> QED BY <1>2, <1>3, <1>4, <1>5 DEF Price

\* The case analysis of assertLocalScheduleMatches reads a displayed time as anybody
\* does: the hour modulo twelve, and twelve more in the afternoon.
THEOREM ClockRead ==
  ASSUME NEW d \in Time, HourOf(d) # -1
  PROVE  HourOf(d) = ReadAs(d)
<1> USE DEF Time, ReadAs
<1>1. CASE d.half = "none"
  BY <1>1 DEF HourOf
<1>2. CASE d.half # "none"
  <2>1. d.hour \in 1..12 /\ d.half \in {"AM", "PM"}
    <3>1. d.hour \in 0..23 /\ d.half \in {"AM", "PM"}
      BY <1>2 DEF Half
    <3>2. d.hour \in 1..12
      BY <1>2, <3>1 DEF HourOf
    <3> QED BY <3>1, <3>2
  <2>2. d.hour % 12 = IF d.hour = 12 THEN 0 ELSE d.hour
    BY <2>1
  <2> QED BY <2>1, <2>2 DEF HourOf
<1> QED BY <1>1, <1>2

\* What a tap asks for, with a displayed time that names its start, is sound.
LEMMA WantSound ==
  ASSUME NEW w \in Want, HourOf(w.display) = w.start
  PROVE  w \in SoundTimes
<1>1. w \in Terms /\ w.display \in Time /\ w.start \in 0..23
  BY DisplaysAssumption, StartsAssumption DEF Want, Terms
<1>2. ReadAs(w.display) = w.start
  BY <1>1, ClockRead
<1> QED BY <1>1, <1>2 DEF SoundTimes
-------------------------------------------------------------------------------
\* Initially nothing is stored and no tap is in flight.
LEMMA InitIInv == Init => IInv
BY DEF Init, IInv, TypeOK, RowsSound, Sound, Stored, Idle

\* A step that leaves the table alone, and only takes steady rows away, keeps what
\* the other taps know.
LEMMA OthersKeep ==
  ASSUME NEW r \in Requests, NEW q \in Requests, q # r,
         TypeOK, Sound(q), row' = row, notified' = notified,
         offered \subseteq offered',
         req'[q] = req[q], steady'[q] = steady[q]
  PROVE  Sound(q)'
BY DEF Sound, Own, Stored, NoStandingConflict, NoStandingDuplicate, SameSlot

\* Another handler may write into a stored row what keeps its owner and its terms
\* sound: no tap counts the row as steady any more.
LEMMA WrittenKeeps ==
  ASSUME IInv, NEW b \in Stored, NEW new \in Row, TermsOf(new), Written(b, new),
         new.want.customer = row[b].want.customer, new.want.companion = row[b].want.companion
  PROVE  IInv'
<1>0. TypeOK /\ RowsSound /\ \A r \in Requests : Sound(r)
  BY DEF IInv
<1>1. b \in Rows /\ row' = [row EXCEPT ![b] = new]
  BY DEF Stored, Written
<1>2. row'[b] = new /\ \A c \in Rows \ {b} : row'[c] = row[c]
  BY <1>0, <1>1 DEF TypeOK
<1>3. Stored' = Stored
  BY <1>1, <1>2 DEF Stored, NoRow, Row
<1>4. /\ UNCHANGED <<notified, offered, req>>
      /\ \A q \in Requests : steady'[q] = steady[q] \ {b}
  BY DEF Written
<1>5. TypeOK'
  BY <1>0, <1>1 DEF TypeOK, Written
<1>6. RowsSound'
  BY <1>0, <1>2, <1>3, <1>4 DEF RowsSound, TermsOf, Stored
<1>7. ASSUME NEW q \in Requests PROVE Sound(q)'
  <2>1. steady'[q] = steady[q] \ {b} /\ req'[q] = req[q] /\ Sound(q)
    BY <1>0, <1>4
  <2>2. \A c \in Stored :
          /\ row'[c].want.customer = row[c].want.customer
          /\ row'[c].want.companion = row[c].want.companion
          /\ c # b => row'[c] = row[c]
    BY <1>2 DEF Stored
  <2>3. \A c \in Stored : Own(q, c) => Own(q, c)'
    BY <2>1, <2>2 DEF Own
  <2>4. /\ NoStandingConflict(q) => NoStandingConflict(q)'
        /\ NoStandingDuplicate(q) => NoStandingDuplicate(q)'
    BY <2>1, <2>2 DEF NoStandingConflict, NoStandingDuplicate, SameSlot, Sound
  <2> QED BY <1>3, <1>4, <2>1, <2>2, <2>3, <2>4 DEF Sound
<1> QED BY <1>5, <1>6, <1>7 DEF IInv

\* A modification, a counter-offer, an acceptance and a change of status write a row
\* of this kind: the price is computed anew or left, the times are checked against
\* the start, left, or taken from the server.
LEMMA RowRewritten ==
  ASSUME IInv, NEW b \in Rows,
         Modify(b) \/ CounterProposed(b) \/ Accepted(b) \/ Move(b)
  PROVE  /\ b \in Stored
         /\ \E new \in Row :
              /\ TermsOf(new) /\ Written(b, new)
              /\ new.want.customer = row[b].want.customer
              /\ new.want.companion = row[b].want.companion
<1>1. b \in Stored
  BY DEF Modify, CounterProposed, Accepted, Move, CanMove
<1>2. row[b] \in Row /\ TermsOf(row[b])
  BY <1>1 DEF IInv, TypeOK, RowsSound, Stored
<1>3. /\ row[b].want \in Terms /\ row[b].status \in Status
      /\ row[b].price \in Price /\ row[b].offers \subseteq Offers
  BY <1>2 DEF Row
<1>4. \A os \in SUBSET Offers : row[b].offers \subseteq os =>
        ServerTimes(row[b].offers) \subseteq ServerTimes(os)
  BY DEF ServerTimes
<1>5. CASE Modify(b)
  <2>1. PICK start \in Starts, d \in Displays,
             rate \in Rates \ {0}, m \in Multipliers, h \in Hours \cap 1..8 :
          /\ HourOf(d) = start
          /\ Written(b, [row[b] EXCEPT !.want.start = start, !.want.display = d,
                                       !.price = PriceOf(rate, m, h)])
    BY <1>5 DEF Modify
  <2> DEFINE p == PriceOf(rate, m, h)
             w == [row[b].want EXCEPT !.start = start, !.display = d]
             new == [row[b] EXCEPT !.want = w, !.price = p]
  <2>2. p \in SoundPrices /\ p \in Price
    BY PriceSound, RatesAssumption DEF SoundPrices
  <2>3. Written(b, new)
    BY <1>2, <2>1 DEF Row
  <2> HIDE DEF p
  <2>4. /\ w \in Want /\ w.display = d /\ w.start = start
        /\ w.customer = row[b].want.customer /\ w.companion = row[b].want.companion
    BY <1>3 DEF Terms, Want
  <2> HIDE DEF w
  <2>5. w \in SoundTimes /\ w \in Terms
    BY <2>1, <2>4, WantSound DEF SoundTimes
  <2>6. new \in Row /\ new.want = w /\ new.price = p
    BY <1>2, <2>2, <2>5 DEF Row
  <2> QED BY <1>1, <2>2, <2>3, <2>4, <2>5, <2>6 DEF TermsOf
<1>6. CASE CounterProposed(b)
  <2>1. PICK proposed \in SUBSET Offers :
          Written(b, [row[b] EXCEPT !.status = "counter_proposed", !.offers = @ \cup proposed])
    BY <1>6 DEF CounterProposed
  <2> DEFINE new == [row[b] EXCEPT !.status = "counter_proposed", !.offers = @ \cup proposed]
  <2>2. /\ new \in Row /\ new.want = row[b].want /\ new.price = row[b].price
        /\ row[b].offers \subseteq new.offers /\ new.offers \subseteq Offers
    BY <1>2, <1>3 DEF Row, Status
  <2>3. Written(b, new)
    BY <2>1
  <2> HIDE DEF new
  <2> QED BY <1>1, <1>2, <1>4, <2>2, <2>3 DEF TermsOf
<1>7. ASSUME NEW s \in Status, Written(b, [row[b] EXCEPT !.status = s])
      PROVE  \E new \in Row :
               /\ TermsOf(new) /\ Written(b, new)
               /\ new.want.customer = row[b].want.customer
               /\ new.want.companion = row[b].want.companion
  <2> DEFINE new == [row[b] EXCEPT !.status = s]
  <2>1. /\ new \in Row /\ new.want = row[b].want /\ new.price = row[b].price
        /\ new.offers = row[b].offers
    BY <1>2 DEF Row
  <2>2. Written(b, new)
    BY <1>7
  <2> HIDE DEF new
  <2> QED BY <1>2, <2>1, <2>2 DEF TermsOf
<1>8. CASE Move(b)
  BY <1>1, <1>7, <1>8 DEF Move
<1>9. CASE Accepted(b)
  <2>1. CASE Written(b, [row[b] EXCEPT !.status = "accepted"])
    BY <1>1, <1>7, <2>1 DEF Status
  <2>2. ASSUME NEW s \in row[b].offers,
               Written(b, [row[b] EXCEPT !.status = "accepted", !.want = Agreed(@, s)])
        PROVE  \E new \in Row :
                 /\ TermsOf(new) /\ Written(b, new)
                 /\ new.want.customer = row[b].want.customer
                 /\ new.want.companion = row[b].want.companion
    <3> DEFINE w == Agreed(row[b].want, s)
               new == [row[b] EXCEPT !.status = "accepted", !.want = w]
    <3>1. s \in Offers /\ s \in 0..23 /\ ServerShows[s] \in Time
      BY <1>3, StartsAssumption, ServerAssumption
    <3>2. /\ w \in Terms /\ w.start = s /\ w.display = ServerShows[s]
          /\ w.customer = row[b].want.customer /\ w.companion = row[b].want.companion
      BY <1>3, <3>1 DEF Agreed, Terms
    <3> HIDE DEF w
    <3>3. ReadAs(w.display) = (w.start + ServerOffset) % 24
      BY <3>1, <3>2, ServerAssumption
    <3>4. /\ new \in Row /\ new.want = w /\ new.price = row[b].price
          /\ new.offers = row[b].offers
      BY <1>2, <3>2 DEF Row, Status
    <3>5. Written(b, new)
      BY <2>2 DEF w
    <3>6. w \in ServerTimes(row[b].offers)
      BY <2>2, <3>2, <3>3 DEF ServerTimes
    <3> HIDE DEF new
    <3> QED BY <1>2, <3>2, <3>4, <3>5, <3>6 DEF TermsOf
  <2> QED BY <1>1, <1>9, <2>1, <2>2 DEF Accepted
<1> QED BY <1>5, <1>6, <1>8, <1>9

\* Every step of Next keeps the invariant.
LEMMA StepIInv == IInv /\ [Next]_vars => IInv'
<1> SUFFICES ASSUME IInv, [Next]_vars PROVE IInv'
  OBVIOUS
<1>0. TypeOK /\ RowsSound /\ \A r \in Requests : Sound(r)
  BY DEF IInv
<1>1. ASSUME NEW r \in Requests, NEW w \in Want, Tap(r, w) PROVE IInv'
  <2> USE <1>1 DEF Tap
  <2>1. TypeOK'
    BY <1>0 DEF TypeOK, Request, Price, NoPrice, Idle, Stored
  <2>2. RowsSound'
    BY <1>0 DEF RowsSound, Stored, TermsOf
  <2>3. Sound(r)'
    BY <1>0 DEF Sound, TypeOK, Stored
  <2>4. ASSUME NEW q \in Requests, q # r PROVE Sound(q)'
    BY <1>0, <2>4, OthersKeep DEF TypeOK
  <2> QED BY <2>1, <2>2, <2>3, <2>4 DEF IInv
<1>2. ASSUME NEW r \in Requests, Quote(r) PROVE IInv'
  <2> USE <1>2 DEF Quote
  <2>1. PICK rate \in Rates \ {0}, m \in Multipliers, h \in Hours \cap 1..8 :
          req' = [req EXCEPT ![r].at = "conflict", ![r].price = PriceOf(rate, m, h)]
    OBVIOUS
  <2> DEFINE p == PriceOf(rate, m, h)
  <2>2. p \in SoundPrices /\ p \in Price
    BY PriceSound, RatesAssumption DEF SoundPrices
  <2>3. req[r] \in Request
    BY <1>0 DEF TypeOK, Idle
  <2> HIDE DEF p
  <2>4. req'[r].at = "conflict" /\ req'[r].want = req[r].want /\ req'[r].price = p
    BY <1>0, <2>1, <2>3 DEF TypeOK, Request, p
  <2>5. TypeOK'
    BY <1>0, <2>1, <2>2, <2>3 DEF TypeOK, Request, p
  <2>6. RowsSound'
    BY <1>0 DEF RowsSound, Stored, TermsOf
  <2>7. Sound(r)'
    <3>1. req[r].want \in Want /\ HourOf(req[r].want.display) = req[r].want.start
      BY <2>3 DEF Request
    <3>2. Asked(req[r].want, p)
      BY <2>2, <3>1, WantSound DEF Asked
    <3> QED BY <1>0, <2>4, <3>2 DEF Sound, Stored
  <2>8. ASSUME NEW q \in Requests, q # r PROVE Sound(q)'
    BY <1>0, <2>1, <2>8, OthersKeep DEF TypeOK
  <2> QED BY <2>5, <2>6, <2>7, <2>8 DEF IInv
<1>3. ASSUME NEW r \in Requests,
             \/ FindNoConflict(r) \/ FindNoDuplicate(r) \/ FindDuplicate(r)
      PROVE  IInv'
  <2>1. /\ UNCHANGED <<row, notified, offered, steady>>
        /\ \E a \in {"duplicate", "store", "redispatch"}, b \in Rows \cup {None} :
             req' = [req EXCEPT ![r].at = a, ![r].booking = b]
    <3>1. req[r] \in Request
      BY <1>0, <1>3 DEF TypeOK, Idle, FindNoConflict, FindNoDuplicate, FindDuplicate, Goes
    <3>2. req[r].booking \in Rows \cup {None}
      BY <3>1 DEF Request
    <3>3. ASSUME NEW a \in STRING
          PROVE  [req EXCEPT ![r].at = a] = [req EXCEPT ![r].at = a, ![r].booking = req[r].booking]
      BY <1>0, <3>1 DEF TypeOK, Request
    <3> QED BY <1>3, <3>2, <3>3 DEF FindNoConflict, FindNoDuplicate, FindDuplicate, Goes,
                                   Duplicates, Stored
  <2>2. PICK a \in {"duplicate", "store", "redispatch"}, b \in Rows \cup {None} :
          req' = [req EXCEPT ![r].at = a, ![r].booking = b]
    BY <2>1
  <2>3. req[r] \in Request
    BY <1>0, <1>3 DEF TypeOK, Idle, FindNoConflict, FindNoDuplicate, FindDuplicate, Goes
  <2>4. /\ req'[r].at = a /\ req'[r].booking = b
        /\ req'[r].want = req[r].want /\ req'[r].price = req[r].price
    BY <1>0, <2>2, <2>3 DEF TypeOK, Request
  <2>5. TypeOK'
    BY <1>0, <2>1, <2>2, <2>3 DEF TypeOK, Request
  <2>6. RowsSound'
    BY <1>0, <2>1 DEF RowsSound, Stored, TermsOf
  <2>7. Sound(r)'
    <3>1. CASE FindNoConflict(r)
      <4>1. req'[r].at = "duplicate" /\ req[r].at = "conflict"
        BY <1>0, <2>3, <3>1 DEF FindNoConflict, Goes, TypeOK, Request
      <4>2. NoStandingConflict(r)'
        BY <1>0, <2>1, <2>4, <3>1 DEF FindNoConflict, Conflicts, NoStandingConflict, Sound,
                                      SameSlot
      <4> QED BY <1>0, <2>1, <2>4, <4>1, <4>2 DEF Sound, Stored, Own
    <3>2. CASE FindNoDuplicate(r)
      <4>1. req'[r].at = "store" /\ req[r].at = "duplicate"
        BY <1>0, <2>3, <3>2 DEF FindNoDuplicate, Goes, TypeOK, Request
      <4>2. NoStandingConflict(r)'
        BY <1>0, <2>1, <2>4, <4>1 DEF NoStandingConflict, Sound, SameSlot
      <4>3. NoStandingDuplicate(r)'
        BY <1>0, <2>1, <2>4, <3>2 DEF FindNoDuplicate, Duplicates, NoStandingDuplicate, Sound
      <4> QED BY <1>0, <2>1, <2>4, <4>1, <4>2, <4>3 DEF Sound, Stored, Own
    <3>3. CASE FindDuplicate(r)
      <4>1. PICK d \in Duplicates(req[r].want) :
              req' = [req EXCEPT ![r].at = "redispatch", ![r].booking = d]
        BY <3>3 DEF FindDuplicate
      <4>2. req'[r].at = "redispatch" /\ req'[r].booking = d /\ req[r].at = "duplicate"
        BY <1>0, <2>3, <3>3, <4>1 DEF FindDuplicate, TypeOK, Request
      <4>3. d \in Stored /\ d \in notified /\ row[d].want = req[r].want /\ row[d].status \in Waiting
        BY <1>0, <4>1 DEF Duplicates, RowsSound
      <4> QED BY <1>0, <2>1, <2>4, <4>2, <4>3 DEF Sound, Stored, Own
    <3> QED BY <1>3, <3>1, <3>2, <3>3
  <2>8. ASSUME NEW q \in Requests, q # r PROVE Sound(q)'
    BY <1>0, <2>1, <2>2, <2>8, OthersKeep DEF TypeOK
  <2> QED BY <2>5, <2>6, <2>7, <2>8 DEF IInv
<1>4. ASSUME NEW r \in Requests, RefuseConflict(r) \/ End(r) PROVE IInv'
  <2>1. /\ UNCHANGED <<row, notified, offered>>
        /\ req' = [req EXCEPT ![r] = Idle] /\ steady' = [steady EXCEPT ![r] = {}]
    BY <1>4 DEF RefuseConflict, End, Ends
  <2>2. TypeOK'
    BY <1>0, <2>1 DEF TypeOK
  <2>3. RowsSound'
    BY <1>0, <2>1 DEF RowsSound, Stored, TermsOf
  <2>4. Sound(r)'
    BY <1>0, <2>1 DEF Sound, TypeOK, Idle
  <2>5. ASSUME NEW q \in Requests, q # r PROVE Sound(q)'
    BY <1>0, <2>1, <2>5, OthersKeep DEF TypeOK
  <2> QED BY <2>2, <2>3, <2>4, <2>5 DEF IInv
<1>5. ASSUME NEW r \in Requests, Store(r) PROVE IInv'
  <2>1. PICK b \in Rows \ Stored :
          /\ row' = [row EXCEPT ![b] = NewRow(req[r].want, req[r].price)]
          /\ notified' = notified \cup {b}
          /\ req' = [req EXCEPT ![r].at = "dispatch", ![r].booking = b]
          /\ steady' = [steady EXCEPT ![r] = @ \cup {b}]
          /\ UNCHANGED offered
          /\ req[r].at = "store"
    BY <1>5 DEF Store
  <2>2. req[r] \in Request
    BY <1>0, <2>1 DEF TypeOK, Idle
  <2>3. /\ req'[r].at = "dispatch" /\ req'[r].booking = b
        /\ req'[r].want = req[r].want /\ req'[r].price = req[r].price
    BY <1>0, <2>1, <2>2 DEF TypeOK, Request
  <2> DEFINE new == NewRow(req[r].want, req[r].price)
  <2>4. new \in Row /\ new # NoRow /\ new.want = req[r].want /\ new.price = req[r].price
    <3>1. req[r].want \in Terms
      BY <1>0, <2>1 DEF Sound, Asked, SoundTimes
    <3> QED BY <2>2, <3>1 DEF NewRow, Row, Request, NoRow, Status
  <2>5. row'[b] = new /\ \A c \in Rows \ {b} : row'[c] = row[c]
    BY <1>0, <2>1 DEF TypeOK
  <2>6. Stored' = Stored \cup {b} /\ b \notin Stored
    BY <2>1, <2>4, <2>5 DEF Stored
  <2> HIDE DEF new
  <2>7. TypeOK'
    BY <1>0, <2>1, <2>2, <2>4, <2>5 DEF TypeOK, Request, new
  <2>8. RowsSound'
    <3>1. TermsOf(new)
      BY <1>0, <2>1, <2>4 DEF Sound, Asked, TermsOf
    <3>2. ASSUME NEW c \in Stored' PROVE (c \in notified /\ TermsOf(row[c]))'
      <4>1. CASE c = b
        BY <2>1, <2>5, <3>1, <4>1 DEF TermsOf
      <4>2. CASE c \in Stored
        BY <1>0, <2>1, <2>5, <2>6, <4>2 DEF RowsSound, TermsOf, Stored
      <4> QED BY <2>6, <4>1, <4>2
    <3> QED BY <3>2 DEF RowsSound
  <2>9. Sound(r)'
    <3>1. steady'[r] = steady[r] \cup {b} /\ steady[r] \subseteq Stored
      BY <1>0, <2>1 DEF TypeOK, Sound
    <3>2. Own(r, b)'
      BY <2>3, <2>4, <2>5 DEF Own
    <3> QED BY <1>0, <2>1, <2>3, <2>6, <3>1, <3>2 DEF Sound
  <2>10. ASSUME NEW q \in Requests, q # r PROVE Sound(q)'
    <3>1. req'[q] = req[q] /\ steady'[q] = steady[q] /\ steady[q] \subseteq Stored
      BY <1>0, <2>1, <2>10 DEF TypeOK, Sound
    <3>2. \A c \in Stored : row'[c] = row[c]
      BY <2>5, <2>6 DEF Stored
    <3>3. Sound(q)
      BY <1>0
    <3>4. (NoStandingConflict(q) => NoStandingConflict(q)') /\
          (NoStandingDuplicate(q) => NoStandingDuplicate(q)')
      BY <3>1, <3>2 DEF NoStandingConflict, NoStandingDuplicate, SameSlot
    <3>5. req[q].at \in {"dispatch", "redispatch", "sent", "unavailable"} =>
            /\ req[q].booking \in Stored' \cap notified'
            /\ row'[req[q].booking] = row[req[q].booking]
      BY <2>1, <2>6, <3>2, <3>3 DEF Sound
    <3>6. (steady[q] \subseteq Stored)'
      BY <2>6, <3>1
    <3>7. (req[q].at \notin {"idle", "price"} => Asked(req[q].want, req[q].price))'
      BY <3>1, <3>3 DEF Sound
    <3>8. (req[q].at \in {"duplicate", "store"} => NoStandingConflict(q))' /\
          (req[q].at = "store" => NoStandingDuplicate(q))'
      BY <3>1, <3>3, <3>4 DEF Sound
    <3>9. (req[q].at \in {"dispatch", "redispatch", "sent", "unavailable"} =>
             req[q].booking \in Stored \cap notified /\ Own(q, req[q].booking))'
      BY <3>1, <3>3, <3>5 DEF Sound, Own
    <3>10. (req[q].at = "redispatch" /\ req[q].booking \in steady[q] =>
              row[req[q].booking].status \in Waiting)'
      BY <3>1, <3>3, <3>5 DEF Sound
    <3>11. (req[q].at = "sent" => req[q].booking \in offered)'
      BY <2>1, <3>1, <3>3 DEF Sound
    <3> QED BY <3>6, <3>7, <3>8, <3>9, <3>10, <3>11 DEF Sound
  <2> QED BY <2>7, <2>8, <2>9, <2>10 DEF IInv
<1>6. ASSUME NEW r \in Requests, Dispatch(r) PROVE IInv'
  <2>1. PICK reached \in BOOLEAN, answered \in BOOLEAN :
          /\ offered' = IF reached THEN offered \cup {req[r].booking} ELSE offered
          /\ req' = [req EXCEPT ![r].at = Outcome(reached, answered)]
    BY <1>6 DEF Dispatch
  <2>2. /\ req[r].at \in {"dispatch", "redispatch"}
        /\ UNCHANGED <<row, notified, steady>>
    BY <1>6 DEF Dispatch
  <2>3. req[r] \in Request
    BY <1>0, <2>2 DEF TypeOK, Idle
  <2>4. Outcome(reached, answered) \in {"sent", "unavailable"} /\
        (Outcome(reached, answered) = "sent" => reached)
    BY DEF Outcome
  <2>5. /\ req'[r].at = Outcome(reached, answered) /\ req'[r].booking = req[r].booking
        /\ req'[r].want = req[r].want /\ req'[r].price = req[r].price
    BY <1>0, <2>1, <2>3 DEF TypeOK, Request
  <2>6. req[r].booking \in Rows
    BY <1>0, <2>2 DEF Sound, Stored, Own
  <2>7. TypeOK'
    BY <1>0, <2>1, <2>2, <2>3, <2>4, <2>6 DEF TypeOK, Request
  <2>8. RowsSound'
    BY <1>0, <2>2 DEF RowsSound, Stored, TermsOf
  <2>9. Sound(r)'
    BY <1>0, <2>1, <2>2, <2>4, <2>5 DEF Sound, Stored, Own
  <2>10. ASSUME NEW q \in Requests, q # r PROVE Sound(q)'
    BY <1>0, <2>1, <2>2, <2>10, OthersKeep DEF TypeOK
  <2> QED BY <2>7, <2>8, <2>9, <2>10 DEF IInv
<1>7. ASSUME NEW b \in Rows, Modify(b) \/ CounterProposed(b) \/ Accepted(b) \/ Move(b)
      PROVE  IInv'
  BY <1>0, <1>7, RowRewritten, WrittenKeeps
<1>8. CASE UNCHANGED vars
  BY <1>0, <1>8 DEF vars, IInv, TypeOK, RowsSound, Sound, Stored, NoStandingConflict,
                    NoStandingDuplicate, SameSlot, Own, TermsOf
<1> QED BY <1>1, <1>2, <1>3, <1>4, <1>5, <1>6, <1>7, <1>8 DEF Next

\* The invariant of createBooking: what every tap knows about the table it read.
THEOREM Invariance == Spec => []IInv
<1>1. Init => IInv
  BY InitIInv
<1>2. IInv /\ [Next]_vars => IInv'
  BY StepIInv
<1> QED BY <1>1, <1>2, PTL DEF Spec

\* Every variable keeps its type.
THEOREM TypeCorrect == Spec => []TypeOK
<1>1. IInv => TypeOK
  BY DEF IInv
<1> QED BY <1>1, Invariance, PTL

\* No tap overlooks a booking that stood from its arrival on.
THEOREM StandingKept == Spec => []StandingBookingRespected
<1>1. IInv => StandingBookingRespected
  BY DEF IInv, Sound, StandingBookingRespected, NoStandingConflict, NoStandingDuplicate,
         SameSlot, Taken, Waiting
<1> QED BY <1>1, Invariance, PTL

\* Only a waiting booking is sent to the companion again.
THEOREM ResentWaiting == Spec => []OnlyWaitingIsResent
<1>1. IInv => OnlyWaitingIsResent
  BY DEF IInv, Sound, OnlyWaitingIsResent, Waiting
<1> QED BY <1>1, Invariance, PTL

\* "sent" is told only of a booking of the tap that the Companion Backend received.
THEOREM SentTold == Spec => []SentIsTrue
<1>1. IInv => SentIsTrue
  BY DEF IInv, Sound, Own, SentIsTrue
<1> QED BY <1>1, Invariance, PTL

\* Prices and displayed times of all stored bookings are sound for ever, through
\* modifications, counter-offers and acceptances in any order.
THEOREM TermsKept == Spec => []TermsSound
<1>1. IInv => TermsSound
  BY DEF IInv, RowsSound, TermsOf, SoundPrices, SoundTimes, ServerTimes, TermsSound
<1> QED BY <1>1, Invariance, PTL
===============================================================================
