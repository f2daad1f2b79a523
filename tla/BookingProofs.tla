---------------------------- MODULE BookingProofs ----------------------------
(***************************************************************************)
(* Proofs about Booking, for every set of bookings, requests, totals,      *)
(* operations and incoming statuses: first the bookings, then the sessions *)
(* and disputes, last the callbacks among themselves, no order or number   *)
(* of which moves a closed booking or lets a conversation or the Admin     *)
(* Backend run ahead of one.                                               *)
(***************************************************************************)
EXTENDS Booking, TLAPS

AppliedStatuses ==
  {"accepted", "declined", "counter_proposed", "in_progress", "active",
   "completed", "cancelled"}

\* What a suspended request carries.  The third conjunct is the heart of it: a
\* callback on its way to its transaction has been checked against the status
\* it read, and brings a pass if it is an acceptance.
Sound(q) ==
  /\ q.at # "idle" => q.booking \in Bookings
  /\ q.at \in {"apply", "duplicate", "findStarted", "postStarted", "closeChat",
               "sync", "counter", "callback"} => q.incoming # None
  /\ q.at = "apply" => /\ q.incoming \in AppliedStatuses
                       /\ Complete(q.incoming, q.pass)
                       /\ ~ Ignored(q.seen, q.incoming)
  /\ q.at \in {"modify", "modifyCall"} => q.new \in Amounts
  /\ q.at \in {"modify", "modifyCall", "modifyRollback"} => q.old \in Amounts
  /\ q.at = "writeChat" => q.chat \in ConvStatus

RequestsSound == \A r \in Requests : Sound(req[r])

\* The statuses a booking really gets: the schema's others are never written.
Reached ==
  {"pending", "accepted", "declined", "counter_proposed", "confirmed",
   "cancelled", "in_progress", "completed", "disputed"}

StatusesReached == \A b \in Bookings : Status(b) \in Reached

IInv == TypeOK /\ RequestsSound /\ StatusesReached /\ AcceptedHasPass

-------------------------------------------------------------------------------

\* Initially no request is in flight and no booking is accepted.
LEMMA InitIInv == Init => IInv
<1> SUFFICES ASSUME Init PROVE IInv OBVIOUS
<1> USE DEF Init, BookingInit
<1>1. TypeOK
  <2>1. BookingTypeOK
    BY DEF BookingTypeOK, BookingRow, BookingStatus, PaymentStatus
  <2>2. req \in [Requests -> Request]
    BY DEF Idle, Request
  <2>3. admin \in [Bookings -> Incoming \cup BookingStatus]
    BY DEF BookingStatus
  <2>4. session \in [Bookings -> SessionRow]
    BY DEF NoSession, SessionRow, SessionStatus, Live
  <2> QED BY <2>1, <2>2, <2>3, <2>4 DEF TypeOK, Quiet, ConvStatus, Titles
<1>2. RequestsSound
  BY DEF RequestsSound, Sound, Idle
<1>3. \A b \in Bookings : Status(b) = "pending"
  BY DEF Status
<1>4. StatusesReached /\ AcceptedHasPass
  BY <1>3 DEF StatusesReached, Reached, AcceptedHasPass
<1> QED BY <1>1, <1>2, <1>4 DEF IInv

\* A request that is started, or replaced, by a sound record.
LEMMA RequestStarts ==
  ASSUME req \in [Requests -> Request], RequestsSound,
         NEW r \in Requests, NEW q \in Request, Sound(q),
         req' = [req EXCEPT ![r] = q]
  PROVE  req' \in [Requests -> Request] /\ RequestsSound'
BY DEF RequestsSound, Sound, Complete, Ignored, Closed

\* A request that goes on to a next step of its own.
LEMMA RequestResumes ==
  ASSUME req \in [Requests -> Request], RequestsSound,
         NEW r \in Requests, NEW next,
         [req[r] EXCEPT !.at = next] \in Request,
         Sound([req[r] EXCEPT !.at = next]),
         req' = [req EXCEPT ![r].at = next]
  PROVE  req' \in [Requests -> Request] /\ RequestsSound'
<1>1. req' = [req EXCEPT ![r] = [req[r] EXCEPT !.at = next]] OBVIOUS
<1> QED BY <1>1, RequestStarts

\* A request that ends is idle again.
LEMMA RequestEnds ==
  ASSUME req \in [Requests -> Request], RequestsSound,
         NEW r \in Requests, req' = [req EXCEPT ![r] = Idle]
  PROVE  req' \in [Requests -> Request] /\ RequestsSound'
<1>1. Idle \in Request BY DEF Idle, Request
<1>2. Sound(Idle) BY DEF Idle, Sound
<1> QED BY <1>1, <1>2, RequestStarts

\* A step that leaves the tables alone keeps the invariant if it keeps the
\* requests sound.
LEMMA TablesUnchanged ==
  ASSUME IInv, req' \in [Requests -> Request], RequestsSound',
         UNCHANGED <<booking, session, conv, dispute, started, admin>>,
         posted' \in [Bookings -> Titles \cup {"nothing"}]
  PROVE  IInv'
BY DEF IInv, TypeOK, BookingTypeOK, StatusesReached, AcceptedHasPass, Status

\* Writing a status: the row stays a row, and the invariant needs a new pass only
\* for an acceptance.
LEMMA StatusWritten ==
  ASSUME IInv, NEW b \in Bookings, NEW s \in Reached \ {"confirmed"},
         SetStatus(b, s),
         session' \in [Bookings -> SessionRow],
         \A c \in Bookings : session[c].pass => session'[c].pass,
         s = "accepted" => session'[b].pass
  PROVE  BookingTypeOK' /\ StatusesReached' /\ AcceptedHasPass'
<1> USE DEF IInv, TypeOK, BookingTypeOK, SetStatus, Status
<1>1. booking[b] \in BookingRow /\ s \in BookingStatus
  BY DEF Reached, BookingStatus
<1>2. BookingTypeOK'
  BY <1>1 DEF BookingRow
<1>3. \A c \in Bookings : Status(c)' = IF c = b THEN s ELSE Status(c)
  BY <1>1 DEF BookingRow
<1>4. StatusesReached'
  BY <1>3 DEF StatusesReached
<1>5. AcceptedHasPass'
  BY <1>3 DEF AcceptedHasPass
<1> QED BY <1>2, <1>4, <1>5

LEMMA QuietTyped ==
  /\ Quiet \in [Bookings -> Titles \cup {"nothing"}]
  /\ \A b \in Bookings, t \in Titles :
       [Quiet EXCEPT ![b] = t] \in [Bookings -> Titles \cup {"nothing"}]
BY DEF Quiet

-------------------------------------------------------------------------------
(* The callback *)

LEMMA ReadForCallbackStep ==
  ASSUME IInv, NEW r \in Requests, NEW b \in Bookings,
         NEW incoming \in Incoming \cup BookingStatus, NEW pass \in BOOLEAN,
         ReadForCallback(r, b, incoming, pass)
  PROVE  IInv'
<1> DEFINE next == AfterRead(Status(b), incoming, pass)
           q == [For(b, next) EXCEPT !.seen = Status(b), !.incoming = incoming, !.pass = pass]
<1>1. Status(b) \in BookingStatus /\ incoming # None
  BY NoneAssumption DEF IInv, TypeOK, BookingTypeOK, BookingRow, Status
<1>2. next \in {"duplicate", "sync", "idle", "apply"}
  BY DEF AfterRead
<1>3. /\ q.at = next /\ q.booking = b /\ q.seen = Status(b)
      /\ q.incoming = incoming /\ q.pass = pass
  BY DEF For, Idle
<1>4. q \in Request
  BY <1>1, <1>2 DEF For, Idle, Request
<1>5. Sound(q)
  <2>1. ASSUME next = "apply"
        PROVE  /\ incoming \in AppliedStatuses /\ Complete(incoming, pass)
               /\ ~ Ignored(Status(b), incoming)
    BY <2>1 DEF AfterRead, ReadForCallback, AppliedStatuses
  <2> HIDE DEF q, next
  <2> QED BY <1>1, <1>2, <1>3, <2>1 DEF Sound
<1>6. CASE next = "idle"
  <2>1. req' = [req EXCEPT ![r] = Idle]
    BY <1>6 DEF ReadForCallback
  <2>2. req' \in [Requests -> Request] /\ RequestsSound'
    BY <2>1, RequestEnds DEF IInv, TypeOK
  <2> QED BY <2>2, TablesUnchanged, QuietTyped DEF ReadForCallback, Silent
<1>7. CASE next # "idle"
  <2>1. req' = [req EXCEPT ![r] = q]
    BY <1>7 DEF ReadForCallback
  <2>2. req' \in [Requests -> Request] /\ RequestsSound'
    BY <1>4, <1>5, <2>1, RequestStarts DEF IInv, TypeOK
  <2> QED BY <2>2, TablesUnchanged, QuietTyped DEF ReadForCallback, Silent
<1> QED BY <1>6, <1>7

LEMMA ApplyStep ==
  ASSUME IInv, NEW r \in Requests, Apply(r)
  PROVE  IInv'
<1> DEFINE b == req[r].booking
           incoming == req[r].incoming
           pass == req[r].pass
<1>1. /\ req[r] \in Request /\ req[r].at = "apply"
      /\ b \in Bookings /\ pass \in BOOLEAN
      /\ incoming \in AppliedStatuses /\ (incoming = "accepted" => pass)
      /\ incoming # None
  BY DEF IInv, TypeOK, RequestsSound, Sound, Complete, Apply, Resumes, Request
<1>2. req' \in [Requests -> Request] /\ RequestsSound'
  <2>1. AfterApply(incoming) \in {"readForChat", "closeChat", "sync"}
    BY DEF AfterApply
  <2>2. [req[r] EXCEPT !.at = AfterApply(incoming)] \in Request
    BY <1>1, <2>1 DEF Request
  <2>3. Sound([req[r] EXCEPT !.at = AfterApply(incoming)])
    BY <1>1, <2>1 DEF Sound, Request
  <2> QED BY <2>2, <2>3, RequestResumes DEF Apply, Resumes, IInv, TypeOK
<1>3. /\ SessionAfter(session[b], incoming, pass) \in SessionRow
      /\ session[b].pass => SessionAfter(session[b], incoming, pass).pass
      /\ incoming = "accepted" => SessionAfter(session[b], incoming, pass).pass
  BY <1>1 DEF IInv, TypeOK, SessionAfter, Started, Moved, Stamped, SessionRow,
              SessionStatus, Live, AppliedStatuses
<1>4. /\ session' \in [Bookings -> SessionRow]
      /\ \A c \in Bookings : session[c].pass => session'[c].pass
      /\ incoming = "accepted" => session'[b].pass
  BY <1>1, <1>3 DEF IInv, TypeOK, Apply
<1>5. /\ Target(incoming) \in Reached \ {"confirmed"}
      /\ Target(incoming) = "accepted" => incoming = "accepted"
      /\ TitleOf(incoming) \in Titles
  BY <1>1 DEF Target, Reached, AppliedStatuses, TitleOf, Titles
<1>6. SetStatus(b, Target(incoming))
  BY DEF Apply
<1>7. BookingTypeOK' /\ StatusesReached' /\ AcceptedHasPass'
  BY <1>1, <1>4, <1>5, <1>6, StatusWritten
<1>8. posted' \in [Bookings -> Titles \cup {"nothing"}]
  BY <1>1, <1>5, QuietTyped DEF Apply, Post
<1> QED BY <1>2, <1>4, <1>7, <1>8 DEF IInv, TypeOK, Apply

LEMMA Suspended ==
  ASSUME IInv, NEW r \in Requests
  PROVE  req[r] \in Request /\ Sound(req[r])
BY DEF IInv, TypeOK, RequestsSound

\* A request resumed at a step that carries nothing new.
LEMMA Goes ==
  ASSUME IInv, NEW r \in Requests, NEW here, NEW next, Resumes(r, here, next),
         here # "idle",
         \/ next \in {"findStarted", "postStarted", "sync"} /\ req[r].incoming # None
         \/ next \in {"checkInCommit", "endCommit"}
         \/ next \in {"modifyCall", "modifyRollback"} /\ here \in {"modify", "modifyCall"}
  PROVE  req' \in [Requests -> Request] /\ RequestsSound'
<1> DEFINE q == [req[r] EXCEPT !.at = next]
<1>1. q \in Request
  BY Suspended DEF Request
<1>2. Sound(q)
  BY Suspended DEF Sound, Resumes, Request
<1> QED BY <1>1, <1>2, RequestResumes DEF Resumes, IInv, TypeOK

LEMMA DuplicateStep ==
  ASSUME IInv, NEW r \in Requests, Duplicate(r)
  PROVE  IInv'
<1> DEFINE b == req[r].booking
<1>1. /\ b \in Bookings /\ req[r].incoming # None
      /\ req' \in [Requests -> Request] /\ RequestsSound'
  BY Suspended, Goes DEF Duplicate, Resumes, Sound
<1>2. /\ Replayed(session[b], req[r].incoming) \in SessionRow
      /\ session[b].pass => Replayed(session[b], req[r].incoming).pass
  BY <1>1 DEF IInv, TypeOK, Replayed, Started, Moved, Stamped, SessionRow,
              SessionStatus, Live
<1>3. /\ session' \in [Bookings -> SessionRow]
      /\ \A c \in Bookings : session[c].pass => session'[c].pass
  BY <1>1, <1>2 DEF IInv, TypeOK, Duplicate
<1>4. BookingTypeOK' /\ StatusesReached' /\ AcceptedHasPass'
  BY <1>3 DEF IInv, TypeOK, BookingTypeOK, StatusesReached, AcceptedHasPass, Status, Duplicate
<1> QED BY <1>1, <1>3, <1>4, QuietTyped DEF IInv, TypeOK, Duplicate, Silent

LEMMA NotificationSteps ==
  ASSUME IInv, NEW r \in Requests, FindStarted(r) \/ PostStarted(r)
  PROVE  IInv'
<1>1. req[r].incoming # None /\ req[r].booking \in Bookings
  BY Suspended DEF FindStarted, PostStarted, Resumes, Sound
<1>2. req' \in [Requests -> Request] /\ RequestsSound'
  BY <1>1, Goes DEF FindStarted, PostStarted
<1>3. posted' \in [Bookings -> Titles \cup {"nothing"}] /\ started' \in BOOLEAN
  BY <1>1, QuietTyped DEF FindStarted, PostStarted, Silent, Post, Titles, IInv, TypeOK
<1> QED BY <1>2, <1>3 DEF FindStarted, PostStarted, IInv, TypeOK, BookingTypeOK,
                          StatusesReached, AcceptedHasPass, Status

LEMMA SyncStep ==
  ASSUME IInv, NEW r \in Requests, Sync(r)
  PROVE  IInv'
<1>1. /\ req[r].incoming \in Incoming \cup BookingStatus
      /\ req[r].booking \in Bookings
  BY Suspended DEF Sync, Ends, Sound, Request
<1>2. req' \in [Requests -> Request] /\ RequestsSound'
  BY RequestEnds DEF Sync, Ends, IInv, TypeOK
<1>3. admin' \in [Bookings -> Incoming \cup BookingStatus]
  BY <1>1 DEF Sync, IInv, TypeOK
<1> QED BY <1>2, <1>3, QuietTyped DEF Sync, Silent, IInv, TypeOK, BookingTypeOK,
                          StatusesReached, AcceptedHasPass, Status

-------------------------------------------------------------------------------
(* The conversation *)

LEMMA ChatSteps ==
  ASSUME IInv, NEW r \in Requests, ReadForChat(r) \/ WriteChat(r) \/ CloseChat(r)
  PROVE  IInv'
<1>1. /\ req[r] \in Request /\ Sound(req[r]) /\ req[r].booking \in Bookings
      /\ \A s : DerivedChat(s) \in ConvStatus
  BY Suspended DEF ReadForChat, WriteChat, CloseChat, Ends, Resumes, Sound,
                   DerivedChat, ConvStatus
<1>2. req' \in [Requests -> Request] /\ RequestsSound'
  <2>1. CASE ReadForChat(r)
    <3> DEFINE q == [req[r] EXCEPT !.at = "writeChat",
                                   !.chat = DerivedChat(Status(req[r].booking))]
    <3>1. q \in Request
      BY <1>1 DEF Request
    <3>2. Sound(q)
      BY <1>1 DEF Sound, Request
    <3>3. req' = [req EXCEPT ![r] = q]
      BY <2>1, <1>1 DEF ReadForChat, IInv, TypeOK
    <3> QED BY <3>1, <3>2, <3>3, RequestStarts DEF IInv, TypeOK
  <2>2. CASE WriteChat(r)
    BY <2>2, Goes, RequestEnds DEF WriteChat, Ends, IInv, TypeOK
  <2>3. CASE CloseChat(r)
    BY <1>1, <2>3, Goes DEF CloseChat, Resumes, Sound
  <2> QED BY <2>1, <2>2, <2>3
<1>3. conv' \in [Bookings -> ConvStatus \cup {"none"}]
  BY <1>1 DEF ReadForChat, WriteChat, CloseChat, Ends, Resumes, Sound, IInv, TypeOK
<1> QED BY <1>2, <1>3, QuietTyped
        DEF ReadForChat, WriteChat, CloseChat, Silent, IInv, TypeOK, BookingTypeOK,
            StatusesReached, AcceptedHasPass, Status

-------------------------------------------------------------------------------
(* The customer's operations *)

\* Requests that only read: they carry a booking and what they read of it.
LEMMA ArrivalSteps ==
  ASSUME IInv, NEW r \in Requests, NEW b \in Bookings,
         \/ OpenChat(r, b) \/ Dispute(r, b) \/ CheckIn(r, b) \/ End(r, b)
         \/ \E tier \in RefundTiers : Cancel(r, b, tier)
         \/ \E total \in Amounts : Modify(r, b, total)
         \/ \E reply \in {"accepted", "declined"} : Counter(r, b, reply)
  PROVE  IInv'
<1>1. PICK q : /\ req' = [req EXCEPT ![r] = q]
               /\ \/ q \in {For(b, "readForChat"), For(b, "dispute"),
                            For(b, "checkIn"), For(b, "end")}
                  \/ \E tier \in RefundTiers : q = [For(b, "cancel") EXCEPT !.tier = tier]
                  \/ \E total \in Amounts :
                       q = [For(b, "modify") EXCEPT !.old = booking[b].total, !.new = total]
                  \/ \E reply \in {"accepted", "declined"} :
                       q = [For(b, "counter") EXCEPT !.incoming = reply]
  BY DEF OpenChat, Dispute, CheckIn, End, Cancel, Modify, Counter, Arrives
<1>2. booking[b].total \in Amounts
  BY DEF IInv, TypeOK, BookingTypeOK, BookingRow
<1>3. q \in Request
  BY <1>1, <1>2 DEF For, Idle, Request, BookingStatus
<1>4. Sound(q)
  <2>1. /\ q.at \in {"readForChat", "dispute", "checkIn", "end", "cancel", "modify", "counter"}
        /\ q.booking = b
    BY <1>1 DEF For, Idle
  <2>2. q.at = "modify" => q.new \in Amounts /\ q.old \in Amounts
    BY <1>1, <1>2 DEF For, Idle
  <2>3. q.at = "counter" => q.incoming # None
    BY <1>1, NoneAssumption DEF For, Idle, BookingStatus
  <2> QED BY <2>1, <2>2, <2>3 DEF Sound
<1>5. req' \in [Requests -> Request] /\ RequestsSound'
  BY <1>1, <1>3, <1>4, RequestStarts DEF IInv, TypeOK
<1>6. /\ dispute' \subseteq Bookings
      /\ UNCHANGED <<booking, session, conv, started, admin>>
      /\ posted' = Quiet
  BY DEF OpenChat, Dispute, CheckIn, End, Cancel, Modify, Counter, Silent, IInv, TypeOK
<1> QED BY <1>5, <1>6, QuietTyped
        DEF IInv, TypeOK, BookingTypeOK, StatusesReached, AcceptedHasPass, Status

LEMMA CancelWriteStep ==
  ASSUME IInv, NEW r \in Requests, CancelWrite(r)
  PROVE  IInv'
<1> DEFINE b == req[r].booking
           q == [For(b, "sync") EXCEPT !.incoming = "cancelled"]
<1>1. b \in Bookings
  BY Suspended DEF CancelWrite, Sound
<1>2. q \in Request /\ Sound(q)
  BY <1>1, NoneAssumption DEF For, Idle, Request, Sound, BookingStatus
<1>3. req' \in [Requests -> Request] /\ RequestsSound'
  BY <1>2, RequestStarts DEF CancelWrite, IInv, TypeOK
<1>4. BookingTypeOK' /\ StatusesReached' /\ AcceptedHasPass'
  BY <1>1, StatusWritten DEF CancelWrite, Reached, IInv, TypeOK
<1> QED BY <1>3, <1>4, QuietTyped DEF CancelWrite, Silent, IInv, TypeOK

\* Writing a total leaves the statuses alone.
LEMMA TotalWritten ==
  ASSUME IInv, NEW b \in Bookings, NEW t \in Amounts, SetTotal(b, t), UNCHANGED session
  PROVE  BookingTypeOK' /\ StatusesReached' /\ AcceptedHasPass'
<1>1. /\ BookingTypeOK'
      /\ \A c \in Bookings : /\ Status(c)' = Status(c)
                            /\ booking'[c].paymentStatus = booking[c].paymentStatus
  BY DEF IInv, TypeOK, BookingTypeOK, BookingRow, SetTotal, Status
<1> QED BY <1>1 DEF IInv, StatusesReached, AcceptedHasPass

LEMMA ModifySteps ==
  ASSUME IInv, NEW r \in Requests, ModifyWrite(r) \/ ModifyCall(r) \/ ModifyRollback(r)
  PROVE  IInv'
<1>1. /\ req[r].booking \in Bookings
      /\ ModifyWrite(r) \/ ModifyCall(r) => req[r].new \in Amounts
      /\ req[r].old \in Amounts
  BY Suspended DEF ModifyWrite, ModifyCall, ModifyRollback, Resumes, Ends, Sound
<1>2. req' \in [Requests -> Request] /\ RequestsSound'
  BY Goes, RequestEnds
     DEF ModifyWrite, ModifyCall, ModifyRollback, Resumes, Ends, IInv, TypeOK
<1>3. CASE ModifyCall(r)
  BY <1>2, <1>3, QuietTyped DEF ModifyCall, Silent, IInv, TypeOK, BookingTypeOK,
     StatusesReached, AcceptedHasPass, Status
<1>4. CASE ModifyWrite(r) \/ ModifyRollback(r)
  <2>1. BookingTypeOK' /\ StatusesReached' /\ AcceptedHasPass'
    BY <1>1, <1>4, TotalWritten DEF ModifyWrite, ModifyRollback
  <2> QED BY <1>2, <1>4, <2>1, QuietTyped
          DEF ModifyWrite, ModifyRollback, Silent, IInv, TypeOK
<1> QED BY <1>3, <1>4

LEMMA CounterSteps ==
  ASSUME IInv, NEW r \in Requests,
         CounterCallback(r) \/ \E pass \in BOOLEAN : CounterAnswered(r, pass)
  PROVE  IInv'
<1>1. /\ req[r] \in Request /\ Sound(req[r])
      /\ req[r].booking \in Bookings /\ req[r].incoming # None
      /\ req[r].at \in {"counter", "callback"}
  BY Suspended DEF CounterCallback, CounterAnswered, Sound
<1>2. CASE CounterCallback(r)
  BY <1>1, <1>2, ReadForCallbackStep DEF CounterCallback, Request
<1>3. CASE \E pass \in BOOLEAN : CounterAnswered(r, pass)
  <2>1. PICK pass \in BOOLEAN : CounterAnswered(r, pass)
    BY <1>3
  <2> DEFINE q == [req[r] EXCEPT !.at = "callback", !.pass = pass]
  <2>2. q \in Request
    BY <1>1 DEF Request
  <2>3. Sound(q)
    BY <1>1 DEF Sound, Request
  <2>4. req' = [req EXCEPT ![r] = q]
    BY <2>1 DEF CounterAnswered, IInv, TypeOK
  <2>5. req' \in [Requests -> Request] /\ RequestsSound'
    BY <2>2, <2>3, <2>4, RequestStarts DEF IInv, TypeOK
  <2> QED BY <2>1, <2>5, TablesUnchanged, QuietTyped DEF CounterAnswered, Silent
<1> QED BY <1>2, <1>3

LEMMA DisputeWriteStep ==
  ASSUME IInv, NEW r \in Requests, DisputeWrite(r)
  PROVE  IInv'
<1>1. req[r].booking \in Bookings
  BY Suspended DEF DisputeWrite, Ends, Sound
<1>2. req' \in [Requests -> Request] /\ RequestsSound'
  BY RequestEnds DEF DisputeWrite, Ends, IInv, TypeOK
<1>3. BookingTypeOK' /\ StatusesReached' /\ AcceptedHasPass'
  BY <1>1, StatusWritten DEF DisputeWrite, Reached, IInv, TypeOK
<1> QED BY <1>2, <1>3, QuietTyped DEF DisputeWrite, Silent, IInv, TypeOK

-------------------------------------------------------------------------------
(* The session *)

LEMMA SessionReadSteps ==
  ASSUME IInv, NEW r \in Requests, CheckInSession(r) \/ EndConfirmed(r)
  PROVE  IInv'
<1>1. req' \in [Requests -> Request] /\ RequestsSound'
  BY Goes, RequestEnds DEF CheckInSession, EndConfirmed, Ends, IInv, TypeOK
<1> QED BY <1>1, TablesUnchanged, QuietTyped DEF CheckInSession, EndConfirmed, Silent

LEMMA SessionWriteSteps ==
  ASSUME IInv, NEW r \in Requests, CheckInCommit(r) \/ EndCommit(r)
  PROVE  IInv'
<1>1. req[r].booking \in Bookings
  BY Suspended DEF CheckInCommit, EndCommit, Ends, Sound
<1>2. req' \in [Requests -> Request] /\ RequestsSound'
  BY RequestEnds DEF CheckInCommit, EndCommit, Ends, IInv, TypeOK
<1>3. PICK s \in {"checked_in", "completed"}, i \in {"unset", "set", "reset"} :
        session' = [session EXCEPT ![req[r].booking] =
                      [session[req[r].booking] EXCEPT !.status = s, !.checkIn = i]]
  <2>1. /\ session \in [Bookings -> SessionRow] /\ session[req[r].booking] \in SessionRow
    BY <1>1 DEF IInv, TypeOK
  <2>2. CASE CheckInCommit(r)
    BY <2>1, <2>2 DEF CheckInCommit, Stamped
  <2>3. CASE EndCommit(r)
    BY <2>1, <2>3, <1>1 DEF EndCommit, SessionRow
  <2> QED BY <2>2, <2>3
<1>4. /\ session' \in [Bookings -> SessionRow]
      /\ \A c \in Bookings : session[c].pass => session'[c].pass
  BY <1>1, <1>3 DEF IInv, TypeOK, SessionRow, SessionStatus, Live
<1>5. BookingTypeOK' /\ StatusesReached' /\ AcceptedHasPass'
  BY <1>1, <1>4, StatusWritten DEF CheckInCommit, EndCommit, Reached
<1>6. posted' \in [Bookings -> Titles \cup {"nothing"}]
  BY <1>1, QuietTyped DEF CheckInCommit, EndCommit, Silent, Post, Titles
<1> QED BY <1>2, <1>5, <1>6, <1>4 DEF CheckInCommit, EndCommit, IInv, TypeOK

\* A payment confirms an accepted booking, which has its pass already.
LEMMA PayStep ==
  ASSUME IInv, NEW b \in Bookings, Pay(b)
  PROVE  IInv'
<1>1. booking[b] \in BookingRow /\ Status(b) = "accepted"
  BY DEF IInv, TypeOK, BookingTypeOK, Pay, SettlementMove, Settleable, Status
<1>2. BookingTypeOK'
  BY <1>1 DEF IInv, TypeOK, BookingTypeOK, Pay, SettlementMove, Settled, BookingRow,
              BookingStatus, PaymentStatus
<1>3. \A c \in Bookings : Status(c)' = IF c = b THEN "confirmed" ELSE Status(c)
  BY <1>1 DEF IInv, TypeOK, BookingTypeOK, Pay, SettlementMove, Settled, BookingRow, Status
<1>4. \A c \in Bookings : c # b => booking'[c] = booking[c]
  BY DEF Pay, SettlementMove, IInv, TypeOK, BookingTypeOK
<1>5. StatusesReached' /\ AcceptedHasPass'
  BY <1>1, <1>3, <1>4 DEF IInv, StatusesReached, Reached, AcceptedHasPass, Pay
<1> QED BY <1>2, <1>5, QuietTyped
        DEF Pay, Silent, IInv, TypeOK, RequestsSound, Sound, Complete, Ignored, Closed

-------------------------------------------------------------------------------
(* Theorems *)

\* Every step of every operation keeps the inductive invariant.
LEMMA NextIInv == IInv /\ [Next]_vars => IInv'
<1> SUFFICES ASSUME IInv, [Next]_vars PROVE IInv' OBVIOUS
<1>1. CASE UNCHANGED vars
  BY <1>1 DEF vars, IInv, TypeOK, BookingTypeOK, RequestsSound, StatusesReached,
              AcceptedHasPass, Status, Sound, Complete, Ignored, Closed
<1>2. ASSUME NEW r \in Requests, Proceed(r) PROVE IInv'
  BY <1>2, ApplyStep, DuplicateStep, NotificationSteps, SyncStep, ChatSteps,
     CancelWriteStep, ModifySteps, CounterSteps, DisputeWriteStep,
     SessionReadSteps, SessionWriteSteps DEF Proceed
<1>3. ASSUME NEW r \in Requests, Abort(r) PROVE IInv'
  BY <1>3, RequestEnds, TablesUnchanged, QuietTyped DEF Abort, Silent, IInv, TypeOK
<1>4. ASSUME NEW r \in Requests, NEW b \in Bookings, Arrive(r, b) PROVE IInv'
  <2>1. CASE \E incoming \in Incoming, pass \in BOOLEAN : Callback(r, b, incoming, pass)
    BY <2>1, ReadForCallbackStep DEF Callback
  <2>2. CASE ~ \E incoming \in Incoming, pass \in BOOLEAN : Callback(r, b, incoming, pass)
    BY <1>4, <2>2, ArrivalSteps DEF Arrive
  <2> QED BY <2>1, <2>2
<1>5. ASSUME NEW b \in Bookings, Pay(b) PROVE IInv'
  BY <1>5, PayStep
<1> QED BY <1>1, <1>2, <1>3, <1>4, <1>5 DEF Next

\* The inductive invariant holds in every reachable state.
THEOREM Invariance == Spec => []IInv
<1> QED BY InitIInv, NextIInv, PTL DEF Spec

\* Every variable keeps its type, whatever races with whatever.
THEOREM TypeCorrect == Spec => []TypeOK
<1>1. IInv => TypeOK BY DEF IInv
<1> QED BY <1>1, Invariance, PTL

\* An accepted, a confirmed and a paid booking always has a session with a pass
\* code: every path to "accepted" runs through the callback's transaction, which
\* writes the pass its request was checked to bring, and no step takes one away.
THEOREM PassCodeKept == Spec => []AcceptedHasPass
<1>1. IInv => AcceptedHasPass BY DEF IInv
<1> QED BY <1>1, Invariance, PTL

-------------------------------------------------------------------------------
(* What a step may do to a booking *)

\* Every step of a handler writes at most one booking, and there a status or a
\* total.
LEMMA HandlerWrites ==
  ASSUME IInv,
         \/ \E r \in Requests : Proceed(r) \/ Abort(r)
         \/ \E r \in Requests, b \in Bookings : Arrive(r, b)
  PROVE  \/ UNCHANGED booking
         \/ \E r \in Requests : Apply(r)
         \/ \E b \in Bookings, s \in {"cancelled", "disputed", "in_progress", "completed"} :
              SetStatus(b, s)
         \/ \E b \in Bookings, t \in Amounts : SetTotal(b, t)
<1>1. CASE \E r \in Requests, b \in Bookings : Arrive(r, b)
  BY <1>1 DEF Arrive, Callback, ReadForCallback, OpenChat, Dispute, CheckIn, End,
              Cancel, Modify, Counter
<1>2. ASSUME NEW r \in Requests, Proceed(r) \/ Abort(r), ~ Apply(r)
      PROVE  \/ UNCHANGED booking
             \/ \E b \in Bookings, s \in {"cancelled", "disputed", "in_progress", "completed"} :
                  SetStatus(b, s)
             \/ \E b \in Bookings, t \in Amounts : SetTotal(b, t)
  <2>1. CASE CancelWrite(r) \/ DisputeWrite(r) \/ CheckInCommit(r) \/ EndCommit(r)
    <3>1. req[r].booking \in Bookings
      BY <2>1, Suspended DEF CancelWrite, DisputeWrite, CheckInCommit, EndCommit, Ends, Sound
    <3> QED BY <2>1, <3>1 DEF CancelWrite, DisputeWrite, CheckInCommit, EndCommit
  <2>2. CASE ModifyWrite(r) \/ ModifyRollback(r)
    <3>1. /\ req[r].booking \in Bookings /\ req[r].old \in Amounts
          /\ ModifyWrite(r) => req[r].new \in Amounts
      BY <2>2, Suspended DEF ModifyWrite, ModifyRollback, Resumes, Ends, Sound
    <3> QED BY <2>2, <3>1 DEF ModifyWrite, ModifyRollback
  <2>3. CASE ~ (\/ CancelWrite(r) \/ DisputeWrite(r) \/ CheckInCommit(r) \/ EndCommit(r)
                \/ ModifyWrite(r) \/ ModifyRollback(r))
    BY <1>2, <2>3 DEF Proceed, Abort, Duplicate, FindStarted, PostStarted, Sync,
         ReadForChat, WriteChat, CloseChat, ModifyCall, CounterAnswered,
         CounterCallback, ReadForCallback, CheckInSession, EndConfirmed
  <2> QED BY <2>1, <2>2, <2>3
<1> QED BY <1>1, <1>2

\* The other steps leave the bookings alone, or settle one.
LEMMA BookingWrites ==
  ASSUME IInv, [Next]_vars
  PROVE  \/ UNCHANGED booking
         \/ \E r \in Requests : Apply(r)
         \/ \E b \in Bookings, s \in {"cancelled", "disputed", "in_progress", "completed"} :
              SetStatus(b, s)
         \/ \E b \in Bookings, t \in Amounts : SetTotal(b, t)
         \/ \E b \in Bookings : Pay(b)
<1>1. CASE UNCHANGED vars
  BY <1>1 DEF vars
<1> QED BY <1>1, HandlerWrites DEF Next

\* The transaction of a callback finds the status its request was checked against.
LEMMA ApplyMoves ==
  ASSUME IInv, NEW r \in Requests, Apply(r)
  PROVE  \E b \in Bookings, s \in Reached \ {"confirmed"} :
           /\ SetStatus(b, s)
           /\ s \in {"accepted", "counter_proposed"} =>
                Status(b) \notin Closed \cup {"confirmed", "in_progress"}
<1> DEFINE b == req[r].booking
           incoming == req[r].incoming
<1>1. /\ b \in Bookings /\ incoming \in AppliedStatuses
      /\ ~ Ignored(req[r].seen, incoming)
      /\ Status(b) = req[r].seen /\ SetStatus(b, Target(incoming))
  BY Suspended DEF Apply, Resumes, Sound, Unmoved
<1>2. /\ Target(incoming) \in Reached \ {"confirmed"}
      /\ Target(incoming) \in {"accepted", "counter_proposed"} => Target(incoming) = incoming
  BY <1>1 DEF Target, AppliedStatuses, Reached
<1>3. Target(incoming) \in {"accepted", "counter_proposed"} =>
        Status(b) \notin Closed \cup {"confirmed", "in_progress"}
  BY <1>1, <1>2 DEF Ignored
<1> QED BY <1>1, <1>2, <1>3

\* What the value of Status is after each kind of write.
LEMMA StatusAfterWrite ==
  ASSUME IInv, NEW b \in Bookings
  PROVE  /\ \A s : SetStatus(b, s) =>
              \A c \in Bookings : Status(c)' = IF c = b THEN s ELSE Status(c)
         /\ \A t : SetTotal(b, t) => \A c \in Bookings : Status(c)' = Status(c)
         /\ SettlementMove(b) =>
              \A c \in Bookings : Status(c)' = IF c = b THEN "confirmed" ELSE Status(c)
<1>1. booking \in [Bookings -> BookingRow] /\ booking[b] \in BookingRow
  BY DEF IInv, TypeOK, BookingTypeOK
<1> QED BY <1>1 DEF SetStatus, SetTotal, SettlementMove, Settled, Status, BookingRow

\* A booking that was closed, confirmed or started never goes back on offer,
\* however stale the callback: its update is conditional on the status the
\* callback was checked against.
THEOREM NeverOfferedAgain == Spec => NeverBackOnOffer
<1> DEFINE Open == {"pending", "counter_proposed", "accepted", "disputed"}
           Kept == \A b \in Bookings :
                     Status(b)' # Status(b) /\ Status(b)' \in {"accepted", "counter_proposed"} =>
                       Status(b) \in Open
<1>1. ASSUME IInv, [Next]_vars PROVE [Kept]_vars
  <2>1. \A b \in Bookings : Status(b) \in Reached
    BY <1>1 DEF IInv, StatusesReached
  <2>2. CASE \E r \in Requests : Apply(r)
    <3>1. PICK b \in Bookings, s \in Reached :
            /\ SetStatus(b, s)
            /\ s \in {"accepted", "counter_proposed"} =>
                 Status(b) \notin Closed \cup {"confirmed", "in_progress"}
      BY <1>1, <2>2, ApplyMoves
    <3>2. \A c \in Bookings : Status(c)' = IF c = b THEN s ELSE Status(c)
      BY <1>1, <3>1, StatusAfterWrite
    <3> QED BY <2>1, <3>1, <3>2 DEF Reached, Closed
  <2>3. CASE ~ \E r \in Requests : Apply(r)
    <3>1. \/ UNCHANGED booking
          \/ \E b \in Bookings, s \in {"cancelled", "disputed", "in_progress", "completed"} :
               SetStatus(b, s)
          \/ \E b \in Bookings, t \in Amounts : SetTotal(b, t)
          \/ \E b \in Bookings : SettlementMove(b)
      BY <1>1, <2>3, BookingWrites DEF Pay
    <3>2. CASE UNCHANGED booking
      BY <3>2 DEF Status
    <3> QED BY <1>1, <3>1, <3>2, StatusAfterWrite
  <2> QED BY <2>2, <2>3
<1>2. IInv /\ [Next]_vars => [Kept]_vars
  BY <1>1
<1> QED BY <1>2, Invariance, PTL DEF Spec, NeverBackOnOffer

\* A handler's step on a booking is a move that PaymentService is modelled against.
LEMMA HandlerMoves ==
  ASSUME IInv,
         \/ \E r \in Requests : Proceed(r) \/ Abort(r)
         \/ \E r \in Requests, b \in Bookings : Arrive(r, b)
  PROVE  UNCHANGED booking \/ \E b \in Bookings : LifecycleMove(b)
<1>1. \A b \in Bookings : booking[b] \in BookingRow
  BY DEF IInv, TypeOK, BookingTypeOK
<1>2. ASSUME NEW b \in Bookings, NEW s \in Reached \ {"confirmed"}, SetStatus(b, s)
      PROVE  LifecycleMove(b)
  <2>1. booking[b].total \in Amounts /\ s \in Lifecycle
    BY <1>1, LifecycleComplete DEF BookingRow, Reached, BookingStatus
  <2>2. booking' = [booking EXCEPT ![b].status = s, ![b].total = booking[b].total]
    BY <1>1, <1>2 DEF SetStatus, BookingRow
  <2> QED BY <2>1, <2>2 DEF LifecycleMove
<1>3. ASSUME NEW b \in Bookings, NEW t \in Amounts, SetTotal(b, t)
      PROVE  LifecycleMove(b)
  <2>1. booking' = [booking EXCEPT ![b].status = booking[b].status, ![b].total = t]
    BY <1>1, <1>3 DEF SetTotal, BookingRow
  <2> QED BY <2>1 DEF LifecycleMove
<1> QED BY <1>2, <1>3, HandlerWrites, ApplyMoves DEF Reached

-------------------------------------------------------------------------------
(***************************************************************************)
(* Sessions and disputes: what rests on the rows a suspended request has   *)
(* seen and nobody takes back.                                             *)
(***************************************************************************)

\* A running session has its start time, a pass is stored in an existing row.
RowSound(row) ==
  /\ row.status \in Live => row.checkIn # "unset"
  /\ row.pass => row.status # "none"

RowsSound == \A b \in Bookings : RowSound(session[b])

\* No step takes a session row or its pass away.
RowKept(row, next) ==
  /\ row.pass => next.pass
  /\ row.status # "none" => next.status # "none"

\* What a suspended request can count on: the rows it has seen or written.
Backed(q, rows, disputes) ==
  /\ q.at = "apply" => q.incoming # q.seen
  /\ q.at = "duplicate" /\ q.incoming = "accepted" => rows[q.booking].pass
  /\ q.at = "checkInCommit" => rows[q.booking].pass
  /\ q.at \in {"end", "endCommit"} => rows[q.booking].status # "none"
  /\ q.at = "dispute" => q.booking \in disputes

RequestsBacked == \A r \in Requests : Backed(req[r], session, dispute)

SInv == IInv /\ RowsSound /\ RequestsBacked /\ DisputeOnRecord
-------------------------------------------------------------------------------

LEMMA InitSInv == Init => SInv
<1> SUFFICES ASSUME Init PROVE SInv OBVIOUS
<1>1. IInv
  BY InitIInv
<1>2. RowsSound
  BY DEF Init, RowsSound, RowSound, NoSession, Live
<1>3. RequestsBacked
  BY DEF Init, RequestsBacked, Backed, Idle
<1>4. DisputeOnRecord
  BY DEF Init, BookingInit, DisputeOnRecord, Status
<1> QED BY <1>1, <1>2, <1>3, <1>4 DEF SInv

-------------------------------------------------------------------------------
(* The session rows *)

\* The values each operation writes into a sound row.
LEMMA RowWritten ==
  ASSUME NEW row \in SessionRow, RowSound(row), NEW incoming, NEW pass \in BOOLEAN
  PROVE  /\ incoming \in AppliedStatuses /\ Complete(incoming, pass) =>
              /\ RowSound(SessionAfter(row, incoming, pass))
              /\ RowKept(row, SessionAfter(row, incoming, pass))
         /\ RowSound(Replayed(row, incoming)) /\ RowKept(row, Replayed(row, incoming))
         /\ row.status # "none" \/ row.pass =>
              /\ RowSound([row EXCEPT !.status = "checked_in", !.checkIn = Stamped(row)])
              /\ RowKept(row, [row EXCEPT !.status = "checked_in", !.checkIn = Stamped(row)])
              /\ RowSound([row EXCEPT !.status = "completed"])
              /\ RowKept(row, [row EXCEPT !.status = "completed"])
<1> USE DEF SessionRow, RowSound, RowKept, Live
<1>1. /\ RowSound(Started(row)) /\ RowKept(row, Started(row))
      /\ RowSound(Moved(row, "completed")) /\ RowKept(row, Moved(row, "completed"))
      /\ RowSound(Moved(row, "cancelled")) /\ RowKept(row, Moved(row, "cancelled"))
  BY DEF Started, Moved, Stamped
<1>2. ASSUME incoming \in AppliedStatuses, Complete(incoming, pass)
      PROVE  /\ RowSound(SessionAfter(row, incoming, pass))
             /\ RowKept(row, SessionAfter(row, incoming, pass))
  <2>1. CASE incoming = "accepted"
    BY <1>2, <2>1 DEF SessionAfter, Complete
  <2>2. CASE incoming \in {"in_progress", "active"}
    BY <1>1, <2>2 DEF SessionAfter
  <2>3. CASE incoming \in {"completed", "cancelled"}
    BY <1>1, <2>3 DEF SessionAfter
  <2>4. CASE incoming \in {"declined", "counter_proposed"}
    BY <2>4 DEF SessionAfter
  <2> QED BY <1>2, <2>1, <2>2, <2>3, <2>4 DEF AppliedStatuses
<1>3. RowSound(Replayed(row, incoming)) /\ RowKept(row, Replayed(row, incoming))
  <2>1. CASE incoming = "accepted"
    BY <2>1 DEF Replayed
  <2>2. CASE incoming = "in_progress"
    BY <1>1, <2>2 DEF Replayed
  <2>3. CASE incoming \notin {"accepted", "in_progress"}
    BY <1>1, <2>3 DEF Replayed
  <2> QED BY <2>1, <2>2, <2>3
<1>4. row.status # "none" \/ row.pass =>
        /\ RowSound([row EXCEPT !.status = "checked_in", !.checkIn = Stamped(row)])
        /\ RowKept(row, [row EXCEPT !.status = "checked_in", !.checkIn = Stamped(row)])
        /\ RowSound([row EXCEPT !.status = "completed"])
        /\ RowKept(row, [row EXCEPT !.status = "completed"])
  BY DEF Stamped
<1> QED BY <1>2, <1>3, <1>4

\* A step of Booking that writes a session is one of these.
LEMMA SessionWrites ==
  ASSUME [Next]_vars
  PROVE  \/ UNCHANGED session
         \/ \E r \in Requests : Apply(r) \/ Duplicate(r) \/ CheckInCommit(r) \/ EndCommit(r)
<1>1. CASE UNCHANGED vars
  BY <1>1 DEF vars
<1>2. CASE \E r \in Requests, b \in Bookings : Arrive(r, b)
  BY <1>2 DEF Arrive, Callback, ReadForCallback, OpenChat, Dispute, CheckIn, End,
              Cancel, Modify, Counter
<1>3. CASE \E b \in Bookings : Pay(b)
  BY <1>3 DEF Pay
<1>4. CASE \E r \in Requests : Proceed(r) \/ Abort(r)
  BY <1>4 DEF Proceed, Abort, FindStarted, PostStarted, Sync, ReadForChat, WriteChat,
       CloseChat, CancelWrite, ModifyWrite, ModifyCall, ModifyRollback, CounterAnswered,
       CounterCallback, ReadForCallback, DisputeWrite, CheckInSession, EndConfirmed
<1> QED BY <1>1, <1>2, <1>3, <1>4 DEF Next

Born(b) ==
  session[b].status = "none" /\ session'[b].status # "none" =>
    Status(b) # "accepted" /\ Status(b)' = "accepted"

\* What a step does to the session rows: they stay sound, lose nothing, and a new
\* one comes with an acceptance.
SessionsMove ==
  /\ RowsSound'
  /\ \A b \in Bookings : RowKept(session[b], session'[b]) /\ Born(b)

\* One row is written, the others stay.
LEMMA OneRowWritten ==
  ASSUME SInv, NEW b \in Bookings, NEW row,
         session' = [session EXCEPT ![b] = row],
         RowSound(row), RowKept(session[b], row), Born(b)
  PROVE  SessionsMove
<1>1. \A c \in Bookings : session'[c] = IF c = b THEN row ELSE session[c]
  BY DEF SInv, IInv, TypeOK
<1> QED BY <1>1 DEF SessionsMove, SInv, RowsSound, RowSound, RowKept, Born

LEMMA SessionsStep ==
  ASSUME SInv, [Next]_vars
  PROVE  SessionsMove
<1>1. \A r \in Requests : /\ req[r] \in Request /\ Sound(req[r])
                          /\ Backed(req[r], session, dispute)
  BY Suspended DEF SInv, RequestsBacked
<1>2. \A b \in Bookings : session[b] \in SessionRow /\ RowSound(session[b])
  BY DEF SInv, IInv, TypeOK, RowsSound
<1>3. CASE UNCHANGED session
  BY <1>3 DEF SessionsMove, SInv, RowsSound, RowSound, RowKept, Born
<1>4. ASSUME NEW r \in Requests, Apply(r) PROVE SessionsMove
  <2>0. PICK b \in Bookings : b = req[r].booking
    BY <1>1, <1>4 DEF Apply, Resumes, Sound
  <2> DEFINE incoming == req[r].incoming
             row == SessionAfter(session[b], incoming, req[r].pass)
  <2>1. /\ req[r].pass \in BOOLEAN /\ req[r].at = "apply"
        /\ incoming \in AppliedStatuses /\ Complete(incoming, req[r].pass)
        /\ incoming # req[r].seen
    BY <1>1, <1>4 DEF Apply, Resumes, Sound, Backed, Request
  <2>2. RowSound(row) /\ RowKept(session[b], row)
    BY <1>2, <2>1, RowWritten
  <2>3. Born(b)
    <3>1. CASE incoming = "accepted"
      <4>1. Target(incoming) = "accepted"
        BY <3>1 DEF Target
      <4>2. SetStatus(b, "accepted")
        BY <1>4, <2>0, <4>1 DEF Apply
      <4>3. Status(b) # "accepted"
        BY <1>4, <2>0, <2>1, <3>1 DEF Apply, Unmoved
      <4>4. Status(b)' = "accepted"
        BY <2>1, <4>2, StatusAfterWrite DEF SInv
      <4> QED BY <4>3, <4>4 DEF Born
    <3>2. CASE incoming # "accepted"
      <4>1. session[b].status = "none" => row.status = "none"
        BY <3>2 DEF SessionAfter, Started, Moved
      <4>2. session'[b] = row
        BY <1>4, <2>0, <2>1 DEF Apply, SInv, IInv, TypeOK
      <4> QED BY <4>1, <4>2 DEF Born
    <3> QED BY <3>1, <3>2
  <2>4. session' = [session EXCEPT ![b] = row]
    BY <1>4, <2>0 DEF Apply
  <2> HIDE DEF row
  <2> QED BY <2>1, <2>2, <2>3, <2>4, OneRowWritten
<1>5. ASSUME NEW r \in Requests, Duplicate(r) PROVE SessionsMove
  <2>0. PICK b \in Bookings : b = req[r].booking
    BY <1>1, <1>5 DEF Duplicate, Resumes, Sound
  <2> DEFINE incoming == req[r].incoming
             row == Replayed(session[b], incoming)
  <2>1. incoming = "accepted" => session[b].pass
    BY <1>1, <1>5, <2>0 DEF Duplicate, Resumes, Sound, Backed
  <2>2. RowSound(row) /\ RowKept(session[b], row)
    BY <1>2, <2>1, RowWritten
  <2>3. session' = [session EXCEPT ![b] = row]
    BY <1>5, <2>0 DEF Duplicate
  <2>4. session[b].status = "none" => row.status = "none"
    BY <1>2, <2>1 DEF RowSound, Replayed, Started, Moved
  <2>5. Born(b)
    BY <2>1, <2>3, <2>4 DEF Born, SInv, IInv, TypeOK
  <2> HIDE DEF row
  <2> QED BY <2>1, <2>2, <2>3, <2>5, OneRowWritten
<1>6. ASSUME NEW r \in Requests, CheckInCommit(r) \/ EndCommit(r) PROVE SessionsMove
  <2>0. PICK b \in Bookings : b = req[r].booking
    BY <1>1, <1>6 DEF CheckInCommit, EndCommit, Ends, Sound
  <2>1. session[b].status # "none"
    BY <1>1, <1>2, <1>6, <2>0 DEF CheckInCommit, EndCommit, Ends, Sound, Backed, RowSound
  <2>2. PICK row : /\ session' = [session EXCEPT ![b] = row]
                   /\ RowSound(row) /\ RowKept(session[b], row)
    <3>1. CASE CheckInCommit(r)
      <4> DEFINE row == [session[b] EXCEPT !.status = "checked_in",
                                           !.checkIn = Stamped(session[b])]
      <4>1. session' = [session EXCEPT ![b] = row]
        BY <2>0, <3>1 DEF CheckInCommit, SInv, IInv, TypeOK
      <4> QED BY <1>2, <2>1, <4>1, RowWritten
    <3>2. CASE EndCommit(r)
      <4> DEFINE row == [session[b] EXCEPT !.status = "completed"]
      <4>1. session' = [session EXCEPT ![b] = row]
        BY <2>0, <3>2 DEF EndCommit, SInv, IInv, TypeOK
      <4> QED BY <1>2, <2>1, <4>1, RowWritten
    <3> QED BY <1>6, <3>1, <3>2
  <2>3. Born(b)
    BY <2>1 DEF Born
  <2> QED BY <2>1, <2>2, <2>3, OneRowWritten
<1> QED BY <1>3, <1>4, <1>5, <1>6, SessionWrites

-------------------------------------------------------------------------------
(* The requests *)

\* One request goes on, the others keep their backing.
LEMMA OneRequestGoes ==
  ASSUME SInv, NEW r \in Requests, NEW q, req' = [req EXCEPT ![r] = q],
         SessionsMove, dispute \subseteq dispute', Backed(q, session', dispute')
  PROVE  RequestsBacked'
<1>1. ASSUME NEW k \in Requests PROVE Backed(req[k], session', dispute')
  <2>1. /\ req[k] \in Request /\ Sound(req[k]) /\ Backed(req[k], session, dispute)
    BY Suspended DEF SInv, RequestsBacked
  <2>2. req[k].at # "idle" => req[k].booking \in Bookings
    BY <2>1 DEF Sound
  <2>3. \A b \in Bookings : RowKept(session[b], session'[b])
    BY DEF SessionsMove
  <2> QED BY <2>1, <2>2, <2>3 DEF Backed, RowKept
<1>2. \A k \in Requests : req'[k] = IF k = r THEN q ELSE req[k]
  BY DEF SInv, IInv, TypeOK
<1> QED BY <1>1, <1>2 DEF RequestsBacked

\* The steps at which a request counts on a row.
Backs == {"apply", "duplicate", "checkInCommit", "end", "endCommit", "dispute"}

LEMMA ReadBacks ==
  ASSUME SInv, SessionsMove, NEW r \in Requests, NEW b \in Bookings,
         NEW incoming, NEW pass, ReadForCallback(r, b, incoming, pass)
  PROVE  RequestsBacked'
<1> DEFINE next == AfterRead(Status(b), incoming, pass)
           q == [For(b, next) EXCEPT !.seen = Status(b), !.incoming = incoming, !.pass = pass]
<1>1. /\ q.at = next /\ q.booking = b /\ q.seen = Status(b) /\ q.incoming = incoming
  BY DEF For, Idle
<1>2. /\ next = "apply" => incoming # Status(b)
      /\ next = "duplicate" => incoming = Status(b)
      /\ next \in {"duplicate", "sync", "idle", "apply"}
  BY DEF AfterRead
<1>3. Status(b) = "accepted" => session'[b].pass
  BY DEF SInv, IInv, AcceptedHasPass, SessionsMove, RowKept
<1>4. UNCHANGED dispute
  BY DEF ReadForCallback
<1>5. Backed(q, session', dispute')
  <2> HIDE DEF next, q
  <2> QED BY <1>1, <1>2, <1>3 DEF Backed
<1>6. Backed(Idle, session', dispute')
  BY DEF Backed, Idle
<1>7. req' = [req EXCEPT ![r] = q] \/ req' = [req EXCEPT ![r] = Idle]
  BY DEF ReadForCallback
<1> HIDE DEF next, q
<1> QED BY <1>4, <1>5, <1>6, <1>7, OneRequestGoes

LEMMA ArrivalBacks ==
  ASSUME SInv, SessionsMove, NEW r \in Requests, NEW b \in Bookings,
         \/ OpenChat(r, b) \/ Dispute(r, b) \/ CheckIn(r, b) \/ End(r, b)
         \/ \E tier \in RefundTiers : Cancel(r, b, tier)
         \/ \E total \in Amounts : Modify(r, b, total)
         \/ \E reply \in {"accepted", "declined"} : Counter(r, b, reply)
  PROVE  RequestsBacked'
<1>1. CASE Dispute(r, b)
  <2>1. /\ For(b, "dispute").at = "dispute" /\ For(b, "dispute").booking = b
        /\ b \in dispute' /\ dispute \subseteq dispute'
        /\ req' = [req EXCEPT ![r] = For(b, "dispute")]
    BY <1>1 DEF Dispute, Arrives, For, Idle
  <2> QED BY <2>1, OneRequestGoes DEF Backed
<1>2. CASE End(r, b)
  <2>1. /\ For(b, "end").at = "end" /\ For(b, "end").booking = b
        /\ session'[b].status # "none" /\ UNCHANGED dispute
        /\ req' = [req EXCEPT ![r] = For(b, "end")]
    BY <1>2 DEF End, Arrives, For, Idle, Live
  <2> QED BY <2>1, OneRequestGoes DEF Backed
<1>3. CASE ~ Dispute(r, b) /\ ~ End(r, b)
  <2>1. PICK q : /\ req' = [req EXCEPT ![r] = q]
                 /\ q.at \in {"readForChat", "checkIn", "cancel", "modify", "counter"}
                 /\ UNCHANGED dispute
    BY <1>3 DEF OpenChat, CheckIn, Cancel, Modify, Counter, Arrives, For, Idle
  <2> QED BY <2>1, OneRequestGoes DEF Backed
<1> QED BY <1>1, <1>2, <1>3

LEMMA ProgressBacks ==
  ASSUME SInv, SessionsMove, NEW r \in Requests, Proceed(r) \/ Abort(r)
  PROVE  RequestsBacked'
<1>1. /\ req[r] \in Request /\ Sound(req[r]) /\ Backed(req[r], session, dispute)
  BY Suspended DEF SInv, RequestsBacked
<1>2. \A b \in Bookings : RowKept(session[b], session'[b])
  BY DEF SessionsMove
<1>3. CASE CounterCallback(r)
  BY <1>1, <1>3, ReadBacks DEF CounterCallback, Sound
<1>4. CASE CheckInSession(r) \/ EndConfirmed(r)
  <2>1. PICK q : /\ req' = [req EXCEPT ![r] = q]
                 /\ \/ q.at = "idle"
                    \/ /\ q.at = "checkInCommit" /\ q.booking = req[r].booking
                       /\ session[req[r].booking].pass
                    \/ /\ q.at = "endCommit" /\ q.booking = req[r].booking
                       /\ req[r].at = "end"
                 /\ req[r].at # "idle" /\ UNCHANGED dispute
    <3> DEFINE c == [req[r] EXCEPT !.at = "checkInCommit"]
               d == [req[r] EXCEPT !.at = "endCommit"]
    <3>1. /\ c.at = "checkInCommit" /\ c.booking = req[r].booking
          /\ d.at = "endCommit" /\ d.booking = req[r].booking
          /\ Idle.at = "idle"
      BY <1>1 DEF Request, Idle
    <3>2. /\ req[r].at # "idle" /\ UNCHANGED dispute
          /\ \/ req' = [req EXCEPT ![r] = Idle]
             \/ req' = [req EXCEPT ![r] = c] /\ session[req[r].booking].pass
             \/ req' = [req EXCEPT ![r] = d] /\ req[r].at = "end"
      BY <1>4 DEF CheckInSession, EndConfirmed, Resumes, Ends
    <3> HIDE DEF c, d
    <3> QED BY <3>1, <3>2
  <2>2. req[r].booking \in Bookings
    BY <1>1, <2>1 DEF Sound
  <2>3. Backed(q, session', dispute')
    BY <1>1, <1>2, <2>1, <2>2 DEF Backed, RowKept
  <2> QED BY <2>1, <2>3, OneRequestGoes
<1>5. CASE ~ (CounterCallback(r) \/ CheckInSession(r) \/ EndConfirmed(r))
  <2>1. PICK q : /\ req' = [req EXCEPT ![r] = q]
                 /\ q.at \notin Backs /\ UNCHANGED dispute
    <3>1. \A next : [req[r] EXCEPT !.at = next].at = next
      BY <1>1 DEF Request
    <3>2. CASE Abort(r) \/ Sync(r) \/ ModifyRollback(r) \/ DisputeWrite(r)
                 \/ CheckInCommit(r) \/ EndCommit(r)
      BY <3>2 DEF Abort, Sync, ModifyRollback, DisputeWrite, CheckInCommit, EndCommit,
                  Ends, Idle, Backs
    <3>3. CASE Apply(r) \/ Duplicate(r) \/ FindStarted(r) \/ PostStarted(r)
                 \/ CloseChat(r) \/ ModifyWrite(r)
      <4>1. PICK next \in {"readForChat", "closeChat", "sync", "findStarted",
                           "postStarted", "modifyCall"} :
              req' = [req EXCEPT ![r] = [req[r] EXCEPT !.at = next]] /\ UNCHANGED dispute
        BY <3>3 DEF Apply, AfterApply, Duplicate, FindStarted, PostStarted, CloseChat,
                    ModifyWrite, Resumes
      <4> QED BY <3>1, <4>1 DEF Backs
    <3>4. CASE WriteChat(r) \/ ModifyCall(r)
      <4>1. \/ req' = [req EXCEPT ![r] = Idle]
            \/ \E next \in {"sync", "modifyRollback"} :
                 req' = [req EXCEPT ![r] = [req[r] EXCEPT !.at = next]]
        BY <3>4 DEF WriteChat, ModifyCall, Resumes, Ends
      <4>2. UNCHANGED dispute
        BY <3>4 DEF WriteChat, ModifyCall
      <4> QED BY <3>1, <4>1, <4>2 DEF Backs, Idle
    <3>5. CASE ReadForChat(r)
      BY <1>1, <3>5 DEF ReadForChat, Backs, Request
    <3>6. CASE CancelWrite(r)
      BY <3>6 DEF CancelWrite, For, Idle, Backs
    <3>7. CASE \E pass \in BOOLEAN : CounterAnswered(r, pass)
      <4>1. PICK pass \in BOOLEAN : CounterAnswered(r, pass)
        BY <3>7
      <4> DEFINE c == [req[r] EXCEPT !.at = "callback", !.pass = pass]
      <4>2. req' = [req EXCEPT ![r] = c] /\ UNCHANGED dispute
        BY <4>1 DEF CounterAnswered, SInv, IInv, TypeOK
      <4>3. c.at \notin Backs
        BY <1>1 DEF Request, Backs
      <4> QED BY <4>2, <4>3
    <3> QED BY <1>5, <3>2, <3>3, <3>4, <3>5, <3>6, <3>7 DEF Proceed
  <2>2. Backed(q, session', dispute')
    BY <2>1 DEF Backed, Backs
  <2> QED BY <2>1, <2>2, OneRequestGoes
<1> QED BY <1>3, <1>4, <1>5

-------------------------------------------------------------------------------
(* The disputes *)

\* A step of Booking that writes a booking is one of these.
LEMMA BookingSteps ==
  ASSUME [Next]_vars
  PROVE  \/ UNCHANGED booking
         \/ \E r \in Requests :
              \/ Apply(r) \/ CancelWrite(r) \/ ModifyWrite(r) \/ ModifyRollback(r)
              \/ DisputeWrite(r) \/ CheckInCommit(r) \/ EndCommit(r)
         \/ \E b \in Bookings : SettlementMove(b)
<1>1. CASE UNCHANGED vars
  BY <1>1 DEF vars
<1>2. CASE \E r \in Requests, b \in Bookings : Arrive(r, b)
  BY <1>2 DEF Arrive, Callback, ReadForCallback, OpenChat, Dispute, CheckIn, End,
              Cancel, Modify, Counter
<1>3. CASE \E b \in Bookings : Pay(b)
  BY <1>3 DEF Pay
<1>4. CASE \E r \in Requests : Proceed(r) \/ Abort(r)
  BY <1>4 DEF Proceed, Abort, Duplicate, FindStarted, PostStarted, Sync, ReadForChat,
       WriteChat, CloseChat, ModifyCall, CounterAnswered, CounterCallback,
       ReadForCallback, CheckInSession, EndConfirmed
<1> QED BY <1>1, <1>2, <1>3, <1>4 DEF Next

\* Only disputeBooking's second write disputes a booking.
LEMMA DisputedBy ==
  ASSUME IInv, [Next]_vars, NEW b \in Bookings,
         Status(b) # "disputed", Status(b)' = "disputed"
  PROVE  \E r \in Requests : DisputeWrite(r) /\ req[r].booking = b
<1>1. \A r \in Requests : req[r] \in Request /\ Sound(req[r])
  BY Suspended
<1>2. CASE UNCHANGED booking
  BY <1>2 DEF Status
<1>3. ASSUME NEW r \in Requests, Apply(r) PROVE FALSE
  <2>1. /\ req[r].booking \in Bookings /\ SetStatus(req[r].booking, Target(req[r].incoming))
        /\ Target(req[r].incoming) # "disputed"
    BY <1>1, <1>3 DEF Apply, Resumes, Sound, Target, AppliedStatuses
  <2> QED BY <2>1, StatusAfterWrite
<1>4. ASSUME NEW r \in Requests, CancelWrite(r) \/ CheckInCommit(r) \/ EndCommit(r)
      PROVE  FALSE
  <2>1. PICK s \in {"cancelled", "in_progress", "completed"} :
          req[r].booking \in Bookings /\ SetStatus(req[r].booking, s)
    BY <1>1, <1>4 DEF CancelWrite, CheckInCommit, EndCommit, Ends, Sound
  <2> QED BY <2>1, StatusAfterWrite
<1>5. ASSUME NEW r \in Requests, ModifyWrite(r) \/ ModifyRollback(r) PROVE FALSE
  <2>1. PICK t : req[r].booking \in Bookings /\ SetTotal(req[r].booking, t)
    BY <1>1, <1>5 DEF ModifyWrite, ModifyRollback, Resumes, Ends, Sound
  <2> QED BY <2>1, StatusAfterWrite
<1>6. ASSUME NEW c \in Bookings, SettlementMove(c) PROVE FALSE
  BY <1>6, StatusAfterWrite
<1>7. ASSUME NEW r \in Requests, DisputeWrite(r) PROVE req[r].booking = b
  <2>1. req[r].booking \in Bookings /\ SetStatus(req[r].booking, "disputed")
    BY <1>1, <1>7 DEF DisputeWrite, Ends, Sound
  <2> QED BY <2>1, StatusAfterWrite
<1> QED BY <1>2, <1>3, <1>4, <1>5, <1>6, <1>7, BookingSteps

\* A dispute row is never deleted.
LEMMA DisputesStay ==
  ASSUME [Next]_vars
  PROVE  dispute \subseteq dispute'
<1>1. CASE UNCHANGED vars
  BY <1>1 DEF vars
<1>2. CASE \E r \in Requests, b \in Bookings : Arrive(r, b)
  BY <1>2 DEF Arrive, Callback, ReadForCallback, OpenChat, Dispute, CheckIn, End,
              Cancel, Modify, Counter
<1>3. CASE \E b \in Bookings : Pay(b)
  BY <1>3 DEF Pay
<1>4. CASE \E r \in Requests : Proceed(r) \/ Abort(r)
  BY <1>4 DEF Proceed, Abort, Apply, Duplicate, FindStarted, PostStarted, Sync,
       ReadForChat, WriteChat, CloseChat, CancelWrite, ModifyWrite, ModifyCall,
       ModifyRollback, CounterAnswered, CounterCallback, ReadForCallback,
       DisputeWrite, CheckInSession, CheckInCommit, EndConfirmed, EndCommit
<1> QED BY <1>1, <1>2, <1>3, <1>4 DEF Next

-------------------------------------------------------------------------------
(* Theorems *)

\* Every step of every operation keeps the sessions' and disputes' invariant.
LEMMA NextSInv == SInv /\ [Next]_vars => SInv'
<1> SUFFICES ASSUME SInv, [Next]_vars PROVE SInv' OBVIOUS
<1>1. IInv /\ IInv'
  BY NextIInv DEF SInv
<1>2. SessionsMove
  BY SessionsStep
<1>3. RequestsBacked'
  <2>1. CASE UNCHANGED vars
    BY <2>1 DEF vars, SInv, RequestsBacked, Backed
  <2>2. ASSUME NEW r \in Requests, NEW b \in Bookings, Arrive(r, b) PROVE RequestsBacked'
    BY <1>2, <2>2, ReadBacks, ArrivalBacks DEF Arrive, Callback
  <2>3. ASSUME NEW b \in Bookings, Pay(b) PROVE RequestsBacked'
    BY <2>3 DEF Pay, SInv, RequestsBacked, Backed
  <2>4. ASSUME NEW r \in Requests, Proceed(r) \/ Abort(r) PROVE RequestsBacked'
    BY <1>2, <2>4, ProgressBacks
  <2> QED BY <2>1, <2>2, <2>3, <2>4 DEF Next
<1>4. DisputeOnRecord'
  <2>1. ASSUME NEW b \in Bookings, Status(b)' = "disputed" PROVE b \in dispute
    <3>1. CASE Status(b) = "disputed"
      BY <3>1 DEF SInv, DisputeOnRecord
    <3>2. CASE Status(b) # "disputed"
      <4>1. PICK r \in Requests : DisputeWrite(r) /\ req[r].booking = b
        BY <1>1, <2>1, <3>2, DisputedBy
      <4> QED BY <4>1 DEF SInv, RequestsBacked, Backed, DisputeWrite, Ends
    <3> QED BY <3>1, <3>2
  <2> QED BY <2>1, DisputesStay DEF DisputeOnRecord
<1> QED BY <1>1, <1>2, <1>3, <1>4 DEF SInv, SessionsMove

\* The sessions, the disputes and what the suspended requests count on stay in
\* order, whatever races with whatever.
THEOREM SessionInvariance == Spec => []SInv
<1> QED BY InitSInv, NextSInv, PTL DEF Spec

\* A running session carries its start time: check-in, the "in_progress" callback
\* and its replay all write the two together, and no other step starts a session.
THEOREM StartIsStamped == Spec => []LiveIsStamped
<1>1. SInv => LiveIsStamped
  BY DEF SInv, RowsSound, RowSound, LiveIsStamped
<1> QED BY <1>1, SessionInvariance, PTL

\* A disputed booking has its dispute row, even when disputeBooking is interrupted
\* between its two writes: the row comes first, and no callback disputes a booking.
THEOREM DisputesRecorded == Spec => []DisputeOnRecord
<1>1. SInv => DisputeOnRecord BY DEF SInv
<1> QED BY <1>1, SessionInvariance, PTL

\* A completed or cancelled booking is rolled back to "in_progress" or "accepted" by
\* no callback, reply, payment or customer operation but a check-in that had read it
\* before: the callback's update is conditional on a status it was checked against.
THEOREM NoCallbackRollsBack == Spec => CallbacksNeverRollBack
<1> DEFINE Kept ==
      \A b \in Bookings :
        Status(b) \in {"completed", "cancelled"} /\ Status(b)' \in {"in_progress", "accepted"} =>
          \E r \in Requests : req[r].at = "checkInCommit" /\ req[r].booking = b
<1>1. ASSUME IInv, [Next]_vars, NEW b \in Bookings,
             Status(b) \in {"completed", "cancelled"}, Status(b)' \in {"in_progress", "accepted"}
      PROVE  \E r \in Requests : req[r].at = "checkInCommit" /\ req[r].booking = b
  <2>1. \A r \in Requests : req[r] \in Request /\ Sound(req[r])
    BY <1>1, Suspended
  <2>2. CASE UNCHANGED booking
    BY <1>1, <2>2 DEF Status
  <2>3. ASSUME NEW r \in Requests, Apply(r) PROVE FALSE
    <3>1. /\ req[r].booking \in Bookings /\ SetStatus(req[r].booking, Target(req[r].incoming))
          /\ ~ Ignored(req[r].seen, req[r].incoming)
          /\ Status(req[r].booking) = req[r].seen
      BY <2>1, <2>3 DEF Apply, Resumes, Sound, Unmoved
    <3>2. Status(req[r].booking) \notin Closed
      BY <3>1 DEF Ignored
    <3> QED BY <1>1, <3>1, <3>2, StatusAfterWrite DEF Closed
  <2>4. ASSUME NEW r \in Requests, CancelWrite(r) \/ DisputeWrite(r) \/ EndCommit(r) PROVE FALSE
    <3>1. PICK s \in {"cancelled", "disputed", "completed"} :
            req[r].booking \in Bookings /\ SetStatus(req[r].booking, s)
      BY <2>1, <2>4 DEF CancelWrite, DisputeWrite, EndCommit, Ends, Sound
    <3> QED BY <1>1, <3>1, StatusAfterWrite
  <2>5. ASSUME NEW r \in Requests, ModifyWrite(r) \/ ModifyRollback(r) PROVE FALSE
    <3>1. PICK t : req[r].booking \in Bookings /\ SetTotal(req[r].booking, t)
      BY <2>1, <2>5 DEF ModifyWrite, ModifyRollback, Resumes, Ends, Sound
    <3> QED BY <1>1, <3>1, StatusAfterWrite
  <2>6. ASSUME NEW c \in Bookings, SettlementMove(c) PROVE FALSE
    BY <1>1, <2>6, StatusAfterWrite
  <2>7. ASSUME NEW r \in Requests, CheckInCommit(r)
        PROVE  \E q \in Requests : req[q].at = "checkInCommit" /\ req[q].booking = b
    <3>1. /\ req[r].at = "checkInCommit" /\ req[r].booking \in Bookings
          /\ SetStatus(req[r].booking, "in_progress")
      BY <2>1, <2>7 DEF CheckInCommit, Ends, Sound
    <3>2. req[r].booking = b
      BY <1>1, <3>1, StatusAfterWrite
    <3> QED BY <3>1, <3>2
  <2> QED BY <1>1, <2>2, <2>3, <2>4, <2>5, <2>6, <2>7, BookingSteps
<1>2. IInv /\ [Next]_vars => [Kept]_vars
  BY <1>1
<1> QED BY <1>2, Invariance, PTL DEF Spec, CallbacksNeverRollBack

\* A session row appears only in the transaction that accepts its booking and never
\* loses its pass code, so a replayed acceptance always finds the row in place.
THEOREM SessionsBornAccepted == Spec => SessionBornAccepted
<1> DEFINE Kept == \A b \in Bookings :
                     /\ session[b].status = "none" /\ session'[b].status # "none" =>
                          Status(b) # "accepted" /\ Status(b)' = "accepted"
                     /\ session[b].pass => session'[b].pass
<1>1. SInv /\ [Next]_vars => [Kept]_vars
  BY SessionsStep DEF SessionsMove, Born, RowKept
<1> QED BY <1>1, SessionInvariance, PTL DEF Spec, SessionBornAccepted

-------------------------------------------------------------------------------
(* The callbacks: what they can count on where only they, payments and       *)
(* modifications write bookings                                              *)

\* The statuses a booking never leaves backwards.
Past == {"in_progress"} \cup Closed

Over == {"completed", "cancelled"}

\* A booking that has not begun has no session that has, a session that is over
\* ended as its booking did, and a booking in progress has been announced to the
\* customer.
Begun(s, row, announced) ==
  /\ s # "disputed"
  /\ s \notin Past => row.status \in {"none", "upcoming"}
  /\ row.status \in Over => s = row.status
  /\ s = "in_progress" => announced

BookingsInOrder == \A b \in Bookings : Begun(Status(b), session[b], started)

ShutBy(chat, s) ==
  /\ chat = "read_only" => s = "completed"
  /\ chat = "closed" => s \in {"cancelled", "declined"}

\* What a suspended request has read still holds of its booking's status s: a
\* closed status is the last one, and one in progress is past going back.
Current(q, s, announced) ==
  /\ q.at \notin {"cancel", "dispute", "checkIn", "checkInCommit", "end", "endCommit",
                  "postStarted"}
  /\ q.at \in {"sync", "closeChat", "duplicate"} /\ q.incoming \in Closed => s = q.incoming
  /\ q.at = "closeChat" => q.incoming \in Closed
  /\ q.at \in {"readForChat", "writeChat"} => q.incoming \notin Closed
  /\ q.at = "writeChat" => ShutBy(q.chat, s)
  /\ q.at = "duplicate" => q.incoming \in {"accepted", "in_progress", "completed"}
  /\ q.at = "findStarted" => q.incoming = "in_progress"
  /\ q.at \in {"duplicate", "findStarted"} /\ q.incoming = "in_progress" =>
       s \in Past /\ announced

RequestsCurrent ==
  \A r \in Requests :
    req[r].at # "idle" => Current(req[r], Status(req[r].booking), started)

CInv == SInv /\ BookingsInOrder /\ RequestsCurrent /\ ShutOnlyWhenOver /\ AdminNotAhead

LEMMA InitCInv == Init => CInv
<1> SUFFICES ASSUME Init PROVE CInv OBVIOUS
<1>1. SInv
  BY InitSInv
<1>2. \A b \in Bookings : Status(b) = "pending"
  BY DEF Init, BookingInit, Status
<1>3. BookingsInOrder
  BY <1>2 DEF Init, BookingsInOrder, Begun, NoSession, Past, Over, Closed
<1>4. RequestsCurrent
  BY DEF Init, RequestsCurrent, Idle
<1>5. ShutOnlyWhenOver /\ AdminNotAhead
  BY DEF Init, ShutOnlyWhenOver, AdminNotAhead, Closed
<1> QED BY <1>1, <1>3, <1>4, <1>5 DEF CInv

\* The steps that the operations left out would take are not there.
LEMMA OnlyCallbackSteps ==
  ASSUME CallbacksOnly, CInv, [Next]_vars
  PROVE  /\ \A r \in Requests : ~ \/ CancelWrite(r) \/ DisputeWrite(r) \/ CheckInSession(r)
                                    \/ CheckInCommit(r) \/ EndConfirmed(r) \/ EndCommit(r)
                                    \/ PostStarted(r)
         /\ \A r \in Requests, b \in Bookings :
              /\ ~ Dispute(r, b) /\ ~ CheckIn(r, b) /\ ~ End(r, b)
              /\ \A tier \in RefundTiers : ~ Cancel(r, b, tier)
<1>1. ASSUME NEW r \in Requests
      PROVE  ~ \/ CancelWrite(r) \/ DisputeWrite(r) \/ CheckInSession(r) \/ CheckInCommit(r)
               \/ EndConfirmed(r) \/ EndCommit(r) \/ PostStarted(r)
  <2>1. req[r].at \notin {"cancel", "dispute", "checkIn", "checkInCommit", "end",
                          "endCommit", "postStarted"}
    BY DEF CInv, RequestsCurrent, Current
  <2> QED BY <2>1 DEF CancelWrite, DisputeWrite, CheckInSession, CheckInCommit,
                      EndConfirmed, EndCommit, PostStarted, Resumes, Ends
<1>2. ASSUME NEW r \in Requests, NEW b \in Bookings
      PROVE  /\ ~ Dispute(r, b) /\ ~ CheckIn(r, b) /\ ~ End(r, b)
             /\ \A tier \in RefundTiers : ~ Cancel(r, b, tier)
  BY DEF CallbacksOnly, Dispute, CheckIn, End, Cancel, Arrives
<1> QED BY <1>1, <1>2

\* The transaction of a callback: it leaves no closed booking, takes none in
\* progress back, and moves the session, the notification and the status together.
LEMMA ApplyCurrent ==
  ASSUME CInv, NEW r \in Requests, Apply(r)
  PROVE  \E b \in Bookings, incoming \in AppliedStatuses :
           /\ req[r].booking = b /\ req[r].incoming = incoming /\ req[r].at = "apply"
           /\ incoming # Status(b) /\ ~ Ignored(Status(b), incoming)
           /\ \A c \in Bookings : Status(c)' = IF c = b THEN Target(incoming) ELSE Status(c)
           /\ session' = [session EXCEPT ![b] = SessionAfter(@, incoming, req[r].pass)]
           /\ started' = (started \/ TitleOf(incoming) = "started")
<1>1. /\ req[r].booking \in Bookings /\ req[r].incoming \in AppliedStatuses
      /\ req[r].at = "apply" /\ ~ Ignored(req[r].seen, req[r].incoming)
      /\ req[r].incoming # req[r].seen /\ Status(req[r].booking) = req[r].seen
  BY Suspended DEF CInv, SInv, RequestsBacked, Backed, Apply, Resumes, Sound, Unmoved
<1>2. \A c \in Bookings :
        Status(c)' = IF c = req[r].booking THEN Target(req[r].incoming) ELSE Status(c)
  BY <1>1, StatusAfterWrite DEF CInv, SInv, Apply
<1> QED BY <1>1, <1>2 DEF Apply

\* What a step may do to a booking's status: nothing is taken back.
Forward(s, next, announced) ==
  /\ s \in Closed => next = s
  /\ s \in Past => next \in Past
  /\ next # "disputed"
  /\ next = "in_progress" => announced

BookingsForward == /\ \A b \in Bookings : Forward(Status(b), Status(b)', started')
                   /\ started => started'

LEMMA StatusesForward ==
  ASSUME CallbacksOnly, CInv, [Next]_vars
  PROVE  BookingsForward
<1>1. \A b \in Bookings : Begun(Status(b), session[b], started)
  BY DEF CInv, BookingsInOrder
<1>2. started => started'
  <2>1. CASE UNCHANGED vars
    BY <2>1 DEF vars
  <2>2. CASE \E r \in Requests, b \in Bookings : Arrive(r, b)
    BY <2>2 DEF Arrive, Callback, ReadForCallback, OpenChat, Dispute, CheckIn, End,
                Cancel, Modify, Counter
  <2>3. CASE \E b \in Bookings : Pay(b)
    BY <2>3 DEF Pay
  <2>4. CASE \E r \in Requests : Proceed(r) \/ Abort(r)
    BY <2>4 DEF Proceed, Abort, Apply, Duplicate, FindStarted, PostStarted, Sync,
         ReadForChat, WriteChat, CloseChat, CancelWrite, ModifyWrite, ModifyCall,
         ModifyRollback, CounterAnswered, CounterCallback, ReadForCallback,
         DisputeWrite, CheckInSession, CheckInCommit, EndConfirmed, EndCommit
  <2> QED BY <2>1, <2>2, <2>3, <2>4 DEF Next
<1>3. ASSUME \A b \in Bookings : Status(b)' = Status(b)
      PROVE  BookingsForward
  BY <1>1, <1>2, <1>3 DEF BookingsForward, Forward, Begun
<1>4. CASE UNCHANGED booking
  BY <1>3, <1>4 DEF Status
<1>5. ASSUME NEW r \in Requests, Apply(r) PROVE BookingsForward
  <2>1. PICK b \in Bookings, incoming \in AppliedStatuses :
          /\ ~ Ignored(Status(b), incoming)
          /\ \A c \in Bookings : Status(c)' = IF c = b THEN Target(incoming) ELSE Status(c)
          /\ started' = (started \/ TitleOf(incoming) = "started")
    BY <1>5, ApplyCurrent
  <2>2. Forward(Status(b), Target(incoming), started')
    BY <2>1 DEF Forward, Past, Closed, Ignored, Target, TitleOf, AppliedStatuses
  <2>3. \A c \in Bookings : Forward(Status(c), Status(c), started')
    BY <1>1, <1>2 DEF Forward, Begun
  <2> QED BY <1>2, <2>1, <2>2, <2>3 DEF BookingsForward
<1>6. ASSUME NEW r \in Requests, ModifyWrite(r) \/ ModifyRollback(r) PROVE BookingsForward
  <2>1. PICK t : req[r].booking \in Bookings /\ SetTotal(req[r].booking, t)
    BY <1>6, Suspended DEF ModifyWrite, ModifyRollback, Resumes, Ends, Sound, CInv, SInv
  <2> QED BY <1>3, <2>1, StatusAfterWrite DEF CInv, SInv
<1>7. ASSUME NEW b \in Bookings, SettlementMove(b) PROVE BookingsForward
  <2>1. Status(b) = "accepted"
    BY <1>7 DEF SettlementMove, Settleable, Status
  <2>2. \A c \in Bookings : Status(c)' = IF c = b THEN "confirmed" ELSE Status(c)
    BY <1>7, StatusAfterWrite DEF CInv, SInv
  <2>3. Forward("accepted", "confirmed", started')
    BY DEF Forward, Past, Closed
  <2>4. \A c \in Bookings : Forward(Status(c), Status(c), started')
    BY <1>1, <1>2 DEF Forward, Begun
  <2> QED BY <1>2, <2>1, <2>2, <2>3, <2>4 DEF BookingsForward
<1> QED BY <1>4, <1>5, <1>6, <1>7, BookingSteps, OnlyCallbackSteps

\* What a step may do to a session: none begins before its booking does, none ends
\* unless its booking ends the same way, none that has begun or is over is upcoming
\* again, and one that is over is set going by nothing but a replayed start.
SessionForward(b) ==
  /\ Status(b)' \notin Past => session'[b].status \in {"none", "upcoming"}
  /\ session'[b].status \in Over => session'[b].status = Status(b)'
  /\ session[b].status \in Live \cup Over => session'[b].status # "upcoming"
  /\ session[b].status \in Over =>
       \/ session'[b].status = session[b].status
       \/ \E r \in Requests :
            req[r].at = "duplicate" /\ req[r].booking = b /\ req[r].incoming = "in_progress"

LEMMA SessionsForward ==
  ASSUME CallbacksOnly, CInv, [Next]_vars, BookingsForward
  PROVE  \A b \in Bookings : SessionForward(b)
<1>1. \A b \in Bookings :
        /\ Status(b)' \notin Past => Status(b) \notin Past
        /\ Status(b) \notin Past => session[b].status \in {"none", "upcoming"}
        /\ Status(b) \in Closed => Status(b)' = Status(b)
        /\ session[b].status \in Over => Status(b) = session[b].status
        /\ session[b] \in SessionRow /\ RowSound(session[b])
  BY DEF BookingsForward, Forward, CInv, BookingsInOrder, Begun, SInv, IInv, TypeOK, RowsSound
<1>2. \A b \in Bookings : session'[b] = session[b] => SessionForward(b)
  BY <1>1 DEF SessionForward, Live, Over, Closed
<1>3. CASE UNCHANGED session
  BY <1>2, <1>3
<1>4. ASSUME NEW r \in Requests, Apply(r) PROVE \A b \in Bookings : SessionForward(b)
  <2>1. PICK b \in Bookings, incoming \in AppliedStatuses :
          /\ incoming # Status(b) /\ ~ Ignored(Status(b), incoming)
          /\ Status(b)' = Target(incoming)
          /\ session' = [session EXCEPT ![b] = SessionAfter(@, incoming, req[r].pass)]
    BY <1>4, ApplyCurrent
  <2>2. \A c \in Bookings : session'[c] =
          IF c = b THEN SessionAfter(session[b], incoming, req[r].pass) ELSE session[c]
    BY <2>1 DEF CInv, SInv, IInv, TypeOK
  <2>3. SessionForward(b)
    <3>1. CASE incoming = "accepted"
      <4>1. Status(b) \notin Past
        BY <2>1, <3>1 DEF Ignored, Past, Closed
      <4>2. session'[b].status = "upcoming"
        BY <1>1, <2>2, <3>1 DEF SessionAfter, SessionRow
      <4> QED BY <1>1, <4>1, <4>2 DEF SessionForward, Live, Over
    <3>2. CASE incoming \in {"in_progress", "active", "completed", "cancelled"}
      <4>1. Status(b)' \in Past /\ (incoming \in Over => Status(b)' = incoming)
        BY <2>1, <3>2 DEF Target, Past, Over, Closed
      <4>2. session[b].status \notin Over
        BY <1>1, <2>1 DEF Ignored, Over, Closed
      <4>3. \/ session'[b].status = session[b].status
            \/ incoming \in {"in_progress", "active"} /\ session'[b].status = "active"
            \/ incoming \in Over /\ session'[b].status = incoming
        BY <1>1, <2>2, <3>2 DEF SessionAfter, SessionRow, Started, Moved, Over
      <4> QED BY <4>1, <4>2, <4>3 DEF SessionForward, Live, Over
    <3>3. CASE incoming \in {"declined", "counter_proposed"}
      BY <1>2, <2>2, <3>3 DEF SessionAfter
    <3> QED BY <3>1, <3>2, <3>3 DEF AppliedStatuses
  <2> QED BY <1>2, <2>2, <2>3
<1>5. ASSUME NEW r \in Requests, Duplicate(r) PROVE \A b \in Bookings : SessionForward(b)
  <2>0. PICK b \in Bookings : b = req[r].booking
    BY <1>5, Suspended DEF Duplicate, Resumes, Sound, CInv, SInv
  <2>1. /\ Current(req[r], Status(b), started) /\ Backed(req[r], session, dispute)
        /\ req[r].at = "duplicate"
    BY <1>5, <2>0 DEF Duplicate, Resumes, CInv, RequestsCurrent, SInv, RequestsBacked
  <2>2. session' = [session EXCEPT ![b] = Replayed(@, req[r].incoming)]
    BY <1>5, <2>0 DEF Duplicate
  <2>3. \A c \in Bookings : session'[c] =
          IF c = b THEN Replayed(session[b], req[r].incoming) ELSE session[c]
    BY <2>2 DEF CInv, SInv, IInv, TypeOK
  <2>4. SessionForward(b)
    <3>1. CASE req[r].incoming = "accepted"
      <4>1. session[b].status # "none"
        BY <1>1, <2>0, <2>1, <3>1 DEF Backed, RowSound
      <4>2. session'[b].status = session[b].status
        BY <1>1, <2>3, <3>1, <4>1 DEF Replayed, SessionRow
      <4> QED BY <1>1, <4>2 DEF SessionForward, Live, Over, Closed
    <3>2. CASE req[r].incoming = "in_progress"
      <4>1. Status(b) \in Past
        BY <2>1, <3>2 DEF Current
      <4>2. \/ session'[b].status = session[b].status
            \/ session'[b].status = "active"
        BY <1>1, <2>3, <3>2 DEF Replayed, SessionRow, Started
      <4> QED BY <1>1, <2>0, <2>1, <3>2, <4>1, <4>2 DEF SessionForward, Live, Over, Closed
    <3>3. CASE req[r].incoming = "completed"
      <4>1. Status(b) = "completed"
        BY <2>1, <3>3 DEF Current, Closed
      <4>2. \/ session'[b].status = session[b].status
            \/ session'[b].status = "completed"
        BY <1>1, <2>3, <3>3 DEF Replayed, SessionRow, Moved
      <4> QED BY <1>1, <4>1, <4>2 DEF SessionForward, Live, Over, Closed, Past
    <3> QED BY <2>1, <3>1, <3>2, <3>3 DEF Current
  <2> QED BY <1>2, <2>3, <2>4
<1> QED BY <1>3, <1>4, <1>5, SessionWrites, OnlyCallbackSteps

\* What a request has read stays true while others move its booking.
LEMMA StaysCurrent ==
  ASSUME NEW q, NEW s, NEW next, NEW announced \in BOOLEAN, NEW later \in BOOLEAN,
         Current(q, s, announced), Forward(s, next, later), announced => later
  PROVE  Current(q, next, later)
BY DEF Current, Forward, ShutBy, Closed, Past

LEMMA OthersCurrent ==
  ASSUME CInv, BookingsForward, started' \in BOOLEAN,
         NEW k \in Requests, req'[k] = req[k], req[k].at # "idle"
  PROVE  Current(req'[k], booking'[req'[k].booking].status, started')
<1>1. PICK c \in Bookings : c = req[k].booking
  BY Suspended DEF Sound, CInv, SInv
<1>2. Current(req[k], Status(c), started)
  BY <1>1 DEF CInv, RequestsCurrent
<1>3. Forward(Status(c), Status(c)', started') /\ (started => started')
  BY DEF BookingsForward
<1>4. started \in BOOLEAN
  BY DEF CInv, SInv, IInv, TypeOK
<1>5. Current(req[k], Status(c)', started')
  BY <1>2, <1>3, <1>4, StaysCurrent
<1> QED BY <1>1, <1>5 DEF Status

\* One request goes on, or ends; the others stay current.
LEMMA OneRequestCurrent ==
  ASSUME CInv, BookingsForward, started' \in BOOLEAN,
         NEW r \in Requests, NEW b \in Bookings, NEW q, req' = [req EXCEPT ![r] = q],
         q.booking = b, Current(q, Status(b)', started')
  PROVE  RequestsCurrent'
<1>1. \A k \in Requests : req'[k] = IF k = r THEN q ELSE req[k]
  BY DEF CInv, SInv, IInv, TypeOK
<1>2. \A k \in Requests : req'[k].at # "idle" =>
        Current(req'[k], booking'[req'[k].booking].status, started')
  BY <1>1, OthersCurrent DEF Status
<1> QED BY <1>2 DEF RequestsCurrent, Status

LEMMA OneRequestEnds ==
  ASSUME CInv, BookingsForward, started' \in BOOLEAN,
         NEW r \in Requests, req' = [req EXCEPT ![r] = Idle]
  PROVE  RequestsCurrent'
<1>1. \A k \in Requests : req'[k] = IF k = r THEN Idle ELSE req[k]
  BY DEF CInv, SInv, IInv, TypeOK
<1>2. \A k \in Requests : req'[k].at # "idle" =>
        Current(req'[k], booking'[req'[k].booking].status, started')
  BY <1>1, OthersCurrent DEF Idle
<1> QED BY <1>2 DEF RequestsCurrent, Status

LEMMA ReadCurrent ==
  ASSUME CInv, BookingsForward, started' \in BOOLEAN,
         NEW r \in Requests, NEW b \in Bookings,
         NEW incoming, NEW pass, ReadForCallback(r, b, incoming, pass)
  PROVE  RequestsCurrent'
<1> DEFINE next == AfterRead(Status(b), incoming, pass)
           q == [For(b, next) EXCEPT !.seen = Status(b), !.incoming = incoming, !.pass = pass]
<1>1. /\ q.at = next /\ q.booking = b /\ q.incoming = incoming /\ Idle.at = "idle"
  BY DEF For, Idle
<1>2. Status(b) = "in_progress" => started
  BY DEF CInv, BookingsInOrder, Begun
<1>3. Status(b)' = Status(b) /\ started' = started
  BY DEF ReadForCallback, Status
<1>4. next \in {"duplicate", "sync", "idle", "apply"}
  BY DEF AfterRead
<1>5. /\ next = "sync" /\ incoming \in Closed => incoming = Status(b)
      /\ next = "duplicate" => /\ incoming = Status(b)
                               /\ incoming \in {"accepted", "in_progress", "completed"}
  BY DEF AfterRead, Closed
<1>6. Current(q, Status(b)', started')
  <2> HIDE DEF next, q
  <2> QED BY <1>1, <1>2, <1>3, <1>4, <1>5 DEF Current, Past, Closed
<1>7. req' = [req EXCEPT ![r] = q] \/ req' = [req EXCEPT ![r] = Idle]
  BY DEF ReadForCallback
<1> HIDE DEF next, q
<1> QED BY <1>1, <1>6, <1>7, OneRequestCurrent, OneRequestEnds

LEMMA ArrivalCurrent ==
  ASSUME CInv, BookingsForward, started' \in BOOLEAN,
         NEW r \in Requests, NEW b \in Bookings,
         \/ OpenChat(r, b) \/ \E total \in Amounts : Modify(r, b, total)
         \/ \E reply \in {"accepted", "declined"} : Counter(r, b, reply)
  PROVE  RequestsCurrent'
<1>1. None \notin Closed
  BY NoneAssumption DEF BookingStatus, Closed
<1>2. ASSUME NEW q, req' = [req EXCEPT ![r] = q], q.booking = b,
             \/ q.at \in {"modify", "counter"}
             \/ q.at = "readForChat" /\ q.incoming = None
      PROVE  RequestsCurrent'
  <2>1. Current(q, Status(b)', started')
    BY <1>1, <1>2 DEF Current
  <2> QED BY <1>2, <2>1, OneRequestCurrent
<1>3. CASE OpenChat(r, b)
  <2> DEFINE q == For(b, "readForChat")
  <2>1. q.booking = b /\ q.at = "readForChat" /\ q.incoming = None
    BY DEF For, Idle
  <2>2. req' = [req EXCEPT ![r] = q]
    BY <1>3 DEF OpenChat, Arrives
  <2> HIDE DEF q
  <2> QED BY <1>2, <2>1, <2>2
<1>4. ASSUME NEW total \in Amounts, Modify(r, b, total) PROVE RequestsCurrent'
  <2> DEFINE q == [For(b, "modify") EXCEPT !.old = booking[b].total, !.new = total]
  <2>1. q.booking = b /\ q.at = "modify"
    BY DEF For, Idle
  <2>2. req' = [req EXCEPT ![r] = q]
    BY <1>4 DEF Modify, Arrives
  <2> HIDE DEF q
  <2> QED BY <1>2, <2>1, <2>2
<1>5. ASSUME NEW reply, Counter(r, b, reply) PROVE RequestsCurrent'
  <2> DEFINE q == [For(b, "counter") EXCEPT !.incoming = reply]
  <2>1. q.booking = b /\ q.at = "counter"
    BY DEF For, Idle
  <2>2. req' = [req EXCEPT ![r] = q]
    BY <1>5 DEF Counter, Arrives
  <2> HIDE DEF q
  <2> QED BY <1>2, <2>1, <2>2
<1> QED BY <1>3, <1>4, <1>5

LEMMA ProgressCurrent ==
  ASSUME CallbacksOnly, CInv, [Next]_vars, BookingsForward, started' \in BOOLEAN,
         NEW r \in Requests, Proceed(r) \/ Abort(r)
  PROVE  RequestsCurrent'
<1>1. CASE req[r].at = "idle"
  <2>1. Abort(r)
    BY <1>1 DEF Proceed, Apply, Duplicate, FindStarted, PostStarted, Sync, ReadForChat,
         WriteChat, CloseChat, CancelWrite, ModifyWrite, ModifyCall, ModifyRollback,
         CounterAnswered, CounterCallback, DisputeWrite, CheckInSession, CheckInCommit,
         EndConfirmed, EndCommit, Resumes, Ends
  <2> QED BY <2>1, OneRequestEnds DEF Abort
<1>2. CASE req[r].at # "idle"
  <2>0. PICK b \in Bookings : b = req[r].booking
    BY <1>2, Suspended DEF CInv, SInv, Sound
  <2>1. /\ req[r] \in Request /\ Current(req[r], Status(b), started)
        /\ Forward(Status(b), Status(b)', started') /\ (started => started')
    BY <1>2, <2>0, Suspended DEF CInv, SInv, RequestsCurrent, BookingsForward
  <2>2. Current(req[r], Status(b)', started')
    BY <2>1, StaysCurrent DEF CInv, SInv, IInv, TypeOK
  <2> DEFINE at(next) == [req[r] EXCEPT !.at = next]
  <2>3. \A next : /\ at(next).at = next /\ at(next).booking = b
                  /\ at(next).incoming = req[r].incoming /\ at(next).chat = req[r].chat
    BY <2>0, <2>1 DEF Request
  <2>4. ASSUME NEW next, req' = [req EXCEPT ![r].at = next],
               Current(at(next), Status(b)', started')
        PROVE  RequestsCurrent'
    <3>1. req' = [req EXCEPT ![r] = at(next)]
      BY <2>4
    <3> QED BY <2>3, <2>4, <3>1, OneRequestCurrent
  <2>5. ASSUME req' = [req EXCEPT ![r] = Idle]
        PROVE  RequestsCurrent'
    BY <2>5, OneRequestEnds
  <2> HIDE DEF at
  <2>6. CASE Apply(r)
    <3> DEFINE next == AfterApply(req[r].incoming)
    <3>1. PICK incoming \in AppliedStatuses :
            req[r].incoming = incoming /\ Status(b)' = Target(incoming)
      BY <2>0, <2>6, ApplyCurrent
    <3>2. /\ next \in {"readForChat", "closeChat", "sync"}
          /\ next = "closeChat" => /\ req[r].incoming \in Closed
                                   /\ Status(b)' = req[r].incoming
          /\ next \in {"readForChat", "sync"} => req[r].incoming \notin Closed
      BY <3>1 DEF AfterApply, Target, Closed
    <3>3. req' = [req EXCEPT ![r].at = next]
      BY <2>6 DEF Apply, Resumes
    <3> HIDE DEF next
    <3>4. Current(at(next), Status(b)', started')
      BY <2>3, <3>2 DEF Current
    <3> QED BY <2>4, <3>3, <3>4
  <2>7. CASE Duplicate(r) \/ FindStarted(r) \/ CloseChat(r) \/ ModifyWrite(r)
    <3>1. PICK next : /\ req' = [req EXCEPT ![r].at = next]
                      /\ \/ /\ next = "findStarted" /\ req[r].at = "duplicate"
                            /\ req[r].incoming = "in_progress"
                         \/ next = "sync" /\ req[r].at \in {"duplicate", "findStarted", "closeChat"}
                         \/ next = "modifyCall"
      <4>1. req[r].at = "findStarted" => started
        BY <2>1 DEF Current
      <4> QED BY <2>7, <4>1 DEF Duplicate, FindStarted, CloseChat, ModifyWrite, Resumes
    <3>2. Current(at(next), Status(b)', started')
      BY <2>2, <2>3, <3>1 DEF Current, Closed
    <3> QED BY <2>4, <3>1, <3>2
  <2>8. CASE ReadForChat(r)
    <3> DEFINE q == [req[r] EXCEPT !.at = "writeChat", !.chat = DerivedChat(Status(b))]
    <3>1. /\ req' = [req EXCEPT ![r] = q] /\ Status(b)' = Status(b)
          /\ req[r].at = "readForChat"
      BY <2>0, <2>8 DEF ReadForChat, CInv, SInv, IInv, TypeOK, Status
    <3>2. /\ q.at = "writeChat" /\ q.booking = b /\ q.incoming = req[r].incoming
          /\ q.chat = DerivedChat(Status(b))
      BY <2>0, <2>1 DEF Request
    <3>3. ShutBy(DerivedChat(Status(b)), Status(b))
      BY DEF ShutBy, DerivedChat
    <3> HIDE DEF q
    <3>4. Current(q, Status(b)', started')
      BY <2>1, <3>1, <3>2, <3>3 DEF Current
    <3> QED BY <3>1, <3>2, <3>4, OneRequestCurrent
  <2>9. CASE WriteChat(r)
    <3>1. CASE Ends(r, "writeChat")
      BY <2>5, <3>1 DEF Ends
    <3>2. CASE Resumes(r, "writeChat", "sync")
      <4>1. Current(at("sync"), Status(b)', started')
        BY <2>2, <2>3, <3>2 DEF Current, Resumes
      <4> QED BY <2>4, <3>2, <4>1 DEF Resumes
    <3> QED BY <2>9, <3>1, <3>2 DEF WriteChat
  <2>10. CASE ModifyCall(r)
    <3>1. CASE Ends(r, "modifyCall")
      BY <2>5, <3>1 DEF Ends
    <3>2. CASE Resumes(r, "modifyCall", "modifyRollback")
      <4>1. Current(at("modifyRollback"), Status(b)', started')
        BY <2>3 DEF Current
      <4> QED BY <2>4, <3>2, <4>1 DEF Resumes
    <3> QED BY <2>10, <3>1, <3>2 DEF ModifyCall
  <2>11. CASE \E pass \in BOOLEAN : CounterAnswered(r, pass)
    <3>1. PICK pass \in BOOLEAN : CounterAnswered(r, pass)
      BY <2>11
    <3> DEFINE q == [req[r] EXCEPT !.at = "callback", !.pass = pass]
    <3>2. req' = [req EXCEPT ![r] = q]
      BY <3>1 DEF CounterAnswered, CInv, SInv, IInv, TypeOK
    <3>3. q.at = "callback" /\ q.booking = b
      BY <2>0, <2>1 DEF Request
    <3> HIDE DEF q
    <3>4. Current(q, Status(b)', started')
      BY <3>3 DEF Current
    <3> QED BY <3>2, <3>3, <3>4, OneRequestCurrent
  <2>12. CASE CounterCallback(r)
    BY <2>0, <2>12, ReadCurrent DEF CounterCallback
  <2>13. CASE Sync(r) \/ ModifyRollback(r) \/ Abort(r)
    BY <2>5, <2>13 DEF Sync, ModifyRollback, Abort, Ends
  <2> QED BY <2>6, <2>7, <2>8, <2>9, <2>10, <2>11, <2>12, <2>13, OnlyCallbackSteps
          DEF Proceed
<1> QED BY <1>1, <1>2

\* The tables the other parties see: a conversation is shut, and the Admin Backend
\* told of an end, only by a request that has seen the booking closed.
LEMMA SeenTablesFollow ==
  ASSUME CallbacksOnly, CInv, [Next]_vars, BookingsForward
  PROVE  ShutOnlyWhenOver' /\ AdminNotAhead'
<1>1. \A b \in Bookings : Status(b) \in Closed => Status(b)' = Status(b)
  BY DEF BookingsForward, Forward
<1>2. ASSUME \A b \in Bookings : conv'[b] = conv[b] \/ ShutBy(conv'[b], Status(b))
      PROVE  ShutOnlyWhenOver'
  <2>1. \A b \in Bookings : ShutBy(conv'[b], Status(b))
    BY <1>2 DEF CInv, ShutOnlyWhenOver, ShutBy
  <2> QED BY <1>1, <2>1 DEF ShutOnlyWhenOver, ShutBy, Closed
<1>3. ASSUME \A b \in Bookings :
               admin'[b] = admin[b] \/ (admin'[b] \in Closed => Status(b) = admin'[b])
      PROVE  AdminNotAhead'
  <2>1. \A b \in Bookings : admin'[b] \in Closed => Status(b) = admin'[b]
    BY <1>3 DEF CInv, AdminNotAhead
  <2> QED BY <1>1, <2>1 DEF AdminNotAhead
<1>4. CASE UNCHANGED <<conv, admin>>
  BY <1>2, <1>3, <1>4
<1>5. ASSUME NEW r \in Requests, WriteChat(r) \/ CloseChat(r)
      PROVE  ShutOnlyWhenOver' /\ AdminNotAhead'
  <2>0. PICK b \in Bookings : b = req[r].booking
    BY <1>5, Suspended DEF WriteChat, CloseChat, Ends, Resumes, Sound, CInv, SInv
  <2>1. Current(req[r], Status(b), started) /\ req[r].at \in {"writeChat", "closeChat"}
    BY <1>5, <2>0 DEF WriteChat, CloseChat, Ends, Resumes, CInv, RequestsCurrent
  <2>2. PICK c : /\ UNCHANGED conv \/ conv' = [conv EXCEPT ![b] = c]
                 /\ ShutBy(c, Status(b))
    <3>1. CASE WriteChat(r)
      BY <2>0, <2>1, <3>1 DEF WriteChat, Ends, Resumes, Current
    <3>2. CASE CloseChat(r)
      <4>1. ShutBy(DerivedChat(req[r].incoming), Status(b))
        BY <2>1, <3>2 DEF CloseChat, Resumes, Current, ShutBy, DerivedChat, Closed
      <4> QED BY <2>0, <3>2, <4>1 DEF CloseChat
    <3> QED BY <1>5, <3>1, <3>2
  <2>3. \A d \in Bookings : conv'[d] = conv[d] \/ ShutBy(conv'[d], Status(d))
    BY <2>2 DEF CInv, SInv, IInv, TypeOK
  <2>4. UNCHANGED admin
    BY <1>5 DEF WriteChat, CloseChat
  <2> QED BY <1>2, <1>3, <2>3, <2>4
<1>6. ASSUME NEW r \in Requests, Sync(r)
      PROVE  ShutOnlyWhenOver' /\ AdminNotAhead'
  <2>0. PICK b \in Bookings : b = req[r].booking
    BY <1>6, Suspended DEF Sync, Ends, Sound, CInv, SInv
  <2>1. Current(req[r], Status(b), started) /\ req[r].at = "sync"
    BY <1>6, <2>0 DEF Sync, Ends, CInv, RequestsCurrent
  <2>2. req[r].incoming \in Closed => Status(b) = req[r].incoming
    BY <2>1 DEF Current
  <2>3. \A d \in Bookings :
          admin'[d] = admin[d] \/ (admin'[d] \in Closed => Status(d) = admin'[d])
    BY <1>6, <2>0, <2>2 DEF Sync, CInv, SInv, IInv, TypeOK
  <2>4. UNCHANGED conv
    BY <1>6 DEF Sync
  <2> QED BY <1>2, <1>3, <2>3, <2>4
<1>7. \/ UNCHANGED <<conv, admin>>
      \/ \E r \in Requests : WriteChat(r) \/ CloseChat(r) \/ Sync(r)
  <2>1. CASE UNCHANGED vars
    BY <2>1 DEF vars
  <2>2. CASE \E r \in Requests, b \in Bookings : Arrive(r, b)
    <3>1. UNCHANGED <<conv, admin>>
      BY <2>2 DEF Arrive, Callback, ReadForCallback, OpenChat, Dispute, CheckIn, End,
                  Cancel, Modify, Counter
    <3> QED BY <3>1
  <2>3. CASE \E b \in Bookings : Pay(b)
    BY <2>3 DEF Pay
  <2>4. CASE \E r \in Requests : Proceed(r) \/ Abort(r)
    BY <2>4 DEF Proceed, Abort, Apply, Duplicate, FindStarted, PostStarted, ReadForChat,
         CancelWrite, ModifyWrite, ModifyCall, ModifyRollback, CounterAnswered,
         CounterCallback, ReadForCallback, DisputeWrite, CheckInSession, CheckInCommit,
         EndConfirmed, EndCommit
  <2> QED BY <2>1, <2>2, <2>3, <2>4 DEF Next
<1> QED BY <1>4, <1>5, <1>6, <1>7

LEMMA NextCInv == CallbacksOnly /\ CInv /\ [Next]_vars => CInv'
<1> SUFFICES ASSUME CallbacksOnly, CInv, [Next]_vars PROVE CInv' OBVIOUS
<1>1. SInv'
  BY NextSInv DEF CInv
<1>2. BookingsForward
  BY StatusesForward
<1>3. BookingsInOrder'
  BY <1>2, SessionsForward
     DEF BookingsInOrder, Begun, BookingsForward, Forward, SessionForward, Status
<1>4. RequestsCurrent'
  <2>1. started' \in BOOLEAN
    BY <1>1 DEF SInv, IInv, TypeOK
  <2>2. CASE UNCHANGED vars
    BY <2>2 DEF vars, CInv, RequestsCurrent, Current, ShutBy, Status
  <2>3. ASSUME NEW r \in Requests, NEW b \in Bookings, Arrive(r, b) PROVE RequestsCurrent'
    BY <1>2, <2>1, <2>3, ReadCurrent, ArrivalCurrent, OnlyCallbackSteps
       DEF Arrive, Callback
  <2>4. ASSUME NEW b \in Bookings, Pay(b) PROVE RequestsCurrent'
    BY <1>2, <2>1, <2>4, OthersCurrent DEF Pay, RequestsCurrent, Status
  <2>5. ASSUME NEW r \in Requests, Proceed(r) \/ Abort(r) PROVE RequestsCurrent'
    BY <1>2, <2>1, <2>5, ProgressCurrent
  <2> QED BY <2>2, <2>3, <2>4, <2>5 DEF Next
<1> QED BY <1>1, <1>2, <1>3, <1>4, SeenTablesFollow DEF CInv

-------------------------------------------------------------------------------
(* Theorems about the callbacks                                              *)

\* Callbacks, counter-offer replies, payments, modifications and opened chats, in
\* any order and number, keep what each suspended one has read true.
THEOREM CallbackInvariance ==
  ASSUME CallbacksOnly
  PROVE  Spec => []CInv
<1> QED BY InitCInv, NextCInv, PTL DEF Spec

\* A conversation is read-only only when its booking is completed and closed only
\* when it was cancelled or declined, although the status is read in one step
\* and the conversation written in another.
THEOREM ChatsShutWhenOver ==
  ASSUME CallbacksOnly
  PROVE  Spec => []ShutOnlyWhenOver
<1>1. CInv => ShutOnlyWhenOver BY DEF CInv
<1> QED BY <1>1, CallbackInvariance, PTL

\* The Admin Backend is never told of an end that did not happen, nor of one that
\* another end replaced, however late the message leaves.
THEOREM AdminIsNeverAhead ==
  ASSUME CallbacksOnly
  PROVE  Spec => []AdminNotAhead
<1>1. CInv => AdminNotAhead BY DEF CInv
<1> QED BY <1>1, CallbackInvariance, PTL

\* No callback moves a booking that is completed, cancelled or declined.
THEOREM ClosedStaysClosed ==
  ASSUME CallbacksOnly
  PROVE  Spec => ClosedIsFinal
<1> DEFINE Kept == \A b \in Bookings : Status(b) \in Closed => Status(b)' = Status(b)
<1>1. CInv /\ [Next]_vars => [Kept]_vars
  BY StatusesForward DEF BookingsForward, Forward
<1> QED BY <1>1, CallbackInvariance, PTL DEF Spec, ClosedIsFinal

\* No session that has begun or is over is upcoming again, and one that is over stays
\* over but for a replayed start that read the booking before it ended.
THEOREM SessionsKeepTheirProgress ==
  ASSUME CallbacksOnly
  PROVE  Spec => SessionKeepsItsProgress
<1> DEFINE Kept ==
      \A b \in Bookings :
        /\ session[b].status \in Live \cup {"completed", "cancelled"} =>
             session'[b].status # "upcoming"
        /\ session[b].status \in {"completed", "cancelled"} =>
             \/ session'[b].status = session[b].status
             \/ \E r \in Requests :
                  req[r].at = "duplicate" /\ req[r].booking = b /\ req[r].incoming = "in_progress"
<1>1. CInv /\ [Next]_vars => [Kept]_vars
  BY StatusesForward, SessionsForward DEF SessionForward, Over
<1> QED BY <1>1, CallbackInvariance, PTL DEF Spec, SessionKeepsItsProgress
===============================================================================
