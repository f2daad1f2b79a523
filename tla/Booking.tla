-------------------------------- MODULE Booking --------------------------------
(***************************************************************************)
(* The life of a booking after its request was stored: BookingService's    *)
(* customer operations and the Companion Backend's status callback,        *)
(* SessionService's check-in and end, and the booking's conversation as    *)
(* ChatService keeps it.                                                   *)
(*                                                                         *)
(* A request is a record with a program counter.  It reads, is suspended   *)
(* at an await while others run, and acts on what it read: "seen" is the   *)
(* booking status of its read, "old" and "new" are totals it carries.  A   *)
(* database transaction is one step.                                       *)
(*                                                                         *)
(* External and modelled from its use here: the Companion Backend (its     *)
(* answers, its callbacks, in any order and number) and the Admin Backend  *)
(* (the last status it received).  PaymentService confirms a booking by    *)
(* SettlementMove.                                                         *)
(***************************************************************************)
EXTENDS CustomerDb

CONSTANTS Requests,   \* requests that can be in flight at once
          Ops,        \* operations that are called
          Incoming,   \* statuses a callback carries
          None        \* null

AllOps == {"callback", "counter", "cancel", "modify", "dispute", "checkIn",
           "end", "openChat", "pay", "adminReceives"}

ASSUME OpsAssumption == Ops \subseteq AllOps
ASSUME NoneAssumption ==
  /\ None \notin Bookings /\ None \notin Amounts
  /\ None \notin Incoming /\ None \notin BookingStatus
ASSUME LifecycleComplete == Lifecycle = BookingStatus \ {"confirmed"}

VARIABLES
  session,   \* customer_sessions: at most one row per booking
  conv,      \* status of the booking's conversation, "none" before it exists
  dispute,   \* bookings with a customer_disputes row
  started,   \* the customer has a "Session Started" notification
  posted,    \* the notification each booking's last step inserted
  admin,     \* the status the Admin Backend was last sent (external)
  req        \* requests in flight

vars == <<booking, session, conv, dispute, started, posted, admin, req>>

Live == {"checked_in", "active", "extending"}
Closed == {"completed", "cancelled", "declined"}
Cancellable == {"pending", "counter_proposed", "accepted", "confirmed"}
RefundTiers == {0, 50, 100}

SessionStatus == {"none", "upcoming", "completed", "cancelled"} \cup Live
SessionRow == [status : SessionStatus, checkIn : {"unset", "set", "reset"}, pass : BOOLEAN]
NoSession == [status |-> "none", checkIn |-> "unset", pass |-> FALSE]

ConvStatus == {"active", "read_only", "closed"}
Titles == {"accepted", "declined", "counter_proposed", "started", "completed", "cancelled"}

Request ==
  [at : {"idle", "cancel", "modify", "modifyCall", "modifyRollback", "counter",
         "callback", "apply", "duplicate", "findStarted", "postStarted",
         "readForChat", "writeChat", "closeChat", "sync", "dispute",
         "checkIn", "checkInCommit", "end", "endCommit"},
   booking : Bookings \cup {None},
   seen : BookingStatus \cup {None},
   incoming : Incoming \cup BookingStatus \cup {None},
   pass : BOOLEAN,
   old : Amounts \cup {None}, new : Amounts \cup {None},
   chat : ConvStatus \cup {None}, tier : RefundTiers \cup {None}]

Idle == [at |-> "idle", booking |-> None, seen |-> None, incoming |-> None,
         pass |-> FALSE, old |-> None, new |-> None, chat |-> None, tier |-> None]

Quiet == [b \in Bookings |-> "nothing"]

TypeOK ==
  /\ BookingTypeOK
  /\ session \in [Bookings -> SessionRow]
  /\ conv \in [Bookings -> ConvStatus \cup {"none"}]
  /\ dispute \subseteq Bookings
  /\ started \in BOOLEAN
  /\ posted \in [Bookings -> Titles \cup {"nothing"}]
  /\ admin \in [Bookings -> Incoming \cup BookingStatus]
  /\ req \in [Requests -> Request]

\* createBooking stored the row and sent the request to both other backends.
Init ==
  /\ BookingInit
  /\ session = [b \in Bookings |-> NoSession]
  /\ conv = [b \in Bookings |-> "none"]
  /\ dispute = {}
  /\ started = FALSE
  /\ posted = Quiet
  /\ admin = [b \in Bookings |-> "pending"]
  /\ req = [r \in Requests |-> Idle]
-------------------------------------------------------------------------------
(* Helpers *)

Status(b) == booking[b].status

\* Mutant of SetStatus: the whole row is written, with the default payment status.
SetStatusOverwriting(b, s) ==
  booking' = [booking EXCEPT ![b].status = s, ![b].paymentStatus = "pending"]

SetStatus(b, s) == booking' = [booking EXCEPT ![b].status = s]
SetTotal(b, t) == booking' = [booking EXCEPT ![b].total = t]
Post(b, title) == posted' = [Quiet EXCEPT ![b] = title]
Silent == posted' = Quiet

Arrives(r, op, state) ==
  /\ op \in Ops
  /\ req[r] = Idle
  /\ req' = [req EXCEPT ![r] = state]

\* Request r, suspended at step "here", goes on to step "next".
Resumes(r, here, next) ==
  /\ req[r].at = here
  /\ req' = [req EXCEPT ![r].at = next]

Ends(r, here) ==
  /\ req[r].at = here
  /\ req' = [req EXCEPT ![r] = Idle]

For(b, at) == [Idle EXCEPT !.at = at, !.booking = b]

Stamped(row) == IF row.checkIn = "unset" THEN "set" ELSE "reset"

\* Mutants of Started: a row made up where there is none; no start time.
StartedUpsert(row) == [row EXCEPT !.status = "active", !.checkIn = Stamped(row)]
StartedUnstamped(row) ==
  IF row.status = "none" THEN row ELSE [row EXCEPT !.status = "active"]

\* updateMany on the booking's session: no row, no write.
Started(row) ==
  IF row.status = "none" THEN row
  ELSE [row EXCEPT !.status = "active", !.checkIn = Stamped(row)]

Moved(row, s) == IF row.status = "none" THEN row ELSE [row EXCEPT !.status = s]

-------------------------------------------------------------------------------
(* The status callback: handleInternalStatusUpdate                         *)

\* Mutant of Ignored: a declined booking is not taken for closed.
IgnoredUnlessDeclined(seen, incoming) ==
  \/ seen \in Closed \ {"declined"}
  \/ seen \in {"confirmed", "in_progress"} /\ incoming \in {"accepted", "counter_proposed"}

\* Events that arrive late are acknowledged and dropped.
Ignored(seen, incoming) ==
  \/ seen \in Closed
  \/ seen \in {"confirmed", "in_progress"} /\ incoming \in {"accepted", "counter_proposed"}

\* Mutant of Complete: the pass code is not required.
CompleteAnyway(incoming, pass) == TRUE

\* An acceptance has to bring the session's pass code.
Complete(incoming, pass) == incoming = "accepted" => pass

\* Mutant of AfterRead: an event that is dropped is still passed on to Admin.
AfterReadForwarding(seen, incoming, pass) ==
  IF incoming = seen \/ Ignored(seen, incoming) THEN "sync" ELSE "apply"

\* Where the first read of the booking leads.
AfterRead(seen, incoming, pass) ==
  IF incoming = seen
    THEN IF \/ incoming = "accepted" /\ pass
            \/ incoming \in {"in_progress", "completed"}
           THEN "duplicate" ELSE "sync"
  ELSE IF Ignored(seen, incoming) THEN "idle"
  ELSE IF incoming \in {"accepted", "declined", "counter_proposed", "in_progress",
                        "active", "completed", "cancelled"}
         THEN "apply" ELSE "sync"

ReadForCallback(r, b, incoming, pass) ==
  LET next == AfterRead(Status(b), incoming, pass) IN
  /\ next = "apply" => Complete(incoming, pass)
  /\ req' = [req EXCEPT ![r] =
               IF next = "idle" THEN Idle
               ELSE [For(b, next) EXCEPT !.seen = Status(b),
                                         !.incoming = incoming, !.pass = pass]]
  /\ Silent
  /\ UNCHANGED <<booking, session, conv, dispute, started, admin>>

Callback(r, b, incoming, pass) ==
  /\ "callback" \in Ops
  /\ req[r] = Idle
  /\ ReadForCallback(r, b, incoming, pass)

\* Mutant of Unmoved: the update names the id only.
UnmovedUnchecked(r) == TRUE

\* The conditional update "where id and status are what was read".
Unmoved(r) == Status(req[r].booking) = req[r].seen

Target(incoming) == IF incoming = "active" THEN "in_progress" ELSE incoming

\* Mutant of TitleOf: no title for a session that starts.
TitleOfStatus(incoming) == incoming

TitleOf(incoming) ==
  IF incoming \in {"in_progress", "active"} THEN "started" ELSE incoming

SessionAfter(row, incoming, pass) ==
  CASE incoming = "accepted" -> [row EXCEPT !.status = "upcoming", !.pass = pass]
    [] incoming \in {"in_progress", "active"} -> Started(row)
    [] incoming \in {"completed", "cancelled"} -> Moved(row, incoming)
    [] OTHER -> row

AfterApply(incoming) ==
  CASE incoming = "accepted" -> "readForChat"
    [] incoming \in Closed -> "closeChat"
    [] OTHER -> "sync"

\* One transaction: booking, session and notification.
Apply(r) ==
  LET b == req[r].booking
      incoming == req[r].incoming IN
  /\ Resumes(r, "apply", AfterApply(incoming))
  /\ Unmoved(r)
  /\ SetStatus(b, Target(incoming))
  /\ session' = [session EXCEPT ![b] = SessionAfter(@, incoming, req[r].pass)]
  /\ Post(b, TitleOf(incoming))
  /\ started' = (started \/ TitleOf(incoming) = "started")
  /\ UNCHANGED <<conv, dispute, admin>>

\* Mutant of Replayed: a replayed acceptance writes the row of a new session.
ReplayedAnew(row, incoming) ==
  CASE incoming = "accepted" -> [row EXCEPT !.status = "upcoming", !.pass = TRUE]
    [] incoming = "in_progress" -> Started(row)
    [] OTHER -> Moved(row, "completed")

\* The replay of a status the booking was read in: the session is brought in
\* line by an update that looks at no status of the booking.
Replayed(row, incoming) ==
  CASE incoming = "accepted" ->
         [row EXCEPT !.status = IF @ = "none" THEN "upcoming" ELSE @, !.pass = TRUE]
    [] incoming = "in_progress" -> Started(row)
    [] OTHER -> Moved(row, "completed")

Duplicate(r) ==
  LET b == req[r].booking
      incoming == req[r].incoming IN
  /\ Resumes(r, "duplicate", IF incoming = "in_progress" THEN "findStarted" ELSE "sync")
  /\ session' = [session EXCEPT ![b] = Replayed(@, incoming)]
  /\ Silent
  /\ UNCHANGED <<booking, conv, dispute, started, admin>>

\* The notification is looked up for the customer, not for the booking.
FindStarted(r) ==
  /\ Resumes(r, "findStarted", IF started THEN "sync" ELSE "postStarted")
  /\ Silent
  /\ UNCHANGED <<booking, session, conv, dispute, started, admin>>

PostStarted(r) ==
  /\ Resumes(r, "postStarted", "sync")
  /\ Post(req[r].booking, "started")
  /\ started' = TRUE
  /\ UNCHANGED <<booking, session, conv, dispute, admin>>

\* The Admin Backend is sent the status, or the call fails and is forgotten.
Sync(r) ==
  /\ Ends(r, "sync")
  /\ \/ /\ "adminReceives" \in Ops
        /\ admin' = [admin EXCEPT ![req[r].booking] = req[r].incoming]
     \/ UNCHANGED admin
  /\ Silent
  /\ UNCHANGED <<booking, session, conv, dispute, started>>

-------------------------------------------------------------------------------
(* The conversation: getOrCreateBookingConversation reads the booking, then *)
(* writes the status it derived; updateBookingConversationStatus writes the *)
(* given status if the conversation exists.                                *)

OpenChat(r, b) ==
  /\ Arrives(r, "openChat", For(b, "readForChat"))
  /\ Silent
  /\ UNCHANGED <<booking, session, conv, dispute, started, admin>>

\* Mutant of DerivedChat: a chat is open between acceptance and payment only.
DerivedChatAccepted(s) ==
  CASE s = "completed" -> "read_only"
    [] s = "accepted" -> "active"
    [] OTHER -> "closed"

DerivedChat(s) ==
  CASE s = "completed" -> "read_only"
    [] s \in {"cancelled", "declined"} -> "closed"
    [] OTHER -> "active"

ReadForChat(r) ==
  /\ req[r].at = "readForChat"
  /\ req' = [req EXCEPT ![r].at = "writeChat",
                        ![r].chat = DerivedChat(Status(req[r].booking))]
  /\ Silent
  /\ UNCHANGED <<booking, session, conv, dispute, started, admin>>

\* The write can fail, as a creation does that meets a conversation created
\* meanwhile; a callback swallows the error.
WriteChat(r) ==
  /\ IF req[r].incoming = None
       THEN Ends(r, "writeChat") ELSE Resumes(r, "writeChat", "sync")
  /\ \/ conv' = [conv EXCEPT ![req[r].booking] = req[r].chat]
     \/ UNCHANGED conv
  /\ Silent
  /\ UNCHANGED <<booking, session, dispute, started, admin>>

CloseChat(r) ==
  LET b == req[r].booking IN
  /\ Resumes(r, "closeChat", "sync")
  /\ \/ conv[b] # "none" /\ conv' = [conv EXCEPT ![b] = DerivedChat(req[r].incoming)]
     \/ UNCHANGED conv
  /\ Silent
  /\ UNCHANGED <<booking, session, dispute, started, admin>>
-------------------------------------------------------------------------------
(* Customer operations of BookingService                                   *)

\* Math.round of a percentage of a whole amount.
RefundAmount(total, tier) == (total * tier + 50) \div 100

\* A refund cannot be paid out: such a cancellation is refused.
RefundDue(b, tier) ==
  booking[b].paymentStatus = "completed" /\ RefundAmount(booking[b].total, tier) > 0

\* cancelBooking: read and decide, then update by id.
Cancel(r, b, tier) ==
  /\ Arrives(r, "cancel", [For(b, "cancel") EXCEPT !.tier = tier])
  /\ Status(b) \in Cancellable
  /\ ~ RefundDue(b, tier)
  /\ Silent
  /\ UNCHANGED <<booking, session, conv, dispute, started, admin>>

CancelWrite(r) ==
  /\ req[r].at = "cancel"
  /\ SetStatus(req[r].booking, "cancelled")
  /\ req' = [req EXCEPT ![r] = [For(@.booking, "sync") EXCEPT !.incoming = "cancelled"]]
  /\ Silent
  /\ UNCHANGED <<session, conv, dispute, started, admin>>

\* modifyBooking: write the new terms, tell the Companion Backend, and put the
\* terms that were read back if that fails.
Modify(r, b, total) ==
  /\ Arrives(r, "modify", [For(b, "modify") EXCEPT !.old = booking[b].total, !.new = total])
  /\ Status(b) = "pending"
  /\ Silent
  /\ UNCHANGED <<booking, session, conv, dispute, started, admin>>

ModifyWrite(r) ==
  /\ Resumes(r, "modify", "modifyCall")
  /\ SetTotal(req[r].booking, req[r].new)
  /\ Silent
  /\ UNCHANGED <<session, conv, dispute, started, admin>>

\* The Companion Backend answers, or refuses, or its answer is lost.
ModifyCall(r) ==
  /\ Ends(r, "modifyCall") \/ Resumes(r, "modifyCall", "modifyRollback")
  /\ Silent
  /\ UNCHANGED <<booking, session, conv, dispute, started, admin>>

ModifyRollback(r) ==
  /\ Ends(r, "modifyRollback")
  /\ SetTotal(req[r].booking, req[r].old)
  /\ Silent
  /\ UNCHANGED <<session, conv, dispute, started, admin>>

\* respondToCounterOffer: ask the Companion Backend first, then handle the
\* answer like a callback.
Counter(r, b, reply) ==
  /\ Arrives(r, "counter", [For(b, "counter") EXCEPT !.incoming = reply])
  /\ Status(b) = "counter_proposed"
  /\ Silent
  /\ UNCHANGED <<booking, session, conv, dispute, started, admin>>

CounterAnswered(r, pass) ==
  /\ req[r].at = "counter"
  /\ Complete(req[r].incoming, pass)
  /\ req' = [req EXCEPT ![r].at = "callback", ![r].pass = pass]
  /\ Silent
  /\ UNCHANGED <<booking, session, conv, dispute, started, admin>>

CounterCallback(r) ==
  /\ req[r].at = "callback"
  /\ ReadForCallback(r, req[r].booking, req[r].incoming, req[r].pass)

\* Mutant of Dispute: the status first, the row never.
DisputeUnrecorded(r, b) ==
  /\ Arrives(r, "dispute", For(b, "dispute"))
  /\ Silent
  /\ UNCHANGED <<booking, session, conv, dispute, started, admin>>

\* disputeBooking: any status; the row first, then the status.
Dispute(r, b) ==
  /\ Arrives(r, "dispute", For(b, "dispute"))
  /\ dispute' = dispute \cup {b}
  /\ Silent
  /\ UNCHANGED <<booking, session, conv, started, admin>>

DisputeWrite(r) ==
  /\ Ends(r, "dispute")
  /\ SetStatus(req[r].booking, "disputed")
  /\ Silent
  /\ UNCHANGED <<session, conv, dispute, started, admin>>

-------------------------------------------------------------------------------
(* SessionService                                                          *)

\* checkIn: the booking is read before the transaction, the session in it.
CheckIn(r, b) ==
  /\ Arrives(r, "checkIn", For(b, "checkIn"))
  /\ Status(b) \in {"accepted", "confirmed", "in_progress"}
  /\ Silent
  /\ UNCHANGED <<booking, session, conv, dispute, started, admin>>

CheckInSession(r) ==
  LET row == session[req[r].booking] IN
  /\ req[r].at = "checkIn" /\ row.pass
  /\ \/ row.status = "upcoming" /\ Resumes(r, "checkIn", "checkInCommit")
     \/ row.status \in Live /\ Ends(r, "checkIn")
  /\ Silent
  /\ UNCHANGED <<booking, session, conv, dispute, started, admin>>

CheckInCommit(r) ==
  LET b == req[r].booking IN
  /\ Ends(r, "checkInCommit")
  /\ session' = [session EXCEPT ![b].status = "checked_in", ![b].checkIn = Stamped(session[b])]
  /\ SetStatus(b, "in_progress")
  /\ Silent
  /\ UNCHANGED <<conv, dispute, started, admin>>

\* endSession: the Companion Backend has to confirm before anything is written.
End(r, b) ==
  /\ Arrives(r, "end", For(b, "end"))
  /\ session[b].status \in Live
  /\ Silent
  /\ UNCHANGED <<booking, session, conv, dispute, started, admin>>

EndConfirmed(r) ==
  /\ Resumes(r, "end", "endCommit")
  /\ Silent
  /\ UNCHANGED <<booking, session, conv, dispute, started, admin>>

EndCommit(r) ==
  LET b == req[r].booking IN
  /\ Ends(r, "endCommit")
  /\ session' = [session EXCEPT ![b].status = "completed"]
  /\ SetStatus(b, "completed")
  /\ Post(b, "completed")
  /\ UNCHANGED <<conv, dispute, started, admin>>

-------------------------------------------------------------------------------

\* PaymentService confirms the booking.
Pay(b) ==
  /\ "pay" \in Ops
  /\ SettlementMove(b)
  /\ Silent
  /\ UNCHANGED <<session, conv, dispute, started, admin, req>>

\* A request ends early: an error, a timeout, a conditional update that matched
\* nothing, a deadlock victim, or a crash.
Abort(r) ==
  /\ req[r] # Idle
  /\ req' = [req EXCEPT ![r] = Idle]
  /\ Silent
  /\ UNCHANGED <<booking, session, conv, dispute, started, admin>>

Arrive(r, b) ==
  \/ \E incoming \in Incoming, pass \in BOOLEAN : Callback(r, b, incoming, pass)
  \/ OpenChat(r, b) \/ Dispute(r, b) \/ CheckIn(r, b) \/ End(r, b)
  \/ \E tier \in RefundTiers : Cancel(r, b, tier)
  \/ \E total \in Amounts : Modify(r, b, total)
  \/ \E reply \in {"accepted", "declined"} : Counter(r, b, reply)

Proceed(r) ==
  \/ Apply(r) \/ Duplicate(r) \/ FindStarted(r) \/ PostStarted(r) \/ Sync(r)
  \/ ReadForChat(r) \/ WriteChat(r) \/ CloseChat(r)
  \/ CancelWrite(r) \/ ModifyWrite(r) \/ ModifyCall(r) \/ ModifyRollback(r)
  \/ \E pass \in BOOLEAN : CounterAnswered(r, pass)
  \/ CounterCallback(r)
  \/ DisputeWrite(r) \/ CheckInSession(r) \/ CheckInCommit(r)
  \/ EndConfirmed(r) \/ EndCommit(r)

Next ==
  \/ \E r \in Requests : Proceed(r) \/ Abort(r)
  \/ \E r \in Requests, b \in Bookings : Arrive(r, b)
  \/ \E b \in Bookings : Pay(b)

Spec == Init /\ [][Next]_vars

-------------------------------------------------------------------------------
(* Properties                                                              *)

\* An accepted or confirmed booking has a session with a pass code, and so has one
\* that was paid for, whatever became of it: the customer can check in.  No other
\* path may bring a booking to "accepted".
AcceptedHasPass ==
  \A b \in Bookings :
    Status(b) \in {"accepted", "confirmed"} \/ booking[b].paymentStatus = "completed" =>
      session[b].pass

\* A booking never goes back on offer: it becomes accepted or counter-proposed
\* only out of a status in which it is still open (or disputed), whatever
\* callback was read before another request closed, confirmed or started it.
NeverBackOnOffer ==
  [][\A b \in Bookings :
       Status(b)' # Status(b) /\ Status(b)' \in {"accepted", "counter_proposed"} =>
         Status(b) \in {"pending", "counter_proposed", "accepted", "disputed"}]_vars

\* A session row appears in the transaction that accepts the booking, and keeps
\* its pass: the replay branch, which could create it too, never has to.
SessionBornAccepted ==
  [][\A b \in Bookings :
       /\ session[b].status = "none" /\ session'[b].status # "none" =>
            Status(b) # "accepted" /\ Status(b)' = "accepted"
       /\ session[b].pass => session'[b].pass]_vars

\* A running session carries the time it started, whichever of the callback, its
\* replay and the check-in started it.  One that is over need not: a booking can be
\* completed or cancelled whose session never started.
LiveIsStamped ==
  \A b \in Bookings : session[b].status \in Live => session[b].checkIn # "unset"

\* No callback, stale or repeated, rolls a completed or cancelled booking back
\* (booking-sync-ordering.spec.ts), whatever the customer's operations do to it
\* between its read and its write.  What can is a check-in that had read the
\* booking before it ended: its transaction writes "in_progress" by id.
CallbacksNeverRollBack ==
  [][\A b \in Bookings :
       Status(b) \in {"completed", "cancelled"} /\ Status(b)' \in {"in_progress", "accepted"} =>
         \E r \in Requests : req[r].at = "checkInCommit" /\ req[r].booking = b]_vars

\* A disputed booking has a dispute row for the support team.
DisputeOnRecord == \A b \in Bookings : Status(b) = "disputed" => b \in dispute

-------------------------------------------------------------------------------
(* Properties of the callbacks, any number of them in any order, next to    *)
(* payments, modifications and opened chats.  The operations left out write *)
(* the booking by its id, whatever became of it since they read it.        *)

CallbacksOnly == Ops \cap {"cancel", "dispute", "checkIn", "end"} = {}

\* A late, repeated or reordered callback does not move a closed booking.
ClosedIsFinal ==
  [][\A b \in Bookings : Status(b) \in Closed => Status(b)' = Status(b)]_vars

\* A session that has begun or ended is never "upcoming" again: a replayed acceptance
\* stores the pass "without regressing an existing session status".  An ended one
\* is set going again by one thing only, a replayed start that read the booking
\* before it ended; that update looks at no status.
SessionKeepsItsProgress ==
  [][\A b \in Bookings :
       /\ session[b].status \in Live \cup {"completed", "cancelled"} =>
            session'[b].status # "upcoming"
       /\ session[b].status \in {"completed", "cancelled"} =>
            \/ session'[b].status = session[b].status
            \/ \E r \in Requests :
                 req[r].at = "duplicate" /\ req[r].booking = b /\ req[r].incoming = "in_progress"]_vars

\* A conversation is shut only when its booking is over: no message is refused
\* while the booking can still go on.
ShutOnlyWhenOver ==
  \A b \in Bookings :
    /\ conv[b] = "read_only" => Status(b) = "completed"
    /\ conv[b] = "closed" => Status(b) \in {"cancelled", "declined"}

\* What the Admin Backend was last sent may be old, it is not ahead: a booking it
\* shows as closed is closed that way.
AdminNotAhead ==
  \A b \in Bookings : admin[b] \in Closed => Status(b) = admin[b]

-------------------------------------------------------------------------------
(* Claims of the repository that the code does not keep                    *)

\* A cancellation that requires a refund leaves the booking active (support FAQ
\* f6, and the error that cancelBooking throws).
RefundKeepsBooking ==
  [][\A r \in Requests :
       req[r].at = "cancel" /\ req'[r].at = "sync" =>
         ~ RefundDue(req[r].booking, req[r].tier)]_vars

\* "Replays must not create duplicate notifications or reset session timestamps"
\* (handleInternalStatusUpdate): a callback that reports the start of a booking in
\* progress leaves the start time of its session as it is, and notifies only a
\* customer who has no notification of a start.
ReplaysAreHarmless ==
  [][\A r \in Requests : \A b \in Bookings :
       (/\ req[r].at \in {"duplicate", "apply", "postStarted"} /\ req[r].booking = b
        /\ req'[r].at # req[r].at
        /\ req[r].incoming \in {"in_progress", "active"} /\ Status(b) = "in_progress") =>
       /\ session[b].checkIn # "unset" => session'[b].checkIn = session[b].checkIn
       /\ started => posted'[b] = "nothing"]_vars
===============================================================================
