# Verification of the CoBuddy Customer Backend

The Customer Backend (NestJS, Prisma, PostgreSQL) serves the customer app. It owns
bookings, payments, sessions, chat, reviews and the customer's account, and talks to
the Companion Backend, the Admin Backend and Razorpay over HTTP. It is one Node
process or several on one database. Nothing runs in parallel inside a process, yet
every `await` lets other requests run, so a handler that reads a row, calls another
service and writes the row back meets everything the others did in between. That is
what this project is about.

Paths below are relative to `src/src/modules/`, unless they begin with `src/`.

## 1. Inventory

| Component | State | Operations that change it | Talks to | Hard behaviour | What makes it correct |
|---|---|---|---|---|---|
| Payment (`payment`) | `customer_razorpay_orders`, `customer_transactions`, wallet balance, a booking's payment status | createOrder, addMoney, verifyPayment, verifyWalletTopup, handleWebhook, confirmBookingPayment (development) | Razorpay, booking row, Admin | checkout and webhook race, repeated webhooks, captures after cancellation | an order is settled once, a booking is bought once, captured money is recorded (but for a second payment of one order), answers are true |
| Booking (`booking`) | `customer_bookings`, disputes, booking notifications | createBooking, cancel, modify, respondToCounterOffer, dispute, status callback | Companion, Admin, chat, session row | taps that race with each other; late, repeated and reordered callbacks; requests that acted on an old read | a standing booking is respected, closed bookings stay closed, accepted ones have a pass |
| Session (`session`) | `customer_sessions`, booking status | checkIn, endSession (extendSession always refuses) | Companion, booking row | reads outside the transaction that writes | a running session has a start time, no session is upcoming again once it has begun |
| Chat (`chat`) | conversations, messages, unread counters, presence in memory | get-or-create, send, mark as read, moderation, sockets | Companion, Admin, booking row | retried messages, resets that race with arrivals, sockets that vanish; the conversation's status follows the booking in separate writes | counters fit the messages, a retry stores nothing twice, a connected customer is online, no chat is shut while its booking goes on |
| Reviews (`reviews`) | `customer_reviews` with two sync marks | submit, cron every minute | Companion, Admin | immediate sync and cron overlap, services down for long | every review reaches both services in the end |
| Auth, Account (`auth`, `account`) | customers, one-time codes, refresh tokens, settings, blocks | send and verify code, refresh, logout, ban, deactivate, delete, change of number | SMS, Admin | check-then-act on attempts, tokens and numbers | a code opens one login, a login holds one token, guesses are bounded |
| KYC (`kyc`) | KYC row, status on the customer row | submit, resubmit, Admin's decision | Admin | two rows written one after the other | - |
| Discovery, Companion client | caches in memory, favourites | read-through, invalidate | Companion | cached objects are shared and changed in place | a customer sees nobody they blocked, a review is shown once |
| Wallet | bank accounts, default payment method | default method; money operations always refuse | - | - | balance changes by settlements only |
| Safety, Support, Notifications, Profile, Uploads, System | rows of their own | single writes, forwards | Admin | little | - |

How the parts meet: BookingService, SessionService and PaymentService write the *same
booking row* and take no lock beyond one transaction. ChatService reads it to derive a
conversation's status. The Companion Backend drives it by callbacks. The Admin Backend
is told after the fact, best effort. DiscoveryService and AccountService share the caches
of CompanionClientService and the block table.

## 2. Modules

| Module | What it is |
|---|---|
| `CustomerDb` | The booking row and the contract between its writers: `SettlementMove` (PaymentService) and `LifecycleMove` (everybody else). |
| `Payment` | PaymentService in steps between awaits. |
| `Settlement` | What PaymentService promises: bills, each paid once, booking bought by one of them. Abstract. |
| `BookingRequest` | createBooking: pricing, the two look-ups, storing and dispatch, with several taps at once; then the terms of the stored rows through modifications, counter-offers and acceptances. |
| `Booking` | Life of a stored booking: callback, counter-offer answer, cancel, modify, dispute, check-in, end, and the conversation's status. |
| `Backend` | `Payment` and `Booking` together on one table, handlers against handlers, with the theorems about both. |
| `Chat` | One conversation's messages, counters, retries and read marks, and the presence map of the gateway. |
| `ReviewSync` | ReviewsService: submission, immediate task, cron. |
| `Delivery` | What the synchronisation promises: due, delivered at least once, ticked off after that. Abstract. |
| `Account` | Codes, logins and refresh tokens; sign-out, suspension, deactivation, deletion, change of number, and the row of settings. |
| `Discovery` | Lists and profiles on shared cached objects, blocks, favourites, local reviews. |
| `*Proofs` | Theorems and proofs: `PaymentProofs`, `BookingProofs`, `BookingRequestProofs`, `ReviewSyncProofs`, `ChatProofs`, `AccountProofs`, `DiscoveryProofs`. |
| `MC*` | Symmetry sets and constants for TLC. |

### Payment and Booking together

Payment and Booking are modelled apart. Each takes the other's steps as its environment:
`BookingMoves` in Payment is any `LifecycleMove`, which never confirms a booking and never
touches the payment status; `Pay` in Booking is a `SettlementMove`, which starts from an
accepted, unpaid booking and leaves its total alone.

`Backend` takes both environments away. Its steps are those of PaymentService, its provider and
the checkout app (`PaymentStep`), and those of BookingService, SessionService, ChatService and
the callbacks (`BookingStep`), on one `booking`. `RefinesBoth` says that the two together are a
behaviour of Payment's specification and of Booking's: each module's environment was right, and
everything checked or proved of either holds of both. It could be false although each module
is consistent: a cancellation that also reset the payment status would satisfy everything
said in Booking about sessions, and break what Payment relies on.

What only both together can say is about money and pass: whoever's order bought a booking holds
the pass for its check-in (`BuyerHasPass`). What Payment promises about captures and answers is
stated here too, because here it has to hold against the real cancellations, modifications and
check-ins, which act on what they read before a payment settled.

The other modules meet Booking through one column each, which their environment changes
freely: `Chat` lets the conversation's status take any value at any time (`SetStatus`), and
`BookingRequest` moves stored bookings along `Moves`, which may be any relation on statuses.
Two moves also write a row's terms: a counter-offer proposes a start (`CounterProposed`), and an
acceptance copies it with its displayed time (`Accepted`). `Modify` writes new terms into a row
of any status, since `modifyBooking` updates by id what was pending when it read it; its rollback
writes terms that an earlier step wrote, so it is a `Modify` too.
Their properties hold under more behaviours than Booking has.

### State and code

* `booking[b]`: status, payment status and total of a row. The other columns carry no
  control. `counterTotalAmount`, which an acceptance would copy into the total, is
  written nowhere in the repository, so an acceptance leaves the total alone.
* `order`, `ledger`, `wallet`: the order row, the transaction rows written for it, the
  balance. `told[o]` is the `bookingStatus` of the last answer about order `o`.
* `charge`: the provider's payments, external. A payment has a valid signature from its
  authorization on, and a webhook from its capture on.
* `session`, `conv`, `dispute`: one session row, one conversation and any number of
  dispute rows per booking. Of the start time only "unset", "set" and "reset" (written
  over) matter.
* `posted`, `started`: the notification the last step inserted, and whether the customer
  has any notification titled "Started" (the replay branch looks for one of the customer,
  not of the booking). `admin`: what the Admin Backend was last sent, external.
* `BookingRequest`: a row is what was asked for (`want`), its status and its price. `want`
  keeps what the look-ups compare: customer, companion, start and the displayed time *as
  text*. `offers` are the starts that the companion proposed for it, the counterDate column with
  its past values; the counterTime column is `ServerShows` of them. `offered` is what the Companion Backend has received, whether or not its answer came
  back; `steady[r]`, a history variable, the rows nobody has
  written since tap `r` arrived, or since they were stored.
* `Chat`: a message is the text it was sent as; `Tagged` are those with a clientMessageId.
  `unread` and `badge` are the three counter columns; `readAt`, `badgeAt` remember, as history,
  how many rows there were at the last reset, and `overlap` the tagged texts that were in
  flight twice at once. `presence` is the map's entry for the customer, `ghosts` the sockets
  that left while their token was verified and were counted all the same.
* `ReviewSync`: `synced` are the two SyncedAt columns, `recent` the attempts of less than a
  minute ago, `received` what the services got. A task works on copies with the marks they had
  when it read them.
* `Account`: `code` is the table of one-time codes in the order of creation. A refresh token
  is named by the login it descends from and the number of exchanges. `owner`, `entered` and
  `revoked` are history. Of a typed code only its being right matters. `wallet` and `setting`
  are who has a row there; settings are created by the login that creates their customer, by
  the first read that finds none, and by the first update.
* `Discovery`: a cached object is named by the fetch that made it, since whoever is answered
  from the cache holds the object itself. `must` is what a request may not show: the blocks its
  customer had at its start and still has.
* `call[k]`, `req[r]`: requests in flight, a program counter and the values the handler
  carries over an await.

### Atomicity

Every `await` on the database or on another service ends a step. Two things are one step:

* A single query, `updateMany` with its where-clause included. PostgreSQL re-evaluates
  the clause on the locked row, so a conditional update is a guard and an assignment. The
  delete of a row by id is one too: it fails where the row is gone, and that failure is what
  keeps a code and a token single-use (`Present`, `Consumed`).
* A transaction whose first statement is such an update or locks the row it decides on.
  The settlement claims the order row first and then takes the booking row; the
  callback's transactions begin with the conditional update of the booking. Writers of
  the same rows are serialised by the row locks, and a deadlock victim is an `Abort`.
  Reads that a transaction makes of a row it has not yet locked are *not* in that step:
  the check-in's session check (`CheckInSession`) and its writes (`CheckInCommit`) are two.

`Abort` (`Lost`, `End`, `Crash`, `StoreFails`) ends a request at any of its awaits: an error,
a timeout, an unmatched conditional update, a crash of the process. What was written stays
written. `Restart` of Chat ends all requests and sockets and empties the presence map.

Not awaited in the code, and still steps of the request here: the Admin sync after a
cancellation. It may come at any later time, which the step between allows.

## 3. What is checked

`Ops` and `Endpoints` say which operations a run calls; `Incoming` which statuses its
callbacks carry. Every action fires in one of the passing runs.

| Run | Asks |
|---|---|
| `payment` | With all endpoints, development shortcuts included, racing: is an order settled once (`SettledOnce`), a booking bought once (`BoughtOnce`), is the wallet the sum of its top-ups (`WalletIsTopUps`), do the handlers implement `Settlement` (`ImplementsSettlement`)? |
| `backend` | With the payment endpoints of a production build, callbacks, cancellation, modification and check-in on one row at two prices: is each service what the other takes it for (`RefinesBoth`), has every buyer a pass (`BuyerHasPass`), was every paid order captured (`OnlyCapturedMoney`), is every "confirmed" true (`ConfirmedAnswersArePaid`), is a booking confirmed only out of accepted at its present total (`CaptureNeverReopens`), is every captured payment recorded in the end, unless another payment of the same order was (`CapturedIsRecorded`)? |
| `booking` | With customer operations and callbacks racing: what still holds of the rows? `AcceptedHasPass`, `LiveIsStamped`, `DisputeOnRecord`, `NeverBackOnOffer`, `SessionBornAccepted`, and `CallbacksNeverRollBack`: what is over is set going again by no callback, only by a check-in that read the booking before. |
| `booking_callbacks` | With callbacks, counter-offer answers, modifications, payments and chat requests alone, any status in any order: is a closed booking final (`ClosedIsFinal`), is no session upcoming again and an ended one touched by nothing but a stale replay of its start (`SessionKeepsItsProgress`), no conversation shut early (`ShutOnlyWhenOver`), the Admin Backend never ahead (`AdminNotAhead`)? |
| `booking_request` | With taps racing with each other and with the bookings' moves, modifications and counter-offers: is a booking that stood before the tap never overlooked (`StandingBookingRespected`), nothing re-sent that was over (`OnlyWaitingIsResent`), is "sent" true when answers get lost (`SentIsTrue`), do a row's price, start and displayed time fit, whoever wrote them (`TermsSound`)? |
| `review_sync` | With overlapping tasks, failures and crashes: does every review reach both services and get its marks (`EveryReviewArrives`), and does the synchronisation implement `Delivery` (`ImplementsDelivery`)? |
| `chat` | With sends, retries, reads and restarts interleaved: is each counter the number of rows since its reset (`UnreadIsWhatArrived`), is a tagged text stored once (`OneRowPerTag`), does the presence map count the sockets (`PresenceIsSockets`)? |
| `account` | With logins, refreshes, sign-outs, suspension, deletion and change of number racing and failing: does a code open one login (`CodeEntersOnce`), has a login one token and none after a revocation (`LoginHoldsOneToken`), by how much can parallel guesses overrun the limit (`GuessesBounded`)? |
| `discovery` | With two customers on the same cached objects: is nobody shown whom they blocked (`OwnBlocksHonoured`), is no review shown twice (`ReviewShownOnce`)? |

`booking_callbacks` leaves cancellation, dispute, check-in and end out (`CallbacksOnly`)
because its properties are promises about *callbacks*: those four write the status by id,
whatever became of the booking since they read it, and break several of them, which the runs
below show where the repository claims otherwise. A modification writes by id too, but not
the status.

Each passing property has a mutant: an operator written next to the one it would replace,
with a plausible slip in it (a dropped guard, an update by id only, a stale copy).
TLC refutes the property with the mutant in place.

### Claims that the code does not keep

| Run | What happens |
|---|---|
| `double_payment` | Two orders of one booking are captured. The second is put aside as "pending" and still answered "confirmed", since the answer looks at the booking and not at the order (`payment/payment.service.ts:224-231`). |
| `refund` | In `Backend`, the payment of the checkout app settles between `cancelBooking`'s read and its update by id: the booking is cancelled with a refund due, against its own error text and FAQ f6. |
| `replay` | A start that the Companion Backend reports again writes the start time of the session anew (`booking/booking.service.ts:772`), to the `startedAt` it brings or else to the present time; the comment at line 751 says that replays reset no timestamps and post nothing twice. After a check-in even the first report counts as a replay. `ReplaysAreHarmless` states both halves; the second one fails as well, when two replays look for the notification (line 779) before either inserts it. |

### What the models show besides

Behaviours of the code that the models reach and that no run states as a property, because
they are exceptions the properties name or contradict no promise:

* Two taps in flight together can both pass both look-ups, so a companion's slot or a
  customer's request can be stored twice. The look-up of taken slots compares the displayed
  time as text, so it misses the same hour in another spelling and every overlapping duration,
  although the comment above it speaks of overlapping windows. A price may come from a cached
  profile of up to a minute ago.
* A replayed start that read its booking before a completing or cancelling callback sets the
  ended session active again (`booking/booking.service.ts:772`): its update looks at no status.
  `SessionKeepsItsProgress` names it as the one step that changes an ended session. The handler
  takes `active` for `in_progress` when it applies a callback (line 973) but not when it looks
  for a replay (line 750), so a start reported twice as `active` is applied twice, start time and
  notification included; `ReplaysAreHarmless` counts it as a replay.
* A check-in that read its booking before a cancellation writes `in_progress` by id and so
  brings the cancelled booking back (`session/session.service.ts:104`).
  `CallbacksNeverRollBack` names it as the one step that can.
* A second captured payment of one order is refused (`payment/payment.service.ts:184`, 685-690),
  however often the webhook repeats it: no ledger row ever names it. `CapturedIsRecorded` excepts
  it.
* A session that never started is completed or cancelled with its booking and has no start
  time; `LiveIsStamped` is about running sessions only.
* A modification updates by id after remote
  pricing, so it can change the price of a booking that was accepted meanwhile (line 518), and
  after a lost answer it puts the old terms back on this side only (line 541). The displayed
  time of a counter-offer is formatted by the server without a time zone (lines 943-947), so an
  accepted one can show another hour than the customer's; `TermsSound` allows that for starts
  the companion proposed, and for no others.
* A message stored while `getMessages` or `markAsRead` is between its read and its reset is
  counted as read unseen. Two sends of one clientMessageId in flight together store two rows.
  A retry after the conversation was shut is refused, although the first send was stored. A
  conversation that is addressed by its booking passes the look-ups and fails at the insert.
* A ghost keeps a customer "online", so they get no notification, until the process restarts.
* A cron tick during the first call of an immediate task sends the review again: delivery is
  at least once. Fifty reviews that fail for ever starve the younger ones.
* A login does not look at the account's status; the guard of every other route does. A
  crash between the customer's row and the wallet leaves no wallet for ever, and the settlement
  of a top-up, which updates the wallet's row, then fails each time the provider repeats it
  (`payment/payment.service.ts:202`); `Payment` takes the wallet to exist. A second login of a
  new number, made before the first has created the settings, can have them created by a read,
  and the first login fails on its insert with its code used up. The change of
  number deletes its codes without checking that they are still there. A refresh that has
  consumed its token when the account is suspended stores the next one afterwards. Lifting a
  suspension also lifts a deactivation.
* The filtered list is written into the cached object: one customer's blocks hide companions
  from others for as long as the entry lives, and `total` becomes the length of the page.
  Favourites and the page of blocked users do not look at blocks. A fetch that is under way
  when the caches are cleared stores what it fetched before.

### Bounds, and why they are enough

* `booking*`: one booking. No operation relates two bookings, except the look-up of a "Started"
  notification, which with one booking is exercised in both outcomes. `booking_request` relates
  rows and has two, for one companion and one start, displayed once rightly and once wrongly, and
  a counter-offer for one other start, with the server's clock apart from the customer's.
* Two requests in flight. Every hazard listed is between two requests, and each request can
  be followed by any number of others; a third adds no new kind of interference, because a
  handler sees the others only through the rows. The proofs have no such bound.
* Two orders and two payments: enough for two payments of one order, two orders of one
  booking, and a top-up next to a booking payment. Totals 1 and 2 where prices matter
  (`backend`, `booking`), 1 elsewhere.
* `backend`: one order, two payments and two payment requests against one request of the booking
  handlers, which can be suspended while a payment is settled and be followed by any other. Two
  requests of the booking handlers race in `booking`, several orders in `payment`. Top-ups touch
  no booking and are left to `payment`.
* `booking` takes three callback statuses, one that opens, one that starts and one that
  closes; `booking_callbacks` takes eight, all seven that the handler applies and
  `expired`, which stands for a status it does not know. `replay` takes the two that
  make a start and its repetition.
* `Lifecycle` in `payment` and `double_payment` is {accepted, cancelled}: a settlement distinguishes
  accepted from the rest.
* `review_sync`: two reviews and a `Limit` of one, where the code has fifty, so that a review
  waits behind the limit; `MaxFaults` two failures or crashes.
* `chat`: a tagged text of the customer, one of the companion, one of the staff, two rows
  (`MaxMessages`), two sockets and one ghost (`MaxGhosts`).
* `account`: two customers, three numbers of which one is not on the test build's list, two
  codes, logins and requests, one exchange per login, and one guess per code where the code
  has five; `GuessesBounded` names the limit and the number of requests.
* `discovery`: one companion, because companions share nothing but the list they stand in; two
  fetched objects, so that an entry is replaced while the old object is still held.
* Symmetry over requests, orders, payments and sockets in runs of safety only.

### Fairness

`FairSpec` of Backend assumes that a payment request in flight goes on or fails (Node resumes every
settled promise, and each provider call has a timeout), that the provider repeats a webhook
it got no success for, and that not every repetition meets a crash (strong fairness of its
receipt and of its settlement). Nothing is assumed of the app, which may never verify, or of the
booking handlers, which may stop anywhere. Without the webhook `CapturedIsRecorded` is false.

`FairSpec` of ReviewSync assumes weak fairness of the cron (it fires every minute), of each
task's next step (every call has a timeout) and of time (an attempt becomes older than a
minute). Failures and crashes are bounded instead of fair: the services come back. No fairness
is assumed of submissions or of the immediate task's survival.

## 4. What is proved

TLAPS checks these for every value of the constants, from the assumptions the modules name:
in Payment and Booking `AmountsAssumption` (totals are positive), `LifecycleAssumption` (only a
settlement writes "confirmed"), `LifecycleComplete`, `EndpointsAssumption`, `OpsAssumption`; in
the others that null is not a value, that bounds are numbers, that requests (Account), sockets
(Chat) and reviews (Discovery) are finite sets so that they can be counted, the types of
`Moves`, `Displays`, `Author` and the like, and in BookingRequest `ServerAssumption`: what the
server displays of a proposed start is that start on its own clock.

**PaymentProofs.** `TypeCorrect`, `OrderSettledOnce`, `BookingBoughtOnce`, `NeverReopened`,
`WalletKeepsTopUps` and `Implements`; and under `Production` (the development endpoints
are off) `NoMoneyOnSignature` and `NoFalseConfirmation`.

`BoughtOnce` is not inductive: a settlement step keeps it only if the order it claims has no
ledger row yet and the booking it links is unpaid. The first needs `SettledOnce`, the second
is the conditional update. Around these, the invariant `IInv` says what requests carry
(`CallSound`: a request about to settle names an order that exists), what rows look like
(`OrdersSound`), and what the provider's payments name (`ChargesSound`). The production
theorems add that a request about to settle names a payment captured for its order, which
stays captured for good. The wallet's sum is the number of rupees of the paid top-ups, each
rupee a pair of its order and its place there: a settled top-up adds exactly its amount to the
set (`RupeesOfSettlement`), and nothing else enters or leaves it. `Implements` maps an order to a bill, `PaidFor` to the bill that
bought a booking, and shows each step to be one of `Settlement` or a stutter.

**BookingProofs.** `TypeCorrect`, `PassCodeKept` and `NeverOfferedAgain`. `AcceptedHasPass`, which
covers bookings that were paid and since moved on, and `NeverBackOnOffer` speak of the rows, but
the reason is in the requests: a callback suspended before its transaction has been checked
against the status it read and brings a pass if it accepts (`Sound`), and the transaction
runs only if that status is still there (`Unmoved`). The invariant also lists the statuses a
booking really gets; "payment_pending", "refunded" and "expired" are never written.

`NoCallbackRollsBack` is the same argument for what is over: a callback about to run its transaction
has read a booking that was not, and runs only if that is still so.

Then sessions and disputes: `StartIsStamped`, `DisputesRecorded` and `SessionsBornAccepted`. The
replay of an acceptance writes a session row without looking at the
booking, so it could create one; it does not, because the booking was read as accepted, an
accepted booking has its row, and no step takes a row or a pass away. The invariant `SInv`
keeps that for every suspended request (`Backed`: the row or dispute it has seen or written),
and `SessionsMove` says what a step may do to the rows, so that one request's step leaves
the others' backing in place.

Last, the callbacks among themselves, under `CallbacksOnly`: `ChatsShutWhenOver`,
`AdminIsNeverAhead`, `ClosedStaysClosed`, `SessionsKeepTheirProgress`. The hypothesis leaves out the four operations
that write the status by id; with them the statements are false. A conversation is written,
and the Admin Backend told, in a later step than the read that justifies it, so the statements
are about suspended requests first: `Current` says of each what it read and what of that still
holds. It does hold because statuses only go forward there (`StatusesForward`): a closed one
is the last, so who read it closed is right for ever, and who read an open one never shuts
anything. `BookingsInOrder` ties the session and the "Started" notification to the status: a
booking that has not begun has no session that has, and a session that is over ended as its
booking did. So only a callback that is applied begins or ends a session, and what an ended one
still meets are replays. `CInv` is inductive only as a whole, since each part is what
keeps another's requests current.

**Backend.** `Composition`, `BuyersCanCheckIn`, `NeverReopened`, and under `Production`
`NoMoneyOnSignature` and `NoFalseConfirmation`; the last three follow from `Composition` and the
theorems of the same name in `PaymentProofs`. Its invariant is
Payment's and Booking's together. Given them, a step of PaymentService changes a booking by a
`SettlementMove` or not at all (`OwnStepsSettle`), so Booking sees its `Pay`; a step of a booking
handler changes one by a `LifecycleMove` or not at all (`HandlerMoves`), so Payment sees its
`BookingMoves`. Each invariant is then kept by its own module's proof, and neither argument
assumes what the other proves of the same step. `BuyersCanCheckIn` needs both: a ledger row
"completed" means a paid booking (`BoughtOnce`), a paid booking was accepted once, and the pass
of an acceptance is never taken away (`AcceptedHasPass`).

**BookingRequestProofs.** `TypeCorrect`, `StandingKept`, `ResentWaiting`, `SentTold`,
`TermsKept`, and `ClockRead` about the clock conversion. The invariant gives each program
counter what the tap has established about the rows of `steady[r]`, and what it carries for
the row it will store; another tap's row enters no `steady` set and a written row leaves them
(`WrittenKeeps`), so both are kept. Terms are an invariant of their own (`SoundPrices`,
`SoundTimes`): each of the three writers of a row's terms is shown to keep them (`RowRewritten`). The arithmetic, three roundings against 133 per cent, is proved for all numbers.

**ReviewSyncProofs.** `TypeCorrect` and `Implements`: a task about to mark an item holds one
that was received, so a mark is a `Tick`, a call that succeeds a `Hand`, a submission a `Fall`.

**ChatProofs.** `TypeCorrect`, `CountersExact`, `StoredOnce`, `PresenceExact`. The counters need
that a reset never leaves the badge's mark behind the counter's. `StoredOnce` needs that a
request past the look-up of a tagged text is alone with it and that the text is unstored,
unless it is in `overlap` (`Passed`, `Alone`).

**AccountProofs.** `TypeCorrect`, `OneLoginPerCode`, `GuessesCounted`, `OneTokenPerLogin`.
`LoginHoldsOneToken` rests on the two ways a login holds something being exclusive: a row, or a
request that has deleted the row and not yet stored the next (`Single`). A code is entered at
most once, and not before its row is deleted (`CodeHistory`). Guesses are bounded by counting
those on record together with those under way, of which there are no more than requests.

**DiscoveryProofs.** `TypeCorrect`, `BlocksHonoured`, `ReviewsOnce`. A request's `must` stays
within the blocks its customer has, since an unblocking takes it out of both; the filter and
the profile's check read the block table after that and before the answer. An object has no
repeated review before a request completes it and none after: what is appended is what is
missing from the object at that step, and it is appended once.

**Model-checked only.** `CapturedIsRecorded` and `EveryReviewArrives`: the proof system
reaches neither liveness under fairness nor ENABLED. Every other property of a passing run is
a theorem. The three claims the code does not keep are counterexamples, found by TLC.

## 5. Not modelled, and why

* Signatures, guards, validation and formatting: they reject a request before it reads.
* Durations after creation and `extraMinutes`; fractional durations in `PriceOf`; the clock, so
  refund tiers are any of 0, 50, 100 per cent and a code or cache entry expires at any time.
* The Admin sync of a new booking: it is sent and forgotten.
* The concierge's automatic answers and tickets, moderation reports, and the lists of
  conversations; joining rooms and typing signals of the gateway.
* KYC: a submission or a decision writes the KYC row and then the customer's status. They can
  end up different when two of them interleave, and nothing in the repository says what should
  hold then; a property would be one of our own making.
* Guests, ratings, campaigns, interests and counts of the home page; the values of settings,
  preferences and languages, the request for reactivation, the profile: writes that no decision
  reads. Of the settings only the row is modelled (`Account`).
* extendSession, withdrawals, cards and bank accounts: they refuse in every state.
* Safety, Support, Uploads, System: single inserts, files, static answers.

## 6. What could follow

* `extraMinutes` and durations, if the code comes to say what a repeated extension means; the
  same for KYC's two rows.
* A run of Booking with Chat's messages together, if closing a conversation comes to promise
  anything about the messages in flight.
