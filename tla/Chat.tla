---------------------------------- MODULE Chat ----------------------------------
(***************************************************************************)
(* The messages of one booking's conversation: ChatService's send, read    *)
(* and mark-read with their unread counters, for the customer, the         *)
(* companion and support staff, and ChatGateway's presence map of the      *)
(* customer's sockets.  The conversation's status belongs to Booking and   *)
(* is written here by SetStatus at any time.                               *)
(*                                                                         *)
(* A request reads, is suspended at an await, and acts on what it read.    *)
(* The transaction that inserts a message and moves the counters is one    *)
(* step.  A text with a clientMessageId is "tagged": its app sends it      *)
(* again when it has no answer.  Names, attachments and previews are left  *)
(* out; so is the participant check, which compares ids that never change. *)
(***************************************************************************)
EXTENDS Integers, Sequences, FiniteSets

CONSTANTS Texts,       \* what is sent
          Tagged,      \* the texts with a clientMessageId
          Author,      \* who sends a text
          Requests,    \* requests in flight at once
          Sockets,     \* the customer's connections
          MaxMessages, \* bound on the rows of the conversation
          MaxGhosts,   \* bound on sockets lost while their token is verified
          None

Roles == {"customer", "companion", "staff"}
Readers == {"customer", "companion"}

ASSUME TaggedAssumption == Tagged \subseteq Texts
ASSUME AuthorAssumption == Author \in [Texts -> Roles]
ASSUME NoneAssumption == None \notin Texts
ASSUME SocketsAssumption == IsFiniteSet(Sockets)
ASSUME BoundsAssumption == MaxMessages \in Nat /\ MaxGhosts \in Nat

VARIABLES
  status,    \* of the conversation
  messages,  \* its rows, in the order of createdAt
  unread,    \* customerUnreadCount and companionUnreadCount
  badge,     \* unreadCount
  blocked,   \* the customer has blocked the companion
  notified,  \* rows the customer has a notification of
  presence,  \* presenceMap of the customer
  socket,    \* the state of each connection
  ghosts,    \* sockets that left while their token was verified
  req,       \* requests in flight
  readAt,    \* history: rows there were when each reader's counter was reset
  badgeAt,   \* history: rows there were when the badge was reset
  overlap    \* history: tagged texts sent again before the earlier send had ended

chat == <<status, messages, unread, badge, blocked, notified>>
sockets == <<presence, socket, ghosts>>
past == <<readAt, badgeAt, overlap>>
vars == <<chat, sockets, req, past>>

ConvStatus == {"active", "read_only", "closed"}
Request ==
  [at : {"idle", "block", "lookup", "store", "publish", "notify", "read"},
   text : Texts \cup {None}, row : Nat,
   reader : Readers \cup {None}]
At(a, m, i, p) == [at |-> a, text |-> m, row |-> i, reader |-> p]
Idle == At("idle", None, 0, None)

Init ==
  /\ status = "active" /\ messages = <<>>
  /\ unread = [p \in Readers |-> 0] /\ badge = 0
  /\ blocked = FALSE /\ notified = {}
  /\ presence = 0 /\ socket = [s \in Sockets |-> "away"] /\ ghosts = 0
  /\ req = [r \in Requests |-> Idle]
  /\ readAt = [p \in Readers |-> 0] /\ badgeAt = 0 /\ overlap = {}
-------------------------------------------------------------------------------
(* Sending *)

Becomes(r, state) == req' = [req EXCEPT ![r] = state]
Goes(r, here, next) == req[r].at = here /\ req' = [req EXCEPT ![r].at = next]
Ends(r, here) == req[r].at = here /\ Becomes(r, Idle)

\* r has not come to its insert yet.
Sending(r) == req[r].at \in {"block", "lookup", "store"}
Rows == 1..Len(messages)
Stored(m) == \E i \in Rows : messages[i] = m

Shut(s) == s \in {"read_only", "closed"}

\* The app, the Companion Backend or Admin sends; the conversation is read.
Send(r, m) ==
  /\ req[r] = Idle
  /\ ~Shut(status)
  /\ Len(messages) < MaxMessages
  /\ Becomes(r, At("block", m, 0, None))
  /\ overlap' = IF m \in Tagged /\ \E o \in Requests : Sending(o) /\ req[o].text = m
                THEN overlap \cup {m} ELSE overlap
  /\ UNCHANGED <<chat, sockets, readAt, badgeAt>>

CheckBlock(r) ==
  /\ \/ blocked /\ Ends(r, "block")
     \/ ~blocked /\ Goes(r, "block", "lookup")
  /\ UNCHANGED <<chat, sockets, past>>

\* Mutant of Known: the look-up is left out.
KnownNever(m) == m \in Tagged /\ FALSE
Known(m) == m \in Tagged /\ Stored(m)

\* A tagged text that is stored is answered with its row.
LookUp(r) ==
  /\ \/ Ends(r, "lookup") /\ Known(req[r].text)
     \/ Goes(r, "lookup", "store") /\ ~Known(req[r].text)
  /\ UNCHANGED <<chat, sockets, past>>

\* Mutant of Counted: what staff writes is not counted.
CountedPeers(p, m) == IF Author[m] \in Readers \ {p} THEN 1 ELSE 0
Counted(p, m) == IF Author[m] # p THEN 1 ELSE 0

BadgeAfter(n, m) == IF Author[m] = "customer" THEN 0 ELSE n + 1

\* The transaction: the row and the counters.
Store(r) ==
  LET m == req[r].text IN
  /\ req[r].at = "store"
  /\ messages' = Append(messages, m)
  /\ unread' = [p \in Readers |-> unread[p] + Counted(p, m)]
  /\ badge' = BadgeAfter(badge, m)
  /\ badgeAt' = IF Author[m] = "customer" THEN Len(messages) + 1 ELSE badgeAt
  /\ Becomes(r, At("publish", m, Len(messages) + 1, None))
  /\ UNCHANGED <<status, blocked, notified, sockets, readAt, overlap>>

\* The transaction fails; or the conversation was addressed by its booking's id
\* or a participant's, which the look-ups accept and the insert's foreign key does not.
StoreFails(r) == Ends(r, "store") /\ UNCHANGED <<chat, sockets, past>>

\* isUserOnline, decided in the step that broadcasts and relays.
Online == presence > 0

\* The relay to the Companion Backend is not awaited and changes nothing here.
Publish(r) ==
  /\ \/ Goes(r, "publish", "notify") /\ Author[req[r].text] = "companion" /\ ~Online
     \/ Ends(r, "publish") /\ (Author[req[r].text] # "companion" \/ Online)
  /\ UNCHANGED <<status, messages, unread, badge, blocked, notified, sockets, past>>

Notify(r) ==
  /\ Ends(r, "notify")
  /\ \/ notified' = notified \cup {req[r].row}
     \/ UNCHANGED notified
  /\ UNCHANGED <<status, messages, unread, badge, blocked, sockets, past>>
-------------------------------------------------------------------------------
(* Reading: getMessages and markAsRead read first and reset afterwards *)

Open(r, p) ==
  /\ req[r] = Idle
  /\ Becomes(r, At("read", None, 0, p))
  /\ UNCHANGED <<chat, sockets, past>>

ResetRead(r) ==
  LET p == req[r].reader IN
  /\ Ends(r, "read")
  /\ unread' = [unread EXCEPT ![p] = 0]
  /\ readAt' = [readAt EXCEPT ![p] = Len(messages)]
  /\ \/ p = "customer" /\ badge' = 0 /\ badgeAt' = Len(messages)
     \/ p = "companion" /\ UNCHANGED <<badge, badgeAt>>
  /\ UNCHANGED <<status, messages, blocked, notified, sockets, overlap>>
-------------------------------------------------------------------------------
(* Elsewhere: the booking's status, blocks, and the loss of the process *)

SetStatus(s) ==
  /\ status' = s
  /\ UNCHANGED <<messages, unread, badge, blocked, notified, sockets, req, past>>

SetBlock(b) ==
  /\ blocked' = b
  /\ UNCHANGED <<status, messages, unread, badge, notified, sockets, req, past>>

Restart ==
  /\ req' = [r \in Requests |-> Idle]
  /\ presence' = 0 /\ ghosts' = 0
  /\ socket' = [s \in Sockets |-> "away"]
  /\ UNCHANGED <<chat, past>>
-------------------------------------------------------------------------------
(* Presence *)

\* handleConnection, up to the first await of the token's verification.
Connect(s) ==
  /\ socket[s] = "away"
  /\ socket' = [socket EXCEPT ![s] = "verifying"]
  /\ UNCHANGED <<chat, presence, ghosts, req, past>>

\* The token is good: client.data.user is set and the socket counted, whether or
\* not it is still there.
Verified(s) ==
  /\ \/ /\ socket[s] = "verifying"
        /\ socket' = [socket EXCEPT ![s] = "open"]
        /\ UNCHANGED ghosts
     \/ /\ socket[s] = "left" /\ ghosts < MaxGhosts
        /\ socket' = [socket EXCEPT ![s] = "away"]
        /\ ghosts' = ghosts + 1
  /\ presence' = presence + 1
  /\ UNCHANGED <<chat, req, past>>

Rejected(s) ==
  /\ socket[s] \in {"verifying", "left"}
  /\ socket' = [socket EXCEPT ![s] = "away"]
  /\ UNCHANGED <<chat, presence, ghosts, req, past>>

\* Mutant of AfterLeaving: the user's entry goes with any of his sockets.
AfterLeavingNone(n) == IF n >= 0 THEN 0 ELSE n
AfterLeaving(n) == IF n <= 1 THEN 0 ELSE n - 1

\* Mutant of Disconnect: a socket is taken off without a verified user.
DisconnectUnverified(s) ==
  /\ socket[s] \in {"open", "verifying"}
  /\ socket' = [socket EXCEPT ![s] = "away"]
  /\ presence' = presence - 1
  /\ UNCHANGED <<chat, ghosts, req, past>>

\* handleDisconnect: a socket without a verified user is not taken off.
Disconnect(s) ==
  /\ \/ /\ socket[s] = "open"
        /\ socket' = [socket EXCEPT ![s] = "away"]
        /\ presence' = AfterLeaving(presence)
     \/ /\ socket[s] = "verifying"
        /\ socket' = [socket EXCEPT ![s] = "left"]
        /\ UNCHANGED presence
  /\ UNCHANGED <<chat, ghosts, req, past>>
-------------------------------------------------------------------------------
Next ==
  \/ \E r \in Requests :
       \/ \E m \in Texts : Send(r, m)
       \/ CheckBlock(r) \/ LookUp(r) \/ Store(r) \/ StoreFails(r)
       \/ Publish(r) \/ Notify(r)
       \/ \E p \in Readers : Open(r, p)
       \/ ResetRead(r)
  \/ \E s \in ConvStatus : SetStatus(s)
  \/ \E b \in BOOLEAN : SetBlock(b)
  \/ Restart
  \/ \E s \in Sockets : Connect(s) \/ Verified(s) \/ Rejected(s) \/ Disconnect(s)

Spec == Init /\ [][Next]_vars
-------------------------------------------------------------------------------
(* Properties *)

\* Every variable has its type.
TypeOK ==
  /\ status \in ConvStatus /\ blocked \in BOOLEAN
  /\ messages \in Seq(Texts)
  /\ unread \in [Readers -> Nat] /\ badge \in Nat
  /\ notified \subseteq Rows
  /\ presence \in Nat /\ ghosts \in 0..MaxGhosts
  /\ socket \in [Sockets -> {"away", "verifying", "left", "open"}]
  /\ req \in [Requests -> Request]
  /\ readAt \in [Readers -> 0..Len(messages)] /\ badgeAt \in 0..Len(messages)
  /\ overlap \subseteq Tagged

NotOf(p, from) == {i \in Rows : i > from /\ Author[messages[i]] # p}

\* However sends, reads, marks and restarts interleave: each side's counter is the
\* number of rows the others stored since it was last reset, and the badge counts
\* those since the customer last read or wrote; so it never exceeds the counter.
UnreadIsWhatArrived ==
  /\ \A p \in Readers : unread[p] = Cardinality(NotOf(p, readAt[p]))
  /\ badge = Cardinality(NotOf("customer", badgeAt))
  /\ badge <= unread["customer"]

\* A text with a clientMessageId is stored once however often it is sent again,
\* across restarts and lost answers, unless two of its sends were in flight together.
OneRowPerTag ==
  \A m \in Tagged \ overlap : \A i, j \in Rows :
    messages[i] = m /\ messages[j] = m => i = j

\* The presence map counts every open verified socket, and beyond these only the
\* sockets that left during their verification: a connected customer is online.
PresenceIsSockets ==
  presence = Cardinality({s \in Sockets : socket[s] = "open"}) + ghosts
===============================================================================
