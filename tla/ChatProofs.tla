------------------------------- MODULE ChatProofs -------------------------------
(***************************************************************************)
(* Proofs about Chat: its types, the counters, the rows of tagged texts    *)
(* and the presence map, for any number of texts, requests and sockets.    *)
(***************************************************************************)
EXTENDS Chat, FiniteSetTheorems, TLAPS

\* What a suspended request carries.
Carried ==
  \A r \in Requests :
    /\ req[r].at \in {"block", "lookup", "store", "publish", "notify"} => req[r].text \in Texts
    /\ req[r].at \in {"publish", "notify"} => req[r].row \in Rows
    /\ req[r].at = "read" => req[r].reader \in Readers

\* Each counter is the number of rows stored since its reset; the badge's reset is
\* never older than the counter's.
Counting ==
  /\ \A p \in Readers : unread[p] = Cardinality(NotOf(p, readAt[p]))
  /\ badge = Cardinality(NotOf("customer", badgeAt))
  /\ readAt["customer"] <= badgeAt

\* Whoever passed the look-up of a tagged text finds it unstored at the insert, and
\* shares the text with no other send, unless the text overlapped.
Passed ==
  \A r \in Requests :
    req[r].at = "store" /\ req[r].text \in Tagged \ overlap =>
      \A i \in Rows : messages[i] # req[r].text
Alone ==
  \A r, o \in Requests :
    r # o /\ Sending(r) /\ Sending(o) /\ req[r].text = req[o].text /\ req[r].text \in Tagged
      => req[r].text \in overlap

Opened == {s \in Sockets : socket[s] = "open"}

IInv == TypeOK /\ Carried /\ Counting /\ OneRowPerTag /\ Passed /\ Alone /\ PresenceIsSockets
-------------------------------------------------------------------------------
(* Counting the rows that the others stored *)

\* The rows of a finite sequence that somebody else wrote are finitely many.
LEMMA NotOfFinite ==
  ASSUME messages \in Seq(Texts), NEW p, NEW n \in Nat
  PROVE  IsFiniteSet(NotOf(p, n)) /\ Cardinality(NotOf(p, n)) \in Nat
<1>1. Len(messages) \in Nat
  OBVIOUS
<1>2. IsFiniteSet(1..Len(messages))
  BY <1>1, FS_Interval
<1>3. NotOf(p, n) \subseteq 1..Len(messages)
  BY DEF NotOf, Rows
<1> QED
  BY <1>2, <1>3, FS_Subset, FS_CardinalityType

\* Nothing was stored after the last row.
LEMMA NothingSince ==
  ASSUME messages \in Seq(Texts), NEW p
  PROVE  Cardinality(NotOf(p, Len(messages))) = 0
<1>1. NotOf(p, Len(messages)) = {}
  BY DEF NotOf, Rows
<1> QED
  BY <1>1, FS_EmptySet

\* A row of somebody else's adds one, an own row adds nothing.
LEMMA OneMore ==
  ASSUME messages \in Seq(Texts), NEW m \in Texts, messages' = Append(messages, m),
         NEW p \in Readers, NEW n \in 0..Len(messages), NEW after,
         after = {i \in 1..Len(messages') : i > n /\ Author[messages'[i]] # p}
  PROVE  Cardinality(after) = Cardinality(NotOf(p, n)) + Counted(p, m)
<1> DEFINE last == Len(messages) + 1
<1>1. /\ Len(messages) \in Nat /\ Len(messages') = last
      /\ messages'[last] = m
      /\ \A i \in 1..Len(messages) : messages'[i] = messages[i]
  OBVIOUS
<1>2. IsFiniteSet(NotOf(p, n)) /\ Cardinality(NotOf(p, n)) \in Nat
  BY NotOfFinite
<1>3. last \notin NotOf(p, n)
  BY <1>1 DEF NotOf, Rows
<1>4. CASE Author[m] # p
  <2>1. after = NotOf(p, n) \cup {last}
    BY <1>1, <1>4 DEF NotOf, Rows
  <2>2. Cardinality(after) = Cardinality(NotOf(p, n)) + 1
    BY <2>1, <1>2, <1>3, FS_AddElement
  <2> QED
    BY <2>2, <1>4 DEF Counted
<1>5. CASE Author[m] = p
  <2>1. after = NotOf(p, n)
    BY <1>1, <1>5 DEF NotOf, Rows
  <2>2. Cardinality(after) = Cardinality(NotOf(p, n))
    BY <2>1
  <2>3. Counted(p, m) = 0
    BY <1>5 DEF Counted
  <2>4. \A c \in Nat : c = c + 0
    OBVIOUS
  <2> QED
    BY <2>2, <2>3, <2>4, <1>2
<1> QED
  BY <1>4, <1>5
-------------------------------------------------------------------------------
(* The parts of the invariant that an action leaves alone *)

LEMMA CountingKept ==
  ASSUME Counting, UNCHANGED <<messages, unread, badge, readAt, badgeAt>>
  PROVE  Counting'
BY DEF Counting, NotOf, Rows

LEMMA PresenceKept ==
  ASSUME PresenceIsSockets, UNCHANGED sockets
  PROVE  PresenceIsSockets'
BY DEF PresenceIsSockets, sockets

LEMMA RowsKept ==
  ASSUME OneRowPerTag, UNCHANGED messages, overlap \subseteq overlap'
  PROVE  OneRowPerTag'
BY DEF OneRowPerTag, Rows

\* A request that does not start a send leaves Passed and Alone alone.
LEMMA TagsKept ==
  ASSUME TypeOK, Passed, Alone, UNCHANGED <<messages, overlap>>,
         \A o \in Requests : Sending(o)' => Sending(o) /\ req'[o].text = req[o].text,
         \A o \in Requests : req'[o].at = "store" =>
           req[o].at = "store" \/ ~(req[o].text \in Tagged /\ Stored(req[o].text))
  PROVE  Passed' /\ Alone'
<1>1. Passed'
  <2> SUFFICES ASSUME NEW o \in Requests, req'[o].at = "store",
                      req'[o].text \in Tagged \ overlap', NEW i \in Rows'
               PROVE  messages'[i] # req'[o].text
    BY DEF Passed
  <2>1. req'[o].text = req[o].text /\ i \in Rows /\ messages'[i] = messages[i]
    BY DEF Sending, Rows
  <2> QED
    BY <2>1 DEF Passed, Stored
<1>2. Alone'
  BY DEF Alone
<1> QED
  BY <1>1, <1>2
-------------------------------------------------------------------------------
LEMMA InitIInv == Init => IInv
<1> SUFFICES ASSUME Init PROVE IInv
  OBVIOUS
<1> USE DEF Init
<1>1. TypeOK
  <2>1. messages \in Seq(Texts) /\ Len(messages) = 0
    OBVIOUS
  <2>2. ghosts \in 0..MaxGhosts
    BY BoundsAssumption
  <2>3. req \in [Requests -> Request]
    BY DEF Request, Idle, At
  <2>4. /\ unread \in [Readers -> Nat] /\ badge \in Nat
        /\ readAt \in [Readers -> 0..Len(messages)] /\ badgeAt \in 0..Len(messages)
    BY <2>1
  <2>5. /\ status \in ConvStatus /\ blocked \in BOOLEAN
        /\ notified \subseteq Rows /\ overlap \subseteq Tagged
        /\ socket \in [Sockets -> {"away", "verifying", "left", "open"}]
    BY DEF ConvStatus
  <2>6. presence \in Nat
    OBVIOUS
  <2> QED
    BY <2>1, <2>2, <2>3, <2>4, <2>5, <2>6 DEF TypeOK
<1>2. Carried /\ OneRowPerTag /\ Passed /\ Alone
  BY DEF Carried, OneRowPerTag, Passed, Alone, Idle, At, Rows, Sending
<1>3. Counting
  <2>1. \A p : NotOf(p, 0) = {}
    BY DEF NotOf, Rows
  <2>2. \A p : Cardinality(NotOf(p, 0)) = 0
    BY <2>1, FS_EmptySet
  <2>3. "customer" \in Readers
    BY DEF Readers
  <2> QED
    BY <2>2, <2>3 DEF Counting
<1>4. PresenceIsSockets
  <2>1. {s \in Sockets : socket[s] = "open"} = {}
    OBVIOUS
  <2> QED
    BY <2>1, FS_EmptySet DEF PresenceIsSockets
<1> QED
  BY <1>1, <1>2, <1>3, <1>4 DEF IInv

LEMMA SendStep ==
  ASSUME IInv, NEW r \in Requests, NEW m \in Texts, Send(r, m)
  PROVE  IInv'
<1> USE DEF IInv, Send, Becomes
<1>1. TypeOK' /\ Carried'
  BY TaggedAssumption DEF TypeOK, Carried, chat, sockets, Idle, At, Request, Rows, Readers
<1>2. Counting' /\ PresenceIsSockets' /\ OneRowPerTag'
  BY CountingKept, PresenceKept, RowsKept DEF chat
<1>3. Passed'
  BY DEF Passed, TypeOK, Idle, At, chat, Rows
<1>4. Alone'
  BY DEF Alone, TypeOK, Idle, At, Sending
<1> QED
  BY <1>1, <1>2, <1>3, <1>4

\* A request that goes on keeps what it carries.
LEMMA GoesOn ==
  ASSUME TypeOK, NEW r \in Requests,
         NEW a \in {"block", "lookup", "store", "publish", "notify", "read"},
         req' = [req EXCEPT ![r].at = a]
  PROVE  /\ req' \in [Requests -> Request]
         /\ req'[r].at = a /\ req'[r].text = req[r].text /\ req'[r].row = req[r].row
         /\ \A o \in Requests \ {r} : req'[o] = req[o]
<1>1. req[r] \in Request
  BY DEF TypeOK
<1>2. [req[r] EXCEPT !.at = a] = [at |-> a, text |-> req[r].text, row |-> req[r].row,
                                  reader |-> req[r].reader]
  BY <1>1 DEF Request
<1>3. req'[r] = [req[r] EXCEPT !.at = a]
  BY DEF TypeOK
<1>4. req'[r] \in Request
  BY <1>1, <1>2, <1>3 DEF Request
<1> QED
  BY <1>2, <1>3, <1>4 DEF TypeOK

\* A request that starts to read, or ends, carries no text.
LEMMA Emptied ==
  ASSUME TypeOK, NEW r \in Requests, NEW e \in {"idle", "read"}, NEW p \in Readers \cup {None},
         req' = [req EXCEPT ![r] = At(e, None, 0, p)]
  PROVE  /\ req' \in [Requests -> Request]
         /\ req'[r].at = e /\ req'[r].reader = p
         /\ \A o \in Requests \ {r} : req'[o] = req[o]
BY DEF TypeOK, At, Request

\* The steps of a request that store nothing and start nothing.
LEMMA QuietStep ==
  ASSUME IInv, NEW r \in Requests,
         CheckBlock(r) \/ LookUp(r) \/ StoreFails(r) \/ Publish(r) \/ Notify(r)
         \/ \E p \in Readers : Open(r, p)
  PROVE  IInv'
<1> USE DEF IInv
<1>0. /\ UNCHANGED <<status, messages, unread, badge, blocked, sockets, past>>
      /\ notified' = notified \/ (req[r].at = "notify" /\ notified' = notified \cup {req[r].row})
  BY DEF CheckBlock, LookUp, StoreFails, Publish, Notify, Open, Ends, chat
<1>a. /\ req' \in [Requests -> Request]
      /\ \A o \in Requests \ {r} : req'[o] = req[o]
      /\ \/ req'[r].at = "idle"
         \/ req'[r].at = "read" /\ req'[r].reader \in Readers
         \/ /\ req'[r].text = req[r].text /\ req'[r].row = req[r].row
            /\ \/ req[r].at = "block" /\ req'[r].at = "lookup"
               \/ /\ req[r].at = "lookup" /\ req'[r].at = "store"
                  /\ ~Known(req[r].text)
               \/ req[r].at = "publish" /\ req'[r].at = "notify"
  <2>1. CASE req' = [req EXCEPT ![r] = Idle]
    BY <2>1, Emptied DEF Idle, At
  <2>2. ASSUME NEW p \in Readers, Open(r, p) PROVE <1>a!1 /\ <1>a!2 /\ <1>a!3
    BY <2>2, Emptied DEF Open, Becomes
  <2>3. CASE req[r].at = "block" /\ req' = [req EXCEPT ![r].at = "lookup"]
    BY <2>3, GoesOn
  <2>4. CASE req[r].at = "lookup" /\ req' = [req EXCEPT ![r].at = "store"]
             /\ ~Known(req[r].text)
    BY <2>4, GoesOn
  <2>5. CASE req[r].at = "publish" /\ req' = [req EXCEPT ![r].at = "notify"]
    BY <2>5, GoesOn
  <2> QED
    BY <2>1, <2>2, <2>3, <2>4, <2>5
       DEF CheckBlock, LookUp, StoreFails, Publish, Notify, Becomes, Goes, Ends
<1>1. TypeOK' /\ Carried'
  <2>1. req' \in [Requests -> Request]
    BY <1>a
  <2>2. notified' \subseteq Rows
    BY <1>0 DEF TypeOK, Carried
  <2>3. TypeOK'
    BY <1>0, <2>1, <2>2 DEF TypeOK, sockets, past, Rows
  <2>4. Carried'
    BY <1>0, <1>a DEF TypeOK, Carried, Idle, At, Rows
  <2> QED
    BY <2>3, <2>4
<1>2. Counting' /\ PresenceIsSockets' /\ OneRowPerTag'
  BY <1>0, CountingKept, PresenceKept, RowsKept DEF past
<1>3. \A o \in Requests : Sending(o)' => Sending(o) /\ req'[o].text = req[o].text
  BY <1>a DEF Sending, TypeOK, Idle, At
<1>4. \A o \in Requests : req'[o].at = "store" =>
        req[o].at = "store" \/ ~(req[o].text \in Tagged /\ Stored(req[o].text))
  BY <1>a DEF TypeOK, Idle, At, Known
<1>5. UNCHANGED <<messages, overlap>>
  BY <1>0 DEF past
<1> QED
  BY <1>1, <1>2, <1>3, <1>4, <1>5, TagsKept

LEMMA StoreStep ==
  ASSUME IInv, NEW r \in Requests, Store(r)
  PROVE  IInv'
<1> DEFINE m == req[r].text
<1> USE DEF IInv, Store, Becomes
<1>0. /\ m \in Texts /\ messages \in Seq(Texts) /\ Len(messages) \in Nat
      /\ Len(messages') = Len(messages) + 1
      /\ messages'[Len(messages) + 1] = m
      /\ \A i \in 1..Len(messages) : messages'[i] = messages[i]
  BY DEF TypeOK, Carried
<1>1. TypeOK' /\ Carried'
  <2>1. /\ messages' \in Seq(Texts)
        /\ unread' \in [Readers -> Nat]
        /\ badge' \in Nat
        /\ badgeAt' \in 0..Len(messages')
    BY <1>0 DEF TypeOK, Counted, BadgeAfter
  <2>2. Rows \subseteq Rows' /\ Len(messages) + 1 \in Rows'
    BY <1>0 DEF Rows
  <2>a. At("publish", m, Len(messages) + 1, None) \in Request
    BY <1>0 DEF Idle, At, Request
  <2>3. req' \in [Requests -> Request]
    BY <2>a DEF TypeOK
  <2>4. TypeOK'
    BY <1>0, <2>1, <2>2, <2>3 DEF TypeOK, sockets
  <2> QED
    BY <1>0, <2>2, <2>4 DEF Carried, TypeOK, Idle, At
<1>2. Counting'
  <2> DEFINE after(p, n) == {i \in 1..Len(messages') : i > n /\ Author[messages'[i]] # p}
  <2>1. \A p \in Readers : \A n \in 0..Len(messages) :
          Cardinality(after(p, n)) = Cardinality(NotOf(p, n)) + Counted(p, m)
    BY <1>0, OneMore
  <2>2. \A p \in Readers : unread'[p] = Cardinality(after(p, readAt'[p]))
    BY <2>1 DEF Counting, TypeOK
  <2>3. badge' = Cardinality(after("customer", badgeAt')) /\ readAt'["customer"] <= badgeAt'
    <3>1. CASE Author[m] = "customer"
      <4>1. after("customer", Len(messages) + 1) = {}
        BY <1>0
      <4> HIDE DEF after
      <4>2. badgeAt' = Len(messages) + 1 /\ badge' = 0
        BY <3>1 DEF BadgeAfter
      <4>3. readAt'["customer"] \in 0..Len(messages)
        BY DEF TypeOK, Readers
      <4>4. Cardinality(after("customer", Len(messages) + 1)) = 0
        BY <4>1, FS_EmptySet
      <4> QED
        BY <1>0, <4>2, <4>3, <4>4
    <3>2. CASE Author[m] # "customer"
      <4> HIDE DEF after
      <4>1. badgeAt' = badgeAt /\ badge' = badge + 1 /\ Counted("customer", m) = 1
        BY <3>2 DEF BadgeAfter, Counted
      <4> QED
        BY <2>1, <4>1 DEF Counting, TypeOK, Readers
    <3> QED
      BY <3>1, <3>2
  <2> QED
    BY <2>2, <2>3 DEF Counting, NotOf, Rows
<1>3. PresenceIsSockets'
  BY PresenceKept
<1>4. OneRowPerTag'
  <2>1. m \in Tagged \ overlap => \A i \in Rows : messages[i] # m
    BY DEF Passed
  <2> QED
    BY <1>0, <2>1 DEF OneRowPerTag, Rows
<1>5. Passed'
  <2> SUFFICES ASSUME NEW o \in Requests, req'[o].at = "store",
                      req'[o].text \in Tagged \ overlap', NEW i \in Rows'
               PROVE  messages'[i] # req'[o].text
    BY DEF Passed
  <2>1. o # r /\ req'[o] = req[o]
    BY DEF TypeOK, Idle, At
  <2>2. req[o].text # m
    BY <2>1 DEF Alone, Sending
  <2>3. \A j \in Rows : messages[j] # req[o].text
    BY <2>1 DEF Passed
  <2> QED
    BY <1>0, <2>1, <2>2, <2>3 DEF Rows
<1>6. Alone'
  BY DEF Alone, Sending, TypeOK, Idle, At
<1> QED
  BY <1>1, <1>2, <1>3, <1>4, <1>5, <1>6

LEMMA ReadStep ==
  ASSUME IInv, NEW r \in Requests, ResetRead(r)
  PROVE  IInv'
<1> DEFINE p == req[r].reader
<1> USE DEF IInv, ResetRead, Ends, Becomes
<1>0. p \in Readers /\ messages \in Seq(Texts) /\ Len(messages) \in Nat
  BY DEF TypeOK, Carried
<1>1. TypeOK' /\ Carried'
  BY <1>0 DEF TypeOK, Carried, sockets, Idle, At, Request, Rows
<1>2. Counting'
  <2>0. messages' = messages /\ \A q : \A n : NotOf(q, n)' = NotOf(q, n)
    BY DEF NotOf, Rows
  <2>1. \A q \in Readers : unread'[q] = Cardinality(NotOf(q, readAt'[q]))
    BY <1>0, NothingSince DEF Counting, TypeOK
  <2>2. badge' = Cardinality(NotOf("customer", badgeAt'))
    BY <1>0, NothingSince DEF Counting, TypeOK
  <2>3. readAt'["customer"] <= badgeAt'
    BY <1>0 DEF Counting, TypeOK, Readers
  <2> QED
    BY <2>0, <2>1, <2>2, <2>3 DEF Counting, NotOf, Rows
<1>3. PresenceIsSockets' /\ OneRowPerTag'
  BY PresenceKept, RowsKept
<1>4. Passed' /\ Alone'
  <2>1. \A o \in Requests : Sending(o)' => Sending(o) /\ req'[o].text = req[o].text
    BY DEF Sending, TypeOK, Idle, At
  <2>2. \A o \in Requests : req'[o].at = "store" => req[o].at = "store"
    BY DEF TypeOK, Idle, At
  <2> QED
    BY <2>1, <2>2, TagsKept
<1> QED
  BY <1>1, <1>2, <1>3, <1>4

LEMMA OutsideStep ==
  ASSUME IInv, (\E s \in ConvStatus : SetStatus(s)) \/ (\E b \in BOOLEAN : SetBlock(b))
  PROVE  IInv'
<1> USE DEF IInv, SetStatus, SetBlock
<1>1. TypeOK' /\ Carried'
  BY DEF TypeOK, Carried, sockets, past, Rows
<1>2. Counting' /\ PresenceIsSockets' /\ OneRowPerTag'
  BY CountingKept, PresenceKept, RowsKept DEF past
<1>3. Passed' /\ Alone'
  BY DEF Passed, Alone, past, Sending, Rows
<1> QED
  BY <1>1, <1>2, <1>3

LEMMA RestartStep ==
  ASSUME IInv, Restart
  PROVE  IInv'
<1> USE DEF IInv, Restart
<1>1. TypeOK' /\ Carried'
  BY BoundsAssumption DEF TypeOK, Carried, chat, past, Rows, Idle, At, Request
<1>2. Counting' /\ OneRowPerTag'
  BY CountingKept, RowsKept DEF chat, past
<1>3. Passed' /\ Alone'
  BY DEF Passed, Alone, Sending, Idle, At
<1>4. PresenceIsSockets'
  <2>1. {s \in Sockets : socket'[s] = "open"} = {}
    OBVIOUS
  <2> QED
    BY <2>1, FS_EmptySet DEF PresenceIsSockets
<1> QED
  BY <1>1, <1>2, <1>3, <1>4

LEMMA SocketStep ==
  ASSUME IInv, NEW s \in Sockets,
         Connect(s) \/ Verified(s) \/ Rejected(s) \/ Disconnect(s)
  PROVE  IInv'
<1> USE DEF IInv
<1>0. UNCHANGED <<chat, req, past>>
  BY DEF Connect, Verified, Rejected, Disconnect
<1>1. IsFiniteSet(Opened) /\ Cardinality(Opened) \in Nat
  BY SocketsAssumption, FS_Subset, FS_CardinalityType DEF Opened
<1>2. presence = Cardinality(Opened) + ghosts
  BY DEF PresenceIsSockets, Opened
<1>3. presence' \in Nat /\ ghosts' \in 0..MaxGhosts
      /\ presence' = Cardinality(Opened') + ghosts'
  <2>1. CASE Connect(s) \/ Rejected(s) \/ (Disconnect(s) /\ socket[s] # "open")
             \/ (Verified(s) /\ socket[s] = "left")
    <3>1. Opened' = Opened
      BY <2>1 DEF Connect, Rejected, Disconnect, Verified, Opened, TypeOK
    <3>2. Cardinality(Opened') = Cardinality(Opened)
      BY <3>1
    <3>3. \/ presence' = presence /\ ghosts' = ghosts
          \/ presence' = presence + 1 /\ ghosts' = ghosts + 1 /\ ghosts < MaxGhosts
      BY <2>1 DEF Connect, Rejected, Disconnect, Verified
    <3> QED
      BY <3>2, <3>3, <1>1, <1>2, BoundsAssumption DEF TypeOK
  <2>2. CASE Verified(s) /\ socket[s] # "left"
    <3>1. Opened' = Opened \cup {s} /\ s \notin Opened
      BY <2>2 DEF Verified, Opened, TypeOK
    <3>2. Cardinality(Opened') = Cardinality(Opened) + 1
      BY <3>1, <1>1, FS_AddElement
    <3>3. presence' = presence + 1 /\ ghosts' = ghosts
      BY <2>2 DEF Verified
    <3> QED
      BY <3>2, <3>3, <1>1, <1>2 DEF TypeOK
  <2>3. CASE Disconnect(s) /\ socket[s] = "open"
    <3>1. Opened' = Opened \ {s} /\ s \in Opened
      BY <2>3 DEF Disconnect, Opened, TypeOK
    <3>2. Cardinality(Opened') = Cardinality(Opened) - 1 /\ Cardinality(Opened') \in Nat
      BY <3>1, <1>1, FS_RemoveElement, FS_CardinalityType
    <3>3. presence' = AfterLeaving(presence) /\ ghosts' = ghosts
      BY <2>3 DEF Disconnect
    <3> QED
      BY <3>2, <3>3, <1>1, <1>2, BoundsAssumption DEF TypeOK, AfterLeaving
  <2> QED
    BY <2>1, <2>2, <2>3 DEF TypeOK
<1>4. TypeOK' /\ Carried'
  BY <1>0, <1>3 DEF TypeOK, Carried, chat, past, Rows, Connect, Verified, Rejected, Disconnect
<1>5. Counting' /\ OneRowPerTag'
  BY <1>0, CountingKept, RowsKept DEF chat, past
<1>6. Passed' /\ Alone'
  BY <1>0 DEF Passed, Alone, chat, past, Sending, Rows
<1>7. PresenceIsSockets'
  BY <1>3 DEF PresenceIsSockets, Opened
<1> QED
  BY <1>4, <1>5, <1>6, <1>7

LEMMA NextIInv == IInv /\ [Next]_vars => IInv'
<1> SUFFICES ASSUME IInv, [Next]_vars PROVE IInv'
  OBVIOUS
<1>1. CASE Next
  BY <1>1, SendStep, QuietStep, StoreStep, ReadStep, OutsideStep, RestartStep, SocketStep
     DEF Next
<1>2. CASE UNCHANGED vars
  <2> USE <1>2 DEF vars, IInv
  <2>1. TypeOK' /\ Carried' /\ OneRowPerTag' /\ Passed' /\ Alone'
    BY DEF TypeOK, Carried, OneRowPerTag, Passed, Alone, chat, sockets, past, Rows,
           Stored, Sending
  <2>2. Counting' /\ PresenceIsSockets'
    BY CountingKept, PresenceKept DEF chat, past
  <2> QED
    BY <2>1, <2>2
<1> QED
  BY <1>1, <1>2
-------------------------------------------------------------------------------
\* The inductive invariant of the conversation holds in every reachable state.
THEOREM Invariance == Spec => []IInv
<1> QED
  BY InitIInv, NextIInv, PTL DEF Spec

\* Every variable of Chat keeps its type.
THEOREM TypeCorrect == Spec => []TypeOK
<1>1. IInv => TypeOK
  BY DEF IInv
<1> QED
  BY <1>1, Invariance, PTL

\* The counters are exact, and the badge never exceeds the customer's counter.
THEOREM CountersExact == Spec => []UnreadIsWhatArrived
<1>1. ASSUME IInv PROVE UnreadIsWhatArrived
  <2> USE <1>1 DEF IInv
  <2> DEFINE new == NotOf("customer", badgeAt)
             all == NotOf("customer", readAt["customer"])
  <2>1. /\ IsFiniteSet(all) /\ Cardinality(all) \in Nat /\ Cardinality(new) \in Nat
    BY NotOfFinite DEF TypeOK, Readers
  <2>2. new \subseteq all
    BY DEF Counting, NotOf, TypeOK, Rows, Readers
  <2>3. Cardinality(new) <= Cardinality(all)
    BY <2>1, <2>2, FS_Subset
  <2> QED
    BY <2>3 DEF Counting, UnreadIsWhatArrived, Readers
<1> QED
  BY <1>1, Invariance, PTL

\* A tagged text is stored once unless two of its sends overlapped.
THEOREM StoredOnce == Spec => []OneRowPerTag
<1>1. IInv => OneRowPerTag
  BY DEF IInv
<1> QED
  BY <1>1, Invariance, PTL

\* The presence map counts the open sockets and those that left while verified.
THEOREM PresenceExact == Spec => []PresenceIsSockets
<1>1. IInv => PresenceIsSockets
  BY DEF IInv
<1> QED
  BY <1>1, Invariance, PTL
===============================================================================
