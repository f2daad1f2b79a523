----------------------------- MODULE DiscoveryProofs ----------------------------
(***************************************************************************)
(* Proofs about Discovery: its types, the blocks that every answer honours *)
(* and the reviews of a shared profile, for any number of requests.        *)
(***************************************************************************)
EXTENDS Discovery, FiniteSetTheorems, TLAPS

\* What a request has established about its customer's blocks.
Ready(q) ==
  /\ q.call \in Calls /\ q.customer \in Customers
  /\ q.must \subseteq BlockedBy(q.customer)
  /\ q.call = "profile" => Shown \notin q.must
  /\ q.call \in {"favourites", "blocked"} => q.must = {}

\* The object it holds is one of the objects fetched so far.
Fits(q, nl, ni) ==
  /\ q.at = "blocks" => KeyOf(q.call) = "list" /\ q.object \in 1..nl
  /\ q.at = "reviews" => q.call = "profile" /\ q.object \in 1..ni
  /\ q.at = "names" => q.call \in {"favourites", "blocked"}

Holds(q) ==
  /\ q.at \in {"fetch", "blocks", "reviews", "names"} => Ready(q)
  /\ q.at = "home" => q.call = "home" /\ Ready(q)
  /\ q.at = "check" => /\ q.call = "profile" /\ q.customer \in Customers
                       /\ q.must \subseteq BlockedBy(q.customer)
Carried == \A r \in Requests : Holds(req[r]) /\ Fits(req[r], Len(lists), Len(items))

Entries ==
  /\ Len(lists) + Len(items) <= MaxFetches
  /\ cache["list"] <= Len(lists) /\ cache["profile"] <= Len(items)

Sound(shown) == \A i, j \in 1..Len(shown) : shown[i] = shown[j] => i = j

IInv == TypeOK /\ Carried /\ Entries /\ OwnBlocksHonoured /\ ReviewShownOnce
-------------------------------------------------------------------------------
LEMMA IdleHolds == Idle \in Request /\ Idle.at = "idle" /\ Holds(Idle)
                   /\ \A nl, ni \in Nat : Fits(Idle, nl, ni)
BY MaxFetchesAssumption DEF Idle, Request, Holds, Fits

LEMMA InitIInv == Init => IInv
<1> SUFFICES ASSUME Init PROVE IInv
  OBVIOUS
<1> USE DEF Init
<1>1. lists \in Seq(SUBSET Companions) /\ items \in Seq(Seq(Reviews))
      /\ Len(lists) = 0 /\ Len(items) = 0
  OBVIOUS
<1>2. TypeOK
  BY <1>1, IdleHolds, MaxFetchesAssumption DEF TypeOK, Answer, Silence
<1>3. Carried
  BY <1>1, IdleHolds DEF Carried
<1>4. Entries /\ ReviewShownOnce
  BY <1>1, MaxFetchesAssumption DEF Entries, ReviewShownOnce, Keys
<1>5. OwnBlocksHonoured
  BY DEF OwnBlocksHonoured, Silence
<1> QED
  BY <1>2, <1>3, <1>4, <1>5 DEF IInv

\* A request that is served an object waits for what its call reads next.
LEMMA Serve ==
  ASSUME NEW q \in Request, Ready(q), NEW nl \in Nat, NEW ni \in Nat, NEW o \in 1..MaxFetches,
         o <= (IF KeyOf(q.call) = "list" THEN nl ELSE ni)
  PROVE  /\ Served(q, o) \in Request /\ Holds(Served(q, o)) /\ Fits(Served(q, o), nl, ni)
<1> DEFINE s == Served(q, o)
<1>1. After(q.call) \in {"blocks", "reviews", "names"}
  BY DEF After, Ready, Calls, KeyOf
<1>2. /\ s.at = After(q.call) /\ s.object = o /\ s.call = q.call /\ s.customer = q.customer
      /\ s.must = q.must /\ s \in Request
  BY <1>1, MaxFetchesAssumption DEF Served, Request, Ready
<1>3. Ready(s)
  BY <1>2 DEF Ready
<1>4. Holds(s)
  BY <1>1, <1>2, <1>3 DEF Holds
<1>5. Fits(s, nl, ni)
  <2>1. CASE KeyOf(q.call) = "list"
    <3>1. After(q.call) = "blocks"
      BY <2>1 DEF After, KeyOf
    <3> QED
      BY <1>2, <2>1, <3>1 DEF Fits
  <2>2. CASE q.call = "profile"
    <3>1. After(q.call) = "reviews" /\ KeyOf(q.call) = "profile"
      BY <2>2 DEF After, KeyOf
    <3> QED
      BY <1>2, <2>2, <3>1 DEF Fits
  <2>3. CASE q.call \in {"favourites", "blocked"}
    <3>1. After(q.call) = "names"
      BY <2>3 DEF After, KeyOf
    <3> QED
      BY <1>2, <2>3, <3>1 DEF Fits
  <2> QED
    BY <2>1, <2>2, <2>3 DEF Ready, Calls, KeyOf
<1> QED
  BY <1>2, <1>4, <1>5

\* A request that is ready looks into its cache.
LEMMA Looks ==
  ASSUME IInv, NEW r \in Requests, NEW q \in Request, Ready(q), Look(r, q),
         UNCHANGED <<cache, lists, items, block>>
  PROVE  req' \in [Requests -> Request] /\ Carried'
<1> DEFINE entry == cache[KeyOf(q.call)]
           nl == Len(lists)
           ni == Len(items)
           waits == [q EXCEPT !.at = "fetch"]
<1>1. nl \in Nat /\ ni \in Nat /\ KeyOf(q.call) \in Keys
  BY DEF IInv, TypeOK, KeyOf, Keys
<1>2. PICK s \in Request : req' = [req EXCEPT ![r] = s] /\ Holds(s) /\ Fits(s, nl, ni)
  <2>1. CASE entry # 0
    <3>1. entry \in 1..MaxFetches /\ entry <= (IF KeyOf(q.call) = "list" THEN nl ELSE ni)
      BY <1>1, <2>1, MaxFetchesAssumption DEF IInv, TypeOK, Entries, KeyOf, Keys
    <3>2. req' = [req EXCEPT ![r] = Served(q, entry)]
      BY <2>1 DEF Look, Becomes
    <3> QED
      BY <1>1, <3>1, <3>2, Serve
  <2>2. CASE entry = 0
    <3>1. req' = [req EXCEPT ![r] = waits]
      BY <2>2 DEF Look, Becomes
    <3>2. waits \in Request /\ waits.at = "fetch" /\ Holds(waits) /\ Fits(waits, nl, ni)
      BY DEF Request, Holds, Ready, Fits
    <3> QED
      BY <3>1, <3>2
  <2> QED
    BY <2>1, <2>2
<1>3. \A p : Holds(p)' <=> Holds(p)
  BY DEF Holds, Ready, BlockedBy
<1> QED
  BY <1>2, <1>3 DEF IInv, TypeOK, Carried
-------------------------------------------------------------------------------
(* Steps that start, look and go *)

\* What a step leaves alone that only moves requests and says nothing.
Rest == UNCHANGED <<cache, lists, items, block, favourite, stored>> /\ Quiet

LEMMA QuietSound == Quiet => OwnBlocksHonoured' /\ answer' \in Answer
BY DEF Quiet, OwnBlocksHonoured, Silence, Answer

LEMMA Resting ==
  ASSUME IInv, Rest, req' \in [Requests -> Request], Carried'
  PROVE  IInv'
<1>1. TypeOK'
  BY QuietSound DEF IInv, TypeOK, Rest
<1>2. Entries' /\ ReviewShownOnce'
  BY DEF IInv, Entries, ReviewShownOnce, Rest
<1> QED
  BY <1>1, <1>2, QuietSound DEF IInv, Rest

\* A request becomes one that holds nothing yet.
LEMMA Begins ==
  ASSUME IInv, Rest, NEW r \in Requests, NEW q \in Request, Becomes(r, q), Holds(q),
         q.at \in {"idle", "home", "check"}
  PROVE  IInv'
<1>1. Fits(q, Len(lists), Len(items))
  BY DEF Fits
<1>2. \A p : Holds(p)' <=> Holds(p)
  BY DEF Holds, Ready, BlockedBy, Rest
<1>3. req' \in [Requests -> Request] /\ Carried'
  BY <1>1, <1>2 DEF Becomes, IInv, TypeOK, Carried, Rest
<1> QED
  BY <1>3, Resting

LEMMA ForIs ==
  ASSUME NEW c \in Customers, NEW call \in Calls
  PROVE  /\ For(c, call) \in Request
         /\ For(c, call).call = call /\ For(c, call).customer = c
         /\ For(c, call).must = BlockedBy(c) /\ For(c, call).at = "idle"
BY MaxFetchesAssumption DEF For, Idle, Request, BlockedBy

LEMMA ListStep ==
  ASSUME IInv, NEW r \in Requests, NEW c \in Customers, NEW call \in {"list", "featured"},
         List(r, c, call)
  PROVE  IInv'
<1>1. call \in Calls
  BY DEF Calls
<1>2. Ready(For(c, call)) /\ For(c, call) \in Request
  BY <1>1, ForIs DEF Ready
<1>3. req' \in [Requests -> Request] /\ Carried'
  BY <1>2, Looks DEF List
<1> QED
  BY <1>3, Resting DEF List, Rest

LEMMA HomeStep ==
  ASSUME IInv, NEW r \in Requests, NEW c \in Customers, Home(r, c)
  PROVE  IInv'
<1> DEFINE f == For(c, "home")
           q == [f EXCEPT !.at = "home"]
<1>1. f \in Request /\ f.call = "home" /\ f.customer = c /\ f.must = BlockedBy(c)
  BY ForIs DEF Calls
<1>2. /\ q \in Request /\ q.at = "home" /\ q.call = "home" /\ q.customer = c
      /\ q.must = BlockedBy(c)
  BY <1>1 DEF Request
<1>3. Holds(q)
  BY <1>2 DEF Holds, Ready, Calls
<1> QED
  BY <1>2, <1>3, Begins DEF Home, Rest

LEMMA HomeReadStep ==
  ASSUME IInv, NEW r \in Requests, HomeRead(r)
  PROVE  IInv'
<1>1. Ready(req[r]) /\ req[r] \in Request
  BY DEF HomeRead, IInv, TypeOK, Carried, Holds
<1>2. req' \in [Requests -> Request] /\ Carried'
  BY <1>1, Looks DEF HomeRead
<1> QED
  BY <1>2, Resting DEF HomeRead, Rest

LEMMA DetailStep ==
  ASSUME IInv, NEW r \in Requests, NEW c \in Customers, Detail(r, c)
  PROVE  IInv'
<1> DEFINE f == For(c, "profile")
           q == [f EXCEPT !.at = "check"]
<1>1. f \in Request /\ f.call = "profile" /\ f.customer = c /\ f.must = BlockedBy(c)
  BY ForIs DEF Calls
<1>2. /\ q \in Request /\ q.at = "check" /\ q.call = "profile" /\ q.customer = c
      /\ q.must = BlockedBy(c)
  BY <1>1 DEF Request
<1>3. Holds(q)
  BY <1>2 DEF Holds
<1> QED
  BY <1>2, <1>3, Begins DEF Detail, Rest

\* Whoever passes the check has not blocked the companion since before the request.
LEMMA CheckStep ==
  ASSUME IInv, NEW r \in Requests, Check(r)
  PROVE  IInv'
<1>1. Rest /\ req[r] \in Request /\ req[r].at = "check"
  BY DEF Check, Rest, IInv, TypeOK
<1>2. CASE Refused(req[r].customer)
  <2>1. Becomes(r, Idle)
    BY <1>2 DEF Check
  <2> QED
    BY <1>1, <2>1, Begins, IdleHolds
<1>3. CASE ~Refused(req[r].customer)
  <2>1. Ready(req[r])
    BY <1>1, <1>3 DEF IInv, Carried, Holds, Ready, Refused, Calls
  <2>2. Look(r, req[r])
    BY <1>3 DEF Check
  <2>3. req' \in [Requests -> Request] /\ Carried'
    BY <1>1, <2>1, <2>2, Looks DEF Rest
  <2> QED
    BY <1>1, <2>3, Resting
<1> QED
  BY <1>2, <1>3

LEMMA NamesStep ==
  ASSUME IInv, NEW r \in Requests, NEW c \in Customers,
         NEW call \in {"favourites", "blocked"}, Names(r, c, call)
  PROVE  IInv'
<1> DEFINE f == For(c, call)
           q == [f EXCEPT !.must = {}]
<1>1. f \in Request /\ f.call = call /\ f.customer = c /\ call \in Calls
  BY ForIs DEF Calls
<1>2. q \in Request /\ q.call = call /\ q.customer = c /\ q.must = {}
  BY <1>1 DEF Request
<1>3. Ready(q)
  BY <1>1, <1>2 DEF Ready
<1>4. req' \in [Requests -> Request] /\ Carried'
  BY <1>2, <1>3, Looks DEF Names
<1> QED
  BY <1>4, Resting DEF Names, Rest

LEMMA FetchFailsStep ==
  ASSUME IInv, NEW r \in Requests, FetchFails(r)
  PROVE  IInv'
BY Begins, IdleHolds DEF FetchFails, Rest
-------------------------------------------------------------------------------
(* Objects *)

\* One more object leaves the requests that hold older ones alone.
LEMMA Fetches ==
  ASSUME IInv, NEW r \in Requests, NEW s \in Request, Becomes(r, s), Holds(s),
         UNCHANGED block, Len(lists') \in Nat, Len(items') \in Nat,
         Len(lists') >= Len(lists), Len(items') >= Len(items),
         Fits(s, Len(lists'), Len(items'))
  PROVE  req' \in [Requests -> Request] /\ Carried'
<1>1. \A p : Holds(p)' <=> Holds(p)
  BY DEF Holds, Ready, BlockedBy
<1>2. Len(lists) \in Nat /\ Len(items) \in Nat
  BY DEF IInv, TypeOK
<1>3. \A p : Fits(p, Len(lists), Len(items)) => Fits(p, Len(lists'), Len(items'))
  BY <1>2 DEF Fits
<1>4. \A p \in Requests : req'[p] = IF p = r THEN s ELSE req[p]
  BY DEF IInv, TypeOK, Becomes
<1> QED
  BY <1>1, <1>3, <1>4 DEF IInv, TypeOK, Carried, Becomes

LEMMA FetchedStep ==
  ASSUME IInv, NEW r \in Requests, Fetched(r)
  PROVE  IInv'
<1> USE DEF IInv
<1> DEFINE q == req[r]
           nl == Len(lists)
           ni == Len(items)
<1>1. /\ q \in Request /\ Ready(q) /\ nl \in Nat /\ ni \in Nat /\ nl + ni < MaxFetches
      /\ lists \in Seq(SUBSET Companions) /\ items \in Seq(Seq(Reviews))
      /\ stored \subseteq Reviews /\ cache \in [Keys -> 0..MaxFetches]
  BY DEF Fetched, TypeOK, Carried, Holds
<1>2. OwnBlocksHonoured' /\ answer' \in Answer /\ UNCHANGED <<block, favourite, stored>>
  BY QuietSound DEF Fetched
<1>3. CASE KeyOf(q.call) = "list"
  <2>1. PICK offer \in SUBSET Companions : lists' = Append(lists, offer)
    BY <1>3 DEF Fetched
  <2>2. /\ lists' \in Seq(SUBSET Companions) /\ Len(lists') = nl + 1 /\ items' = items
        /\ cache' = [cache EXCEPT !["list"] = nl + 1]
        /\ Becomes(r, Served(q, nl + 1))
    BY <1>1, <1>3, <2>1 DEF Fetched
  <2>3. nl + 1 \in 1..MaxFetches
    BY <1>1, MaxFetchesAssumption
  <2>4. /\ Served(q, nl + 1) \in Request /\ Holds(Served(q, nl + 1))
        /\ Fits(Served(q, nl + 1), nl + 1, ni)
    BY <1>1, <1>3, <2>3, Serve
  <2>5. req' \in [Requests -> Request] /\ Carried'
    BY <1>1, <1>2, <2>2, <2>4, Fetches
  <2>6. Entries' /\ cache' \in [Keys -> 0..MaxFetches]
    BY <1>1, <2>2, <2>3, MaxFetchesAssumption DEF Entries, Keys
  <2>7. ReviewShownOnce'
    BY <2>2 DEF ReviewShownOnce
  <2> QED
    BY <1>2, <2>2, <2>5, <2>6, <2>7 DEF TypeOK
<1>4. CASE KeyOf(q.call) = "profile"
  <2>1. PICK known \in {<<>>} \cup {<<v>> : v \in stored} : items' = Append(items, known)
    BY <1>4 DEF Fetched
  <2>2. known \in Seq(Reviews) /\ Sound(known)
    <3>1. CASE known = <<>>
      BY <3>1 DEF Sound
    <3>2. CASE \E v \in stored : known = <<v>>
      <4>1. PICK v \in stored : known = <<v>>
        BY <3>2
      <4>2. v \in Reviews /\ Len(known) = 1
        BY <1>1, <4>1
      <4> QED
        BY <4>1, <4>2 DEF Sound
    <3> QED
      BY <2>1, <3>1, <3>2
  <2>3. /\ items' \in Seq(Seq(Reviews)) /\ Len(items') = ni + 1 /\ lists' = lists
        /\ cache' = [cache EXCEPT !["profile"] = ni + 1]
        /\ Becomes(r, Served(q, ni + 1))
    BY <1>1, <1>4, <2>1, <2>2 DEF Fetched
  <2>4. ni + 1 \in 1..MaxFetches
    BY <1>1, MaxFetchesAssumption
  <2>5. /\ Served(q, ni + 1) \in Request /\ Holds(Served(q, ni + 1))
        /\ Fits(Served(q, ni + 1), nl, ni + 1)
    <3>1. ni + 1 \in Nat /\ ni + 1 <= (IF KeyOf(q.call) = "list" THEN nl ELSE ni + 1)
      BY <1>1, <1>4
    <3> QED
      BY <1>1, <2>4, <3>1, Serve
  <2>6. req' \in [Requests -> Request] /\ Carried'
    BY <1>1, <1>2, <2>3, <2>5, Fetches
  <2>7. Entries' /\ cache' \in [Keys -> 0..MaxFetches]
    BY <1>1, <2>3, <2>4, MaxFetchesAssumption DEF Entries, Keys
  <2>8. ReviewShownOnce'
    <3>1. \A o \in 1..Len(items') : items'[o] = IF o = ni + 1 THEN known ELSE items[o]
      BY <1>1, <2>1, <2>2
    <3>2. \A o \in 1..Len(items') : o # ni + 1 => o \in 1..ni
      BY <1>1, <2>3
    <3> QED
      BY <2>2, <3>1, <3>2 DEF ReviewShownOnce, Sound
  <2> QED
    BY <1>2, <2>3, <2>6, <2>7, <2>8 DEF TypeOK
<1> QED
  BY <1>3, <1>4 DEF KeyOf

\* A request that ends frees nobody's object.
LEMMA Leaves ==
  ASSUME IInv, NEW r \in Requests, Becomes(r, Idle), UNCHANGED block,
         Len(lists') = Len(lists), Len(items') = Len(items)
  PROVE  req' \in [Requests -> Request] /\ Carried'
<1>1. Len(lists) \in Nat /\ Len(items) \in Nat
  BY DEF IInv, TypeOK
<1>2. Fits(Idle, Len(lists'), Len(items'))
  BY <1>1, IdleHolds
<1> QED
  BY <1>1, <1>2, IdleHolds, Fetches

LEMMA FilterStep ==
  ASSUME IInv, NEW r \in Requests, Filter(r)
  PROVE  IInv'
<1> USE DEF IInv
<1> DEFINE o == req[r].object
           kept == Kept(lists[o], BlockedBy(req[r].customer))
<1>1. /\ req[r] \in Request /\ Ready(req[r]) /\ o \in 1..Len(lists)
      /\ lists \in Seq(SUBSET Companions)
  BY DEF Filter, TypeOK, Carried, Holds, Fits
<1>2. kept \subseteq Companions /\ kept \cap req[r].must = {} /\ req[r].must \subseteq Companions
  <2>1. lists[o] \subseteq Companions /\ req[r].must \subseteq Companions
    BY <1>1 DEF Request
  <2> QED
    BY <1>1, <2>1 DEF Kept, Ready, BlockedBy
<1>3. /\ Becomes(r, Idle) /\ answer' = [companions |-> kept, must |-> req[r].must]
      /\ lists' \in {lists, [lists EXCEPT ![o] = kept]}
      /\ UNCHANGED <<cache, items, block, favourite, stored>>
  BY DEF Filter, Says
<1>4. lists' \in Seq(SUBSET Companions) /\ Len(lists') = Len(lists)
  BY <1>1, <1>2, <1>3
<1>5. req' \in [Requests -> Request] /\ Carried'
  BY <1>3, <1>4, Leaves
<1>6. OwnBlocksHonoured' /\ answer' \in Answer
  BY <1>2, <1>3 DEF OwnBlocksHonoured, Answer
<1>7. Entries' /\ ReviewShownOnce'
  BY <1>3, <1>4 DEF Entries, ReviewShownOnce
<1> QED
  BY <1>3, <1>4, <1>5, <1>6, <1>7 DEF TypeOK

\* What is added is missing, and added once.
LEMMA JoinSound ==
  ASSUME NEW shown \in Seq(Reviews), NEW new \in Orders(Missing(shown)), Sound(shown),
         stored \subseteq Reviews
  PROVE  shown \o new \in Seq(Reviews) /\ Sound(shown \o new)
<1> DEFINE set == Missing(shown)
           n == Len(shown)
           m == Cardinality(set)
<1>1. /\ new \in [1..m -> set] /\ \A i, j \in 1..m : new[i] = new[j] => i = j
      /\ set \subseteq Reviews
  BY DEF Orders, Missing
<1>2. m \in Nat
  BY <1>1, ReviewsAssumption, FS_Subset, FS_CardinalityType
<1>3. Sound(shown \o new) /\ shown \o new \in Seq(Reviews)
  <2>1. new \in Seq(Reviews) /\ Len(new) = m
    BY <1>1, <1>2
  <2>2. /\ shown \o new \in Seq(Reviews) /\ Len(shown \o new) = n + m
        /\ \A i \in 1..(n + m) : (shown \o new)[i] = IF i <= n THEN shown[i] ELSE new[i - n]
    BY <1>2, <2>1
  <2>3. \A i \in 1..n : \A j \in 1..m : shown[i] # new[j]
    BY <1>1 DEF Missing, In
  <2>9. shown \o new \in Seq(Reviews)
    BY <2>2
  <2> SUFFICES ASSUME NEW i \in 1..(n + m), NEW j \in 1..(n + m),
                      (shown \o new)[i] = (shown \o new)[j]
               PROVE  i = j
    BY <2>2, <2>9 DEF Sound
  <2>4. n \in Nat
    OBVIOUS
  <2>5. /\ i \in 1..n \/ (i > n /\ i - n \in 1..m)
        /\ j \in 1..n \/ (j > n /\ j - n \in 1..m)
    BY <1>2, <2>4
  <2>6. CASE i <= n /\ j <= n
    BY <2>2, <2>6 DEF Sound
  <2>7. CASE i > n /\ j > n
    <3>1. new[i - n] = new[j - n]
      BY <1>2, <2>2, <2>4, <2>7
    <3>2. i - n = j - n
      BY <1>1, <2>5, <2>7, <3>1
    <3> QED
      BY <1>2, <2>4, <3>2
  <2>8. CASE (i <= n /\ j > n) \/ (i > n /\ j <= n)
    BY <1>2, <2>2, <2>3, <2>4, <2>5, <2>8
  <2> QED
    BY <1>2, <2>4, <2>6, <2>7, <2>8
<1> QED
  BY <1>3

LEMMA CompleteStep ==
  ASSUME IInv, NEW r \in Requests, Complete(r)
  PROVE  IInv'
<1> USE DEF IInv
<1> DEFINE o == req[r].object
<1>1. /\ req[r] \in Request /\ Ready(req[r]) /\ req[r].call = "profile"
      /\ o \in 1..Len(items) /\ items \in Seq(Seq(Reviews)) /\ stored \subseteq Reviews
  BY DEF Complete, TypeOK, Carried, Holds, Fits
<1>2. PICK new \in Orders(Missing(items[o])) : items' = [items EXCEPT ![o] = @ \o new]
  BY DEF Complete
<1>3. items[o] \in Seq(Reviews) /\ Sound(items[o])
  BY <1>1 DEF ReviewShownOnce, Sound
<1>4. items[o] \o new \in Seq(Reviews) /\ Sound(items[o] \o new)
  BY <1>1, <1>2, <1>3, JoinSound
<1>5. /\ Becomes(r, Idle) /\ answer' = [companions |-> {Shown}, must |-> req[r].must]
      /\ UNCHANGED <<cache, lists, block, favourite, stored>>
  BY DEF Complete, Says
<1>6. items' = [items EXCEPT ![o] = items[o] \o new]
  BY <1>2
<1>7. /\ items' \in Seq(Seq(Reviews)) /\ Len(items') = Len(items)
      /\ \A i \in 1..Len(items) : items'[i] = IF i = o THEN items[o] \o new ELSE items[i]
  BY <1>1, <1>4, <1>6
<1>8. req' \in [Requests -> Request] /\ Carried'
  BY <1>5, <1>7, Leaves
<1>9. OwnBlocksHonoured' /\ answer' \in Answer
  <2>1. Shown \notin req[r].must /\ req[r].must \subseteq Companions
    BY <1>1 DEF Ready, Request
  <2> QED
    BY <1>5, <2>1, ShownAssumption DEF OwnBlocksHonoured, Answer
<1>10. Entries' /\ ReviewShownOnce'
  BY <1>4, <1>5, <1>7 DEF Entries, ReviewShownOnce, Sound
<1> QED
  BY <1>5, <1>7, <1>8, <1>9, <1>10 DEF TypeOK

LEMMA NamedStep ==
  ASSUME IInv, NEW r \in Requests, Named(r)
  PROVE  IInv'
<1> USE DEF IInv
<1>1. /\ req[r] \in Request /\ Ready(req[r]) /\ req[r].call \in {"favourites", "blocked"}
      /\ UNCHANGED <<cache, lists, items, block, favourite, stored>> /\ Becomes(r, Idle)
  BY DEF Named, Says, TypeOK, Carried, Holds, Fits
<1>2. PICK shown \in SUBSET Companions : answer' = [companions |-> shown, must |-> {}]
  <2>1. {Shown} \subseteq Companions /\ req[r].must = {}
    BY <1>1, ShownAssumption DEF Ready
  <2> QED
    BY <2>1 DEF Named, Says
<1>3. req' \in [Requests -> Request] /\ Carried'
  BY <1>1, Leaves
<1>4. OwnBlocksHonoured' /\ answer' \in Answer
  BY <1>2 DEF OwnBlocksHonoured, Answer
<1> QED
  BY <1>1, <1>3, <1>4 DEF TypeOK, Entries, ReviewShownOnce
-------------------------------------------------------------------------------
(* Steps outside any request *)

LEMMA CacheStep ==
  ASSUME IInv, (\E k \in Keys : Expire(k)) \/ Clear
  PROVE  IInv'
<1> USE DEF IInv
<1>1. /\ UNCHANGED <<lists, items, block, favourite, stored, req>> /\ Quiet
      /\ \A k \in Keys : cache'[k] \in {0, cache[k]}
      /\ cache' = [k \in Keys |-> cache'[k]]
  BY DEF Expire, Clear, TypeOK
<1>2. cache' \in [Keys -> 0..MaxFetches]
  <2>1. \A k \in Keys : cache[k] \in 0..MaxFetches
    BY DEF TypeOK
  <2>2. \A k \in Keys : cache'[k] \in 0..MaxFetches
    <3> TAKE k \in Keys
    <3>1. cache'[k] = 0 \/ cache'[k] = cache[k]
      BY <1>1
    <3> QED
      BY <2>1, <3>1, MaxFetchesAssumption
  <2> QED
    BY <1>1, <2>2
<1>3. Entries'
  BY <1>1 DEF Entries, Keys, TypeOK
<1>4. Carried' /\ ReviewShownOnce'
  BY <1>1 DEF Carried, Holds, Ready, BlockedBy, ReviewShownOnce
<1> QED
  BY <1>1, <1>2, <1>3, <1>4, QuietSound DEF TypeOK

LEMMA AsideStep ==
  ASSUME IInv, (\E c \in Customers : Keep(c)) \/ (\E v \in Reviews : Review(v))
  PROVE  IInv'
<1> USE DEF IInv
<1>1. UNCHANGED <<cache, lists, items, block, req>> /\ Quiet
  BY DEF Keep, Review
<1>2. favourite' \subseteq Customers /\ stored' \subseteq Reviews
  BY DEF Keep, Review, TypeOK
<1>3. Carried' /\ ReviewShownOnce' /\ Entries'
  BY <1>1 DEF Carried, Holds, Ready, BlockedBy, ReviewShownOnce, Entries
<1> QED
  BY <1>1, <1>2, <1>3, QuietSound DEF TypeOK

\* A new block takes nothing from what a request must honour.
LEMMA BlockStep ==
  ASSUME IInv, NEW c \in Customers, NEW k \in Companions, SetBlock(c, k)
  PROVE  IInv'
<1> USE DEF IInv
<1>1. /\ UNCHANGED <<cache, lists, items, favourite, stored, req>> /\ Quiet
      /\ block' = block \cup {<<c, k>>}
  BY DEF SetBlock
<1>2. \A q : Holds(q) => Holds(q)'
  BY <1>1 DEF Holds, Ready, BlockedBy
<1>3. Carried' /\ ReviewShownOnce' /\ Entries'
  BY <1>1, <1>2 DEF Carried, ReviewShownOnce, Entries
<1> QED
  BY <1>1, <1>3, QuietSound DEF TypeOK

LEMMA UnblockStep ==
  ASSUME IInv, NEW c \in Customers, NEW k \in Companions, Unblock(c, k)
  PROVE  IInv'
<1> USE DEF IInv
<1>1. /\ UNCHANGED <<cache, lists, items, favourite, stored>> /\ Quiet
      /\ block' = block \ {<<c, k>>}
  BY DEF Unblock
<1> DEFINE less(q) == [q EXCEPT !.must = @ \ {k}]
<1>2. \A r \in Requests : req'[r] = IF req[r].customer = c THEN less(req[r]) ELSE req[r]
  BY DEF Unblock
<1>3. \A q \in Request : /\ less(q) \in Request /\ less(q).at = q.at /\ less(q).call = q.call
                         /\ less(q).customer = q.customer /\ less(q).object = q.object
                         /\ less(q).must = q.must \ {k}
  BY DEF Request
<1>4. req' \in [Requests -> Request]
  <2>1. req' = [r \in Requests |-> req'[r]]
    BY DEF Unblock
  <2>2. \A r \in Requests : req[r] \in Request
    BY DEF TypeOK
  <2>3. \A r \in Requests : req'[r] \in Request
    BY <1>2, <1>3, <2>2
  <2> QED
    BY <2>1, <2>3
<1>5. \A q \in Request : q.customer = c /\ Holds(q) => Holds(less(q))'
  BY <1>1, <1>3 DEF Holds, Ready, BlockedBy
<1>6. \A q \in Request : q.customer # c /\ Holds(q) => Holds(q)'
  BY <1>1 DEF Holds, Ready, BlockedBy
<1>7. \A q \in Request : \A nl, ni : Fits(q, nl, ni) => Fits(less(q), nl, ni)
  BY <1>3 DEF Fits
<1>8. Carried'
  <2>1. ASSUME NEW r \in Requests
        PROVE  \E q \in Request :
                 /\ req'[r] = q /\ Holds(q)' /\ Fits(q, Len(lists), Len(items))
    <3>1. PICK p \in Request : p = req[r] /\ Holds(p) /\ Fits(p, Len(lists), Len(items))
      BY DEF Carried, TypeOK
    <3>2. CASE p.customer = c
      <4>1. req'[r] = less(p) /\ less(p) \in Request
        BY <1>2, <1>3, <3>1, <3>2
      <4>2. Holds(less(p))' /\ Fits(less(p), Len(lists), Len(items))
        BY <1>5, <1>7, <3>1, <3>2
      <4> QED
        BY <4>1, <4>2
    <3>3. CASE p.customer # c
      <4>1. req'[r] = p
        BY <1>2, <3>1, <3>3
      <4>2. Holds(p)'
        BY <1>6, <3>1, <3>3
      <4> QED
        BY <3>1, <4>1, <4>2
    <3> QED
      BY <3>2, <3>3
  <2> QED
    BY <1>1, <2>1 DEF Carried
<1>9. ReviewShownOnce' /\ Entries'
  BY <1>1 DEF ReviewShownOnce, Entries
<1> QED
  BY <1>1, <1>4, <1>8, <1>9, QuietSound DEF TypeOK
-------------------------------------------------------------------------------
LEMMA NextIInv == IInv /\ [Next]_vars => IInv'
<1> SUFFICES ASSUME IInv, [Next]_vars PROVE IInv'
  OBVIOUS
<1>1. ASSUME NEW r \in Requests, NEW c \in Customers,
             \/ Detail(r, c) \/ Home(r, c)
             \/ \E call \in {"list", "featured"} : List(r, c, call)
             \/ \E call \in {"favourites", "blocked"} : Names(r, c, call)
      PROVE  IInv'
  BY <1>1, DetailStep, HomeStep, ListStep, NamesStep
<1>2. ASSUME NEW r \in Requests,
             \/ Fetched(r) \/ FetchFails(r) \/ HomeRead(r) \/ Filter(r) \/ Check(r)
             \/ Complete(r) \/ Named(r)
      PROVE  IInv'
  BY <1>2, FetchedStep, FetchFailsStep, HomeReadStep, FilterStep, CheckStep, CompleteStep,
     NamedStep
<1>3. CASE (\E k \in Keys : Expire(k)) \/ Clear
  BY <1>3, CacheStep
<1>4. CASE \E c \in Customers, k \in Companions : SetBlock(c, k) \/ Unblock(c, k)
  BY <1>4, BlockStep, UnblockStep
<1>5. CASE (\E c \in Customers : Keep(c)) \/ (\E v \in Reviews : Review(v))
  BY <1>5, AsideStep
<1>6. CASE UNCHANGED vars
  <2> USE <1>6 DEF vars, IInv
  <2>1. TypeOK' /\ Entries' /\ OwnBlocksHonoured' /\ ReviewShownOnce'
    BY DEF TypeOK, Entries, OwnBlocksHonoured, ReviewShownOnce
  <2>2. Carried'
    BY DEF Carried, Holds, Ready, BlockedBy
  <2> QED
    BY <2>1, <2>2
<1> QED
  BY <1>1, <1>2, <1>3, <1>4, <1>5, <1>6 DEF Next
-------------------------------------------------------------------------------
\* The inductive invariant of the caches and their readers holds in every reachable state.
THEOREM Invariance == Spec => []IInv
<1> QED
  BY InitIInv, NextIInv, PTL DEF Spec

\* Every variable of Discovery keeps its type.
THEOREM TypeCorrect == Spec => []TypeOK
<1>1. IInv => TypeOK
  BY DEF IInv
<1> QED
  BY <1>1, Invariance, PTL

\* No list, home page or profile shows a companion its customer had blocked before.
THEOREM BlocksHonoured == Spec => []OwnBlocksHonoured
<1>1. IInv => OwnBlocksHonoured
  BY DEF IInv
<1> QED
  BY <1>1, Invariance, PTL

\* getCompanionById adds to the shared profile only the reviews it does not show.
THEOREM ReviewsOnce == Spec => []ReviewShownOnce
<1>1. IInv => ReviewShownOnce
  BY DEF IInv
<1> QED
  BY <1>1, Invariance, PTL
===============================================================================
