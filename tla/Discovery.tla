-------------------------------- MODULE Discovery -------------------------------
(***************************************************************************)
(* DiscoveryService on the caches of CompanionClientService: the list of   *)
(* companions, the featured list, the home page that shows it, one         *)
(* companion's profile with the reviews stored here, and the two pages     *)
(* that look companions up by id: favourites and blocked users.            *)
(*                                                                         *)
(* The caches hold objects, not copies: whoever is answered from a cache   *)
(* gets the object itself, the list is filtered and the profile completed  *)
(* in place.  An object is named by the fetch that made it.  The block     *)
(* table and the reviews are read between the cache and the answer, at an  *)
(* await during which others write the same object.                        *)
(*                                                                         *)
(* External: what the Companion Backend offers, and which of the reviews   *)
(* its profile already shows.  Entries of different filters or companions  *)
(* share nothing, so one of each is modelled: the list under the filter    *)
(* {"limit":10}, which getFeaturedCompanions uses and getCompanions may,   *)
(* and the profile of Shown.  Left out: ratings, guests, who have no       *)
(* blocks, and the counts and campaigns of the home page.                  *)
(***************************************************************************)
EXTENDS Integers, Sequences, FiniteSets

CONSTANTS Customers, Companions, Requests,
          Shown,      \* the companion whose profile is opened
          Reviews,    \* the reviews of Shown
          MaxFetches, \* bound on objects, of both kinds together
          None

ASSUME ShownAssumption == Shown \in Companions
ASSUME NoneAssumption == None \notin Customers \cup Companions \cup Reviews
ASSUME ReviewsAssumption == IsFiniteSet(Reviews)
ASSUME MaxFetchesAssumption == MaxFetches \in Nat

Keys == {"list", "profile"}
Calls == {"list", "featured", "home", "profile", "favourites", "blocked"}
KeyOf(call) == IF call \in {"list", "featured", "home"} THEN "list" ELSE "profile"

VARIABLES
  cache,   \* the live entry of each key: an object, or 0
  lists,   \* companions of each list object
  items,   \* reviews of each profile object, in their order
  block,   \* customer_blocks: who blocked whom
  favourite, \* customer_favorites: the customers who keep Shown
  stored,  \* the public reviews stored here
  req,     \* requests in flight
  answer   \* what the last step answered

vars == <<cache, lists, items, block, favourite, stored, req, answer>>

\* must: history, what the customer has blocked since before the request.
Request == [at : {"idle", "home", "fetch", "blocks", "check", "reviews", "names"},
            call : Calls \cup {None}, customer : Customers \cup {None},
            object : 0..MaxFetches, must : SUBSET Companions]
Idle == [at |-> "idle", call |-> None, customer |-> None, object |-> 0, must |-> {}]
Answer == [companions : SUBSET Companions, must : SUBSET Companions]
Silence == [companions |-> {}, must |-> {}]

Init ==
  /\ cache = [k \in Keys |-> 0]
  /\ lists = <<>> /\ items = <<>>
  /\ block = {} /\ favourite = {} /\ stored = {}
  /\ req = [r \in Requests |-> Idle]
  /\ answer = Silence
-------------------------------------------------------------------------------
(* The caches *)

Becomes(r, state) == req' = [req EXCEPT ![r] = state]
BlockedBy(c) == {k \in Companions : <<c, k>> \in block}
Says(r, companions) ==
  /\ answer' = [companions |-> companions, must |-> req[r].must]
  /\ Becomes(r, Idle)
Quiet == answer' = Silence

\* What follows the cache: the reviews of a profile, the blocks of a list, nothing.
After(call) == CASE KeyOf(call) = "list" -> "blocks"
                 [] call = "profile" -> "reviews"
                 [] call \in {"favourites", "blocked"} -> "names"
Served(state, object) == [at |-> After(state.call), call |-> state.call,
                          customer |-> state.customer, object |-> object, must |-> state.must]

\* getCompanions, getCompanionById: the cached object, or a fetch.
Look(r, state) ==
  LET entry == cache[KeyOf(state.call)] IN
  Becomes(r, IF entry # 0 THEN Served(state, entry) ELSE [state EXCEPT !.at = "fetch"])

\* The answer of the Companion Backend becomes an object and the cache's entry.
Fetched(r) ==
  LET key == KeyOf(req[r].call) IN
  /\ req[r].at = "fetch"
  /\ Len(lists) + Len(items) < MaxFetches
  /\ \/ /\ key = "list"
        /\ \E offer \in SUBSET Companions : lists' = Append(lists, offer)
        /\ cache' = [cache EXCEPT ![key] = Len(lists) + 1]
        /\ Becomes(r, Served(req[r], Len(lists) + 1))
        /\ UNCHANGED items
     \/ /\ key = "profile"
        /\ \E known \in {<<>>} \cup {<<v>> : v \in stored} : items' = Append(items, known)
        /\ cache' = [cache EXCEPT ![key] = Len(items) + 1]
        /\ Becomes(r, Served(req[r], Len(items) + 1))
        /\ UNCHANGED lists
  /\ Quiet /\ UNCHANGED <<block, favourite, stored>>

FetchFails(r) ==
  /\ req[r].at = "fetch"
  /\ Becomes(r, Idle)
  /\ Quiet /\ UNCHANGED <<cache, lists, items, block, favourite, stored>>

\* An entry's time is over.
Expire(k) ==
  /\ cache[k] # 0
  /\ cache' = [cache EXCEPT ![k] = 0]
  /\ Quiet /\ UNCHANGED <<lists, items, block, favourite, stored, req>>

\* clearDiscoveryCache, when a booking request has reached the Companion Backend.
Clear ==
  /\ cache' = [k \in Keys |-> 0]
  /\ Quiet /\ UNCHANGED <<lists, items, block, favourite, stored, req>>
-------------------------------------------------------------------------------
(* Lists *)

For(c, call) == [at |-> "idle", call |-> call, customer |-> c, object |-> 0,
                 must |-> BlockedBy(c)]

\* getCompanions, getFeaturedCompanions.
List(r, c, call) ==
  /\ req[r] = Idle
  /\ Look(r, For(c, call))
  /\ Quiet /\ UNCHANGED <<cache, lists, items, block, favourite, stored>>

\* getHomeData: the customer's own rows are read first, then the featured companions.
Home(r, c) ==
  /\ req[r] = Idle
  /\ Becomes(r, [For(c, "home") EXCEPT !.at = "home"])
  /\ Quiet /\ UNCHANGED <<cache, lists, items, block, favourite, stored>>

HomeRead(r) ==
  /\ req[r].at = "home"
  /\ Look(r, req[r])
  /\ Quiet /\ UNCHANGED <<cache, lists, items, block, favourite, stored>>

\* Mutant of Kept: the list is answered as it came.
KeptAll(companions, blocked) == companions
Kept(companions, blocked) == companions \ blocked

\* The blocks are read; the list is filtered in the object, the featured one in a copy.
\* The copy was made before that read and can be longer than the object is by now; what
\* it holds more are companions whom others have blocked.
Filter(r) ==
  LET object == req[r].object
      kept == Kept(lists[object], BlockedBy(req[r].customer))
  IN
  /\ req[r].at = "blocks"
  /\ lists' = IF req[r].call = "list" THEN [lists EXCEPT ![object] = kept] ELSE lists
  /\ Says(r, kept)
  /\ UNCHANGED <<cache, items, block, favourite, stored>>
-------------------------------------------------------------------------------
(* The profile *)

Detail(r, c) ==
  /\ req[r] = Idle
  /\ Becomes(r, [For(c, "profile") EXCEPT !.at = "check"])
  /\ Quiet /\ UNCHANGED <<cache, lists, items, block, favourite, stored>>

\* Mutant of Refused: the block table is not asked.
RefusedNever(c) == FALSE
Refused(c) == Shown \in BlockedBy(c)

Check(r) ==
  /\ req[r].at = "check"
  /\ IF Refused(req[r].customer) THEN Becomes(r, Idle) ELSE Look(r, req[r])
  /\ Quiet /\ UNCHANGED <<cache, lists, items, block, favourite, stored>>

In(v, shown) == \E i \in 1..Len(shown) : shown[i] = v

\* The reviews to add, newest first: any order of them.
Orders(set) ==
  {s \in [1..Cardinality(set) -> set] : \A i, j \in DOMAIN s : s[i] = s[j] => i = j}
\* Mutant of Missing: what the profile shows already is added again.
MissingAll(shown) == stored
Missing(shown) == {v \in stored : ~In(v, shown)}

\* The reviews are read; the object gets those it does not show.  That is decided by the
\* object as it is when it is written, so the read may as well be in the same step.
Complete(r) ==
  LET object == req[r].object IN
  /\ req[r].at = "reviews"
  /\ \E new \in Orders(Missing(items[object])) :
       items' = [items EXCEPT ![object] = @ \o new]
  /\ Says(r, {Shown})
  /\ UNCHANGED <<cache, lists, block, favourite, stored>>
-------------------------------------------------------------------------------
(* Companions by id, whatever the customer's blocks *)

\* getFavorites, getBlockedUsers: the rows are read, then the profile of each.
Names(r, c, call) ==
  /\ req[r] = Idle
  /\ IF call = "favourites" THEN c \in favourite ELSE Shown \in BlockedBy(c)
  /\ Look(r, [For(c, call) EXCEPT !.must = {}])
  /\ Quiet /\ UNCHANGED <<cache, lists, items, block, favourite, stored>>

\* The object itself is the answer of getFavorites, its name that of getBlockedUsers.
Named(r) ==
  /\ req[r].at = "names"
  /\ Says(r, IF req[r].call = "favourites" THEN {Shown} ELSE {})
  /\ UNCHANGED <<cache, lists, items, block, favourite, stored>>

\* addFavorite, removeFavorite.
Keep(c) ==
  /\ \/ favourite' = favourite \cup {c}
     \/ favourite' = favourite \ {c}
  /\ Quiet /\ UNCHANGED <<cache, lists, items, block, stored, req>>
-------------------------------------------------------------------------------
(* Elsewhere: blocks, and reviews as they are submitted and go with an account *)

SetBlock(c, k) ==
  /\ block' = block \cup {<<c, k>>}
  /\ Quiet /\ UNCHANGED <<cache, lists, items, favourite, stored, req>>

Unblock(c, k) ==
  /\ <<c, k>> \in block
  /\ block' = block \ {<<c, k>>}
  /\ req' = [r \in Requests |->
       IF req[r].customer = c THEN [req[r] EXCEPT !.must = @ \ {k}] ELSE req[r]]
  /\ Quiet /\ UNCHANGED <<cache, lists, items, favourite, stored>>

Review(v) ==
  /\ stored' = stored \cup {v}
  /\ Quiet /\ UNCHANGED <<cache, lists, items, block, favourite, req>>

Next ==
  \/ \E r \in Requests :
       \/ \E c \in Customers :
            \/ Detail(r, c) \/ Home(r, c)
            \/ \E call \in {"list", "featured"} : List(r, c, call)
            \/ \E call \in {"favourites", "blocked"} : Names(r, c, call)
       \/ Fetched(r) \/ FetchFails(r) \/ HomeRead(r) \/ Filter(r) \/ Check(r)
       \/ Complete(r) \/ Named(r)
  \/ \E k \in Keys : Expire(k)
  \/ Clear
  \/ \E c \in Customers, k \in Companions : SetBlock(c, k) \/ Unblock(c, k)
  \/ \E c \in Customers : Keep(c)
  \/ \E v \in Reviews : Review(v)

Spec == Init /\ [][Next]_vars
-------------------------------------------------------------------------------
(* Properties *)

\* Every variable has its type.
TypeOK ==
  /\ lists \in Seq(SUBSET Companions) /\ items \in Seq(Seq(Reviews))
  /\ cache \in [Keys -> 0..MaxFetches]
  /\ block \subseteq Customers \X Companions
  /\ favourite \subseteq Customers
  /\ stored \subseteq Reviews
  /\ req \in [Requests -> Request]
  /\ answer \in Answer

\* Whatever objects requests share: no list, home page or profile that is answered
\* holds a companion its customer has blocked since before the request.
OwnBlocksHonoured == answer.companions \cap answer.must = {}

\* Requests that complete the same cached profile, one after the other or while one
\* waits for the reviews, never make it show a review twice.
ReviewShownOnce ==
  \A o \in 1..Len(items) : \A i, j \in 1..Len(items[o]) :
    items[o][i] = items[o][j] => i = j
===============================================================================
