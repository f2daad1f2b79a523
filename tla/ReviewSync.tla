------------------------------- MODULE ReviewSync -------------------------------
(***************************************************************************)
(* ReviewsService: a review is stored, and an immediate task and a cron    *)
(* job that starts every minute send it to the Companion and the Admin     *)
(* Backend.  Nothing keeps a cron job from starting while another one or   *)
(* an immediate task is still at work, in this process or in another; each *)
(* works on the copies it read at first.                                   *)
(*                                                                         *)
(* A review is named by its booking: the schema allows one per booking and *)
(* customer, so a second submission that passed the look-up is refused by  *)
(* the insert.  Of an attempt's time it matters only whether it lies less  *)
(* than a minute back; no attempt and an old one count the same.           *)
(***************************************************************************)
EXTENDS Integers, Sequences

CONSTANTS Reviews,
          Workers,   \* tasks at work at once
          Limit,     \* reviews a cron job takes (50 in the code)
          MaxFaults  \* bound on failures and crashes

ASSUME LimitAssumption == Limit \in Nat \ {0}
ASSUME MaxFaultsAssumption == MaxFaults \in Nat

VARIABLES stored,    \* the reviews in the order of createdAt
          synced,    \* items with a SyncedAt mark
          recent,    \* unmarked items attempted less than a minute ago
          received,  \* items the services got (external)
          task,      \* the tasks at work
          faults     \* failures so far

vars == <<stored, synced, recent, received, task, faults>>

Service == <<"companion", "admin">>     \* in the order of syncReviewDownstream
Services == {"companion", "admin"}
Items == Services \X Reviews

Copy == [review : Reviews, done : SUBSET Services]
Task == [todo : Seq(Copy), service : 1..2, at : {"attempt", "call", "mark"}]
\* A service whose mark the copy carries is passed over; every copy lacks one.
Batch(todo) ==
  [todo |-> todo, at |-> "attempt",
   service |-> IF todo # <<>> /\ "companion" \in Head(todo).done THEN 2 ELSE 1]
NoTask == Batch(<<>>)

Exists == {stored[i] : i \in 1..Len(stored)}
CopyOf(b) == [review |-> b, done |-> {s \in Services : <<s, b>> \in synced}]

Init ==
  /\ stored = <<>>
  /\ synced = {} /\ recent = {} /\ received = {}
  /\ task = [w \in Workers |-> NoTask]
  /\ faults = 0

Fault == faults < MaxFaults /\ faults' = faults + 1
-------------------------------------------------------------------------------
(* Starting *)

\* createReview: the row, then the immediate task (or a crash before it).
Submit(b) ==
  /\ b \notin Exists
  /\ stored' = Append(stored, b)
  /\ \/ \E w \in Workers :
          /\ task[w] = NoTask
          /\ task' = [task EXCEPT ![w] = Batch(<<[review |-> b, done |-> {}]>>)]
          /\ UNCHANGED faults
     \/ Fault /\ UNCHANGED task
  /\ UNCHANGED <<synced, recent, received>>

\* Mutant of Pending: only the companion's mark is looked at.
PendingCompanion(b) == <<"companion", b>> \notin synced \cup recent
Pending(b) == \E s \in Services : <<s, b>> \notin synced \cup recent

\* The positions of the oldest n pending reviews, all of them or as many as are taken.
Oldest(n, at) ==
  /\ \A i \in 1..n : Pending(stored[at[i]]) /\ \A j \in 1..n : i < j => at[i] < at[j]
  /\ \A k \in 1..Len(stored) : Pending(stored[k]) =>
       \/ \E i \in 1..n : at[i] = k
       \/ n = Limit /\ \A i \in 1..n : at[i] < k

\* The cron job reads its reviews with their marks.
StartCron(w) ==
  /\ task[w] = NoTask
  /\ \E n \in 0..Limit : \E at \in [1..n -> 1..Len(stored)] :
       /\ Oldest(n, at)
       /\ task' = [task EXCEPT ![w] = Batch([i \in 1..n |-> CopyOf(stored[at[i]])])]
  /\ UNCHANGED <<stored, synced, recent, received, faults>>
-------------------------------------------------------------------------------
(* Working: the first copy of the batch, one service after the other *)

Current(w) == Head(task[w].todo)
Item(w) == <<Service[task[w].service], Current(w).review>>

NextCopy(t) == Batch(Tail(t.todo))
\* Mutant of NextService: the end of the list is not seen.
NextServiceUnbounded(t) == [t EXCEPT !.service = @ + 1, !.at = "attempt"]

NextService(t) ==
  IF t.service = 2 \/ "admin" \in Head(t.todo).done THEN NextCopy(t)
  ELSE [todo |-> t.todo, service |-> 2, at |-> "attempt"]

At(w, step) == task[w].todo # <<>> /\ task[w].at = step
Becomes(w, t) == task' = [task EXCEPT ![w] = t]

Attempt(w) ==
  /\ At(w, "attempt")
  /\ recent' = recent \cup ({Item(w)} \ synced)
  /\ Becomes(w, [task[w] EXCEPT !.at = "call"])
  /\ UNCHANGED <<stored, synced, received, faults>>

\* The note of the attempt fails: this copy is given up, its other service with it.
AttemptFails(w) ==
  /\ Fault
  /\ At(w, "attempt")
  /\ Becomes(w, NextCopy(task[w]))
  /\ UNCHANGED <<stored, synced, recent, received>>

Deliver(w) ==
  /\ At(w, "call")
  /\ received' = received \cup {Item(w)}
  /\ Becomes(w, [task[w] EXCEPT !.at = "mark"])
  /\ UNCHANGED <<stored, synced, recent, faults>>

\* Mutant of AfterFailure: a failed call goes on to the mark.
AfterFailureMarked(t) == [t EXCEPT !.at = "mark"]
AfterFailure(t) == NextService(t)

\* The call fails, before or after the service took the review.
CallFails(w) ==
  /\ Fault
  /\ At(w, "call")
  /\ \/ received' = received \cup {Item(w)}
     \/ UNCHANGED received
  /\ Becomes(w, AfterFailure(task[w]))
  /\ UNCHANGED <<stored, synced, recent>>

Mark(w) ==
  /\ At(w, "mark")
  /\ synced' = synced \cup {Item(w)}
  /\ recent' = recent \ {Item(w)}
  /\ Becomes(w, NextService(task[w]))
  /\ UNCHANGED <<stored, received, faults>>

MarkFails(w) ==
  /\ Fault
  /\ At(w, "mark")
  /\ Becomes(w, NextService(task[w]))
  /\ UNCHANGED <<stored, synced, recent, received>>

Crash(w) ==
  /\ Fault
  /\ task[w] # NoTask
  /\ Becomes(w, NoTask)
  /\ UNCHANGED <<stored, synced, recent, received>>

\* A minute has passed since the attempt.
Age(i) ==
  /\ i \in recent
  /\ recent' = recent \ {i}
  /\ UNCHANGED <<stored, synced, received, task, faults>>

Work(w) == Attempt(w) \/ AttemptFails(w) \/ Deliver(w) \/ CallFails(w)
           \/ Mark(w) \/ MarkFails(w)

Next ==
  \/ \E b \in Reviews : Submit(b)
  \/ \E w \in Workers : StartCron(w) \/ Work(w) \/ Crash(w)
  \/ \E i \in Items : Age(i)

Spec == Init /\ [][Next]_vars

\* The clock runs, cron fires, tasks go on; failures stop, as they are bounded.
FairSpec ==
  /\ Spec
  /\ WF_vars(\E w \in Workers : StartCron(w))
  /\ \A w \in Workers : WF_vars(Work(w))
  /\ WF_vars(\E i \in Items : Age(i))
-------------------------------------------------------------------------------
(* Properties *)

\* Every variable has its type.
TypeOK ==
  /\ stored \in Seq(Reviews)
  /\ synced \subseteq Items /\ recent \subseteq Items /\ received \subseteq Items
  /\ task \in [Workers -> Task]
  /\ faults \in 0..MaxFaults

\* Whatever overlaps, fails or crashes: a review goes out only once it is stored,
\* at least once before it is marked, and a mark is never taken back.
Promise == INSTANCE Delivery WITH due <- Services \X Exists, delivered <- received,
                                  ticked <- synced
ImplementsDelivery == Promise!Spec

\* Every stored review reaches both services and is marked, even if the immediate
\* task is lost, services are down for a while and younger reviews wait behind the
\* limit of a cron job.
EveryReviewArrives ==
  \A b \in Reviews : b \in Exists ~> \A s \in Services : <<s, b>> \in synced
===============================================================================
