---------------------------- MODULE ReviewSyncProofs ----------------------------
(***************************************************************************)
(* Proofs about ReviewSync, for every set of reviews, any number of tasks, *)
(* any limit of a cron job and any number of failures.                     *)
(***************************************************************************)
EXTENDS ReviewSync, TLAPS

\* The copies of a task are of stored reviews, and what it is about to mark was received.
Sound(t) ==
  /\ \A i \in 1..Len(t.todo) : t.todo[i].review \in Exists
  /\ t.todo # <<>> /\ t.at = "mark" =>
       <<Service[t.service], Head(t.todo).review>> \in received

IInv ==
  /\ TypeOK
  /\ \A w \in Workers : Sound(task[w])
  /\ synced \subseteq received
  /\ received \subseteq Services \X Exists
-------------------------------------------------------------------------------
\* A batch of stored reviews is a sound task.
LEMMA BatchSound ==
  ASSUME NEW todo \in Seq(Copy), \A i \in 1..Len(todo) : todo[i].review \in Exists
  PROVE  Batch(todo) \in Task /\ Sound(Batch(todo))
<1>1. (IF todo # <<>> /\ "companion" \in Head(todo).done THEN 2 ELSE 1) \in 1..2
  OBVIOUS
<1> QED BY <1>1 DEF Batch, Task, Sound

\* A worker without work is sound.
LEMMA NoTaskSound == NoTask \in Task /\ Sound(NoTask)
<1> DEFINE e == <<>>
<1>1. e \in Seq(Copy) /\ 1..Len(e) = {}
  OBVIOUS
<1> HIDE DEF e
<1>2. Batch(e) \in Task /\ Sound(Batch(e))
  BY <1>1, BatchSound
<1> QED BY <1>2 DEF NoTask, e

\* A task at work is about an item of a stored review.
LEMMA CurrentItem ==
  ASSUME TypeOK, NEW w \in Workers, Sound(task[w]), task[w].todo # <<>>
  PROVE  Item(w) \in Items /\ Item(w) \in Services \X Exists
<1>1. task[w].todo \in Seq(Copy) /\ task[w].service \in 1..2
  BY DEF TypeOK, Task
<1>2. /\ Head(task[w].todo) = task[w].todo[1] /\ 1 \in 1..Len(task[w].todo)
      /\ task[w].todo[1] \in Copy
  BY <1>1
<1>3. task[w].todo[1].review \in Exists /\ task[w].todo[1].review \in Reviews
  BY <1>2 DEF Sound, Copy
<1>4. Service[task[w].service] \in Services
  BY <1>1 DEF Service, Services
<1> QED BY <1>2, <1>3, <1>4 DEF Item, Items, Current

\* Going on to the next service or the next copy keeps a task sound.
LEMMA NextSound ==
  ASSUME NEW t \in Task, t.todo # <<>>, Sound(t)
  PROVE  /\ NextCopy(t) \in Task /\ Sound(NextCopy(t))
         /\ NextService(t) \in Task /\ Sound(NextService(t))
<1>1. t.todo \in Seq(Copy)
  BY DEF Task
<1>2. Tail(t.todo) \in Seq(Copy)
      /\ \A i \in 1..Len(Tail(t.todo)) : Tail(t.todo)[i].review \in Exists
  <2>1. Len(Tail(t.todo)) = Len(t.todo) - 1
        /\ \A i \in 1..Len(Tail(t.todo)) : Tail(t.todo)[i] = t.todo[i + 1]
    BY <1>1
  <2>2. \A i \in 1..Len(Tail(t.todo)) : i + 1 \in 1..Len(t.todo)
    BY <1>1, <2>1
  <2> QED BY <1>1, <2>1, <2>2 DEF Sound
<1>3. NextCopy(t) \in Task /\ Sound(NextCopy(t))
  BY <1>2, BatchSound DEF NextCopy
<1>4. [todo |-> t.todo, service |-> 2, at |-> "attempt"] \in Task
      /\ Sound([todo |-> t.todo, service |-> 2, at |-> "attempt"])
  <2> DEFINE u == [todo |-> t.todo, service |-> 2, at |-> "attempt"]
  <2>1. u \in Task /\ u.todo = t.todo /\ u.at = "attempt"
    BY <1>1 DEF Task
  <2> HIDE DEF u
  <2>2. Sound(u)
    BY <2>1 DEF Sound
  <2> QED BY <2>1, <2>2 DEF u
<1> QED BY <1>3, <1>4 DEF NextService

\* Initially there is no review.
LEMMA InitIInv == Init => IInv
<1> SUFFICES ASSUME Init PROVE IInv OBVIOUS
<1>1. NoTask \in Task /\ Sound(NoTask)
  BY NoTaskSound
<1> QED BY <1>1, MaxFaultsAssumption DEF Init, IInv, TypeOK

\* What every step does to the rows: it stores one review, or delivers or marks one item
\* on behalf of a task; the other tasks are left alone.
RowsGrow ==
  /\ Exists \subseteq Exists' /\ received \subseteq received'
  /\ stored' \in Seq(Reviews) /\ faults' \in 0..MaxFaults
  /\ synced' \subseteq Items /\ recent' \subseteq Items /\ received' \subseteq Items
  /\ synced' \subseteq received' /\ received' \subseteq Services \X Exists'

\* A step that lets the rows grow and moves at most one task, to a sound one, keeps the
\* invariant.
LEMMA OneTaskMoves ==
  ASSUME IInv, RowsGrow, NEW w \in Workers, NEW t \in Task,
         task' = [task EXCEPT ![w] = t],
         /\ \A i \in 1..Len(t.todo) : t.todo[i].review \in Exists'
         /\ t.todo # <<>> /\ t.at = "mark" =>
              <<Service[t.service], Head(t.todo).review>> \in received'
  PROVE  IInv'
<1>1. TypeOK'
  BY DEF IInv, TypeOK, RowsGrow
<1>2. ASSUME NEW v \in Workers PROVE Sound(task[v])'
  <2>1. CASE v = w
    <3>1. task'[v] = t
      BY <2>1 DEF IInv, TypeOK
    <3> QED BY <3>1 DEF Sound
  <2>2. CASE v # w
    <3>1. task'[v] = task[v] /\ Sound(task[v])
      BY <2>2 DEF IInv, TypeOK
    <3> QED BY <3>1 DEF Sound, RowsGrow
  <2> QED BY <2>1, <2>2
<1> QED BY <1>1, <1>2 DEF IInv, RowsGrow

\* Every step of Next keeps the invariant.
LEMMA StepIInv == IInv /\ [Next]_vars => IInv'
<1> SUFFICES ASSUME IInv, [Next]_vars PROVE IInv'
  OBVIOUS
<1>0. /\ TypeOK /\ \A w \in Workers : task[w] \in Task /\ Sound(task[w])
      /\ synced \subseteq received /\ received \subseteq Services \X Exists
  BY DEF IInv, TypeOK
<1>a. faults \in Nat /\ (Fault => faults' \in 0..MaxFaults)
  BY <1>0, MaxFaultsAssumption DEF TypeOK, Fault
<1>b. ASSUME NEW w \in Workers, task[w].todo # <<>>
      PROVE  Item(w) \in Items /\ Item(w) \in Services \X Exists
  BY <1>0, <1>b, CurrentItem
<1>1. ASSUME NEW b \in Reviews, Submit(b) PROVE IInv'
  <2>1. Exists' = Exists \cup {b} /\ stored' \in Seq(Reviews)
    BY <1>0, <1>1 DEF Submit, Exists, TypeOK
  <2>2. faults' \in 0..MaxFaults
    BY <1>0, <1>1, <1>a DEF Submit, TypeOK
  <2>3. RowsGrow
    BY <1>0, <1>1, <2>1, <2>2 DEF Submit, RowsGrow, TypeOK
  <2>4. CASE UNCHANGED task
    <3>1. TypeOK'
      BY <1>0, <2>3, <2>4 DEF TypeOK, RowsGrow
    <3>2. \A w \in Workers : Sound(task[w])'
      BY <1>0, <2>3, <2>4 DEF Sound, RowsGrow
    <3> QED BY <2>3, <3>1, <3>2 DEF IInv, RowsGrow
  <2>5. ASSUME NEW w \in Workers,
               task' = [task EXCEPT ![w] = Batch(<<[review |-> b, done |-> {}]>>)]
        PROVE  IInv'
    <3> DEFINE t == Batch(<<[review |-> b, done |-> {}]>>)
    <3>1. <<[review |-> b, done |-> {}]>> \in Seq(Copy)
      BY DEF Copy
    <3>2. t \in Task /\ t.at = "attempt" /\ t.todo = <<[review |-> b, done |-> {}]>>
      BY <3>1 DEF Batch, Task
    <3>3. \A i \in 1..Len(t.todo) : t.todo[i].review \in Exists'
      <4>1. Len(t.todo) = 1 /\ t.todo[1].review = b
        BY <3>2
      <4> QED BY <2>1, <4>1
    <3> HIDE DEF t
    <3>4. task' = [task EXCEPT ![w] = t]
      BY <2>5 DEF t
    <3> QED BY <2>3, <3>2, <3>3, <3>4, OneTaskMoves
  <2> QED BY <1>1, <2>4, <2>5 DEF Submit
<1>2. ASSUME NEW w \in Workers, StartCron(w) PROVE IInv'
  <2>0. PICK n \in 0..Limit : \E at \in [1..n -> 1..Len(stored)] :
          task' = [task EXCEPT ![w] = Batch([i \in 1..n |-> CopyOf(stored[at[i]])])]
    BY <1>2 DEF StartCron
  <2>1. PICK at \in [1..n -> 1..Len(stored)] :
          task' = [task EXCEPT ![w] = Batch([i \in 1..n |-> CopyOf(stored[at[i]])])]
    BY <2>0
  <2>2. UNCHANGED <<stored, synced, recent, received, faults>> /\ Exists' = Exists
    BY <1>2 DEF StartCron, Exists
  <2>3. RowsGrow
    BY <1>0, <2>2 DEF RowsGrow, TypeOK
  <2> DEFINE todo == [i \in 1..n |-> CopyOf(stored[at[i]])]
  <2>4. n \in Nat /\ \A i \in 1..n : stored[at[i]] \in Exists /\ stored[at[i]] \in Reviews
    BY <1>0, LimitAssumption DEF Exists, TypeOK
  <2>5. \A i \in 1..n : CopyOf(stored[at[i]]) \in Copy
                        /\ CopyOf(stored[at[i]]).review \in Exists
    BY <2>4 DEF CopyOf, Copy
  <2>6. todo \in Seq(Copy) /\ Len(todo) = n /\ \A i \in 1..Len(todo) : todo[i].review \in Exists
    BY <2>4, <2>5
  <2> HIDE DEF todo
  <2> DEFINE t == Batch(todo)
  <2>7. t \in Task /\ Sound(t)
    BY <2>6, BatchSound
  <2>8. task' = [task EXCEPT ![w] = t]
    BY <2>1 DEF todo
  <2> HIDE DEF t
  <2> QED BY <2>2, <2>3, <2>7, <2>8, OneTaskMoves DEF Sound
<1>3. ASSUME NEW w \in Workers, Attempt(w) PROVE IInv'
  <2> DEFINE t == [task[w] EXCEPT !.at = "call"]
  <2>1. t \in Task /\ t.at = "call" /\ t.todo = task[w].todo
    BY <1>0 DEF Task
  <2>2. RowsGrow /\ Exists' = Exists
    BY <1>0, <1>3, <1>b DEF Attempt, At, RowsGrow, Exists, TypeOK
  <2>3. task' = [task EXCEPT ![w] = t]
    BY <1>3 DEF Attempt, Becomes
  <2> HIDE DEF t
  <2> QED BY <1>0, <2>1, <2>2, <2>3, OneTaskMoves DEF Sound
<1>4. ASSUME NEW w \in Workers, Deliver(w) PROVE IInv'
  <2> DEFINE t == [task[w] EXCEPT !.at = "mark"]
  <2>1. t \in Task /\ t.todo = task[w].todo /\ t.service = task[w].service
    BY <1>0 DEF Task
  <2>2. RowsGrow /\ Exists' = Exists /\ Item(w) \in received'
    BY <1>0, <1>4, <1>b DEF Deliver, At, RowsGrow, Exists, TypeOK
  <2>3. task' = [task EXCEPT ![w] = t]
    BY <1>4 DEF Deliver, Becomes
  <2> HIDE DEF t
  <2> QED BY <1>0, <2>1, <2>2, <2>3, OneTaskMoves DEF Sound, Item, Current
<1>5. ASSUME NEW w \in Workers,
             CallFails(w) \/ Mark(w) \/ MarkFails(w) \/ AttemptFails(w) \/ Crash(w)
      PROVE  IInv'
  <2>1. PICK t \in {NextService(task[w]), NextCopy(task[w]), NoTask} :
          task' = [task EXCEPT ![w] = t] /\ (t # NoTask => task[w].todo # <<>>)
    BY <1>5 DEF CallFails, Mark, MarkFails, AttemptFails, Crash, Becomes, At, AfterFailure
  <2>2. NoTask \in Task /\ Sound(NoTask)
    BY NoTaskSound
  <2>3. t \in Task /\ Sound(t)
    BY <1>0, <2>1, <2>2, NextSound
  <2>4. Exists' = Exists /\ stored' = stored /\ faults' \in 0..MaxFaults
    BY <1>0, <1>5, <1>a DEF CallFails, Mark, MarkFails, AttemptFails, Crash, Exists, TypeOK
  <2>5. RowsGrow
    <3>1. CASE Mark(w)
      <4>1. Item(w) \in received
        BY <1>0, <3>1 DEF Mark, At, Sound, Item, Current
      <4> QED BY <1>0, <1>b, <2>4, <3>1, <4>1 DEF Mark, At, RowsGrow, TypeOK
    <3>2. CASE CallFails(w)
      BY <1>0, <1>b, <2>4, <3>2 DEF CallFails, At, RowsGrow, TypeOK
    <3>3. CASE MarkFails(w) \/ AttemptFails(w) \/ Crash(w)
      BY <1>0, <2>4, <3>3 DEF MarkFails, AttemptFails, Crash, RowsGrow, TypeOK
    <3> QED BY <1>5, <3>1, <3>2, <3>3
  <2> QED BY <2>1, <2>3, <2>4, <2>5, OneTaskMoves DEF Sound, RowsGrow
<1>6. ASSUME NEW i \in Items, Age(i) PROVE IInv'
  BY <1>0, <1>6 DEF Age, IInv, TypeOK, Sound, Exists
<1>7. CASE UNCHANGED vars
  BY <1>0, <1>7 DEF vars, IInv, TypeOK, Sound, Exists
<1> QED BY <1>1, <1>2, <1>3, <1>4, <1>5, <1>6, <1>7 DEF Next, Work

\* The invariant of the synchronisation: tasks carry stored reviews, and mark what was
\* received.
THEOREM Invariance == Spec => []IInv
<1>1. Init => IInv
  BY InitIInv
<1>2. IInv /\ [Next]_vars => IInv'
  BY StepIInv
<1> QED BY <1>1, <1>2, PTL DEF Spec

\* Every variable keeps its type.
THEOREM TypeCorrect == Spec => []TypeOK
<1>1. IInv => TypeOK
  BY DEF IInv
<1> QED BY <1>1, Invariance, PTL

\* A step of the tasks is a step of Delivery or leaves its variables alone.
LEMMA StepDelivers ==
  IInv /\ [Next]_vars =>
    [Promise!Next]_<<Services \X Exists, received, synced>>
<1> SUFFICES ASSUME IInv, [Next]_vars
             PROVE  [Promise!Next]_<<Services \X Exists, received, synced>>
  OBVIOUS
<1>0. TypeOK /\ received \subseteq Services \X Exists /\ \A w \in Workers : Sound(task[w])
  BY DEF IInv
<1> USE DEF Promise!Next, Promise!Fall, Promise!Hand, Promise!Tick
<1>1. ASSUME NEW b \in Reviews, Submit(b)
      PROVE  Promise!Fall(b)
  <2>1. Exists' = Exists \cup {b}
    BY <1>0, <1>1 DEF Submit, Exists, TypeOK
  <2> QED BY <1>1, <2>1 DEF Submit
<1>2. ASSUME NEW w \in Workers, task[w].todo # <<>>
      PROVE  Item(w) \in Services \X Reviews /\ Item(w) \in Services \X Exists
  BY <1>0, <1>2, CurrentItem DEF Items
<1>3. ASSUME NEW w \in Workers, Deliver(w) \/ CallFails(w)
      PROVE  Promise!Hand(Item(w)) \/ UNCHANGED <<Services \X Exists, received, synced>>
  BY <1>2, <1>3 DEF Deliver, CallFails, At, Exists
<1>4. ASSUME NEW w \in Workers, Mark(w)
      PROVE  Promise!Tick(Item(w))
  BY <1>0, <1>2, <1>4 DEF Mark, At, Sound, Item, Current, Exists
<1>5. ASSUME NEW w \in Workers,
             StartCron(w) \/ Attempt(w) \/ AttemptFails(w) \/ MarkFails(w) \/ Crash(w)
      PROVE  UNCHANGED <<Services \X Exists, received, synced>>
  BY <1>5 DEF StartCron, Attempt, AttemptFails, MarkFails, Crash, Exists
<1>6. ASSUME NEW i \in Items, Age(i)
      PROVE  UNCHANGED <<Services \X Exists, received, synced>>
  BY <1>6 DEF Age, Exists
<1>7. CASE UNCHANGED vars
  BY <1>7 DEF vars, Exists
<1>8. ASSUME NEW w \in Workers, Deliver(w) \/ CallFails(w) \/ Mark(w)
      PROVE  Item(w) \in Services \X Reviews
  BY <1>2, <1>8 DEF Deliver, CallFails, Mark, At
<1> QED BY <1>1, <1>3, <1>4, <1>5, <1>6, <1>7, <1>8 DEF Next, Work

\* The tasks, however many overlap, fail or crash, deliver what Delivery promises.
THEOREM Implements == Spec => ImplementsDelivery
<1>1. Init => Promise!Init
  BY DEF Init, Promise!Init, Exists
<1>2. IInv /\ [Next]_vars => [Promise!Next]_<<Services \X Exists, received, synced>>
  BY StepDelivers
<1> QED BY <1>1, <1>2, Invariance, PTL DEF Spec, ImplementsDelivery, Promise!Spec
===============================================================================
