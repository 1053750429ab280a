-------------------------- MODULE WorkerPoolProofs ---------------------------
(***************************************************************************)
(* Theorems about WorkerPool, for any number of workers and of blobs.      *)
(*                                                                         *)
(* A cancelled pool leaves tasks in the channel and Wait returns nil all   *)
(* the same.  That no manifest is put without its blobs rests on how a     *)
(* worker leaves: without a cancellation only when the channel is closed   *)
(* and empty, and every task is in the channel, held by a worker, or       *)
(* executed.                                                               *)
(***************************************************************************)
EXTENDS WorkerPool, FiniteSetTheorems, TLAPS

\* Where the caller is, and how the workers may have left.
PlaceOK ==
    /\ caller = "send" => next <= NumTasks
    /\ caller \in {"submit", "send"} => ~closed
    /\ caller \in {"wait", "publish"} => closed
    /\ closed => next = NumTasks + 1
    /\ caller = "send" => total = next
    /\ caller # "send" /\ (cancelled => caller # "returned") => total = next - 1
    /\ ~cancelled => \A w \in Workers :
          worker[w] = "gone" => closed /\ queue = <<>>
    /\ caller = "publish" => AllGone /\ errors = {}
    /\ result = "nil" => caller = "returned" /\ AllGone

\* The tasks that have been taken are those before this one.
Taken == next - Len(queue)

\* The channel holds the last tasks submitted, in their order.
QueueOK ==
    /\ Len(queue) < next
    /\ \A i \in DOMAIN queue : queue[i] = Taken - 1 + i

\* A task that was taken is held by one worker, or has been executed.
HeldOK ==
    /\ \A w \in Workers : worker[w] = "execute" =>
          /\ holding[w] \in Tasks
          /\ holding[w] < Taken
          /\ outcome[holding[w]] = "none"
    /\ \A v, w \in Workers :
          worker[v] = "execute" /\ worker[w] = "execute" /\ holding[v] = holding[w]
              => v = w
    /\ \A t \in Tasks : t < Taken /\ outcome[t] = "none" =>
          \E w \in Workers : worker[w] = "execute" /\ holding[w] = t

\* What has been executed, and kept as an error.
ExecutedOK ==
    /\ \A t \in Tasks : outcome[t] # "none" => t < Taken
    /\ errors = {t \in Tasks : outcome[t] = "failed"}

Executed == {t \in Tasks : outcome[t] # "none"}
Uncounted == {w \in Workers : worker[w] \in {"count", "countFailed"}}
UncountedFailed == {w \in Workers : worker[w] = "countFailed"}

\* The counters lag behind by the workers that are about to count.
CountersOK ==
    /\ done + Cardinality(Uncounted) = Cardinality(Executed)
    /\ failed + Cardinality(UncountedFailed) = Cardinality(errors)

IInv == TypeOK /\ PlaceOK /\ QueueOK /\ HeldOK /\ ExecutedOK
        /\ PublishedMeansCopied

-----------------------------------------------------------------------------
\* The first states have the invariant.
LEMMA InitOK == Init => IInv
<1> SUFFICES ASSUME Init PROVE IInv
  OBVIOUS
<1> USE NumTasksAssumption DEF Init, Tasks
<1>1. TypeOK
  <2>1. queue \in Seq(1..NumTasks) /\ next \in 1..(NumTasks + 1)
    OBVIOUS
  <2> QED
    BY <2>1 DEF TypeOK
<1>2. PlaceOK
  BY WorkersAssumption DEF PlaceOK
<1>3. QueueOK
  BY DEF QueueOK, Taken
<1>4. HeldOK
  BY DEF HeldOK, Taken
<1>5. ExecutedOK
  BY DEF ExecutedOK
<1>6. PublishedMeansCopied
  BY DEF PublishedMeansCopied
<1> QED
  BY <1>1, <1>2, <1>3, <1>4, <1>5, <1>6 DEF IInv

\* The caller's steps that leave the channel alone, and the cancellation.
LEMMA CallerKeeps ==
  ASSUME IInv,
         \/ SubmitCount \/ SubmitCancelled \/ WaitClose \/ WaitReturn
         \/ PublishFails \/ Cancel
  PROVE  IInv'
<1> USE NumTasksAssumption DEF IInv, Tasks, workerVars, callerVars
<1>1. TypeOK' /\ PlaceOK'
  <2>1. CASE SubmitCount
    BY <2>1 DEF TypeOK, PlaceOK, AllGone, SubmitCount
  <2>2. CASE SubmitCancelled
    BY <2>2 DEF TypeOK, PlaceOK, AllGone, SubmitCancelled
  <2>3. CASE WaitClose
    BY <2>3 DEF TypeOK, PlaceOK, AllGone, WaitClose
  <2>4. CASE WaitReturn
    BY <2>4 DEF TypeOK, PlaceOK, AllGone, WaitReturn
  <2>5. CASE PublishFails
    BY <2>5 DEF TypeOK, PlaceOK, AllGone, PublishFails
  <2>6. CASE Cancel
    BY <2>6 DEF TypeOK, PlaceOK, AllGone, Cancel
  <2> QED
    BY <2>1, <2>2, <2>3, <2>4, <2>5, <2>6
<1>2. UNCHANGED <<queue, next, worker, holding, outcome, errors>>
  BY DEF SubmitCount, SubmitCancelled, WaitClose, WaitReturn, PublishFails,
         Cancel
<1>3. QueueOK' /\ HeldOK' /\ ExecutedOK'
  BY <1>2 DEF QueueOK, HeldOK, ExecutedOK, Taken
<1>4. PublishedMeansCopied'
  BY <1>2 DEF PublishedMeansCopied, PlaceOK, TypeOK, SubmitCount, SubmitCancelled, WaitClose,
              WaitReturn, PublishFails, Cancel
<1> QED
  BY <1>1, <1>3, <1>4

\* A task goes into the channel.
LEMMA SubmitSendKeeps == ASSUME IInv, SubmitSend PROVE IInv'
<1> USE NumTasksAssumption DEF IInv, SubmitSend, Tasks, workerVars
<1>1. next \in Tasks /\ queue \in Seq(Tasks)
  BY DEF TypeOK, PlaceOK
<1>2. Len(queue') = Len(queue) + 1 /\ next' = next + 1 /\ queue' \in Seq(Tasks)
  BY <1>1
<1>3. Taken' = Taken
  BY <1>1, <1>2 DEF Taken
<1>4. TypeOK'
  BY <1>1, <1>2 DEF TypeOK
<1>5. PlaceOK'
  BY <1>1, <1>2 DEF TypeOK, PlaceOK, AllGone
<1>6. QueueOK'
  <2>1. \A i \in DOMAIN queue' : queue'[i] = Taken - 1 + i
    <3> TAKE i \in DOMAIN queue'
    <3>1. CASE i \in DOMAIN queue
      BY <1>1, <3>1 DEF QueueOK
    <3>2. CASE i = Len(queue) + 1
      BY <1>1, <3>2 DEF Taken
    <3> QED
      BY <1>1, <1>2, <3>1, <3>2
  <2> QED
    BY <2>1, <1>1, <1>2, <1>3 DEF QueueOK
<1>7. HeldOK' /\ ExecutedOK'
  BY <1>3 DEF HeldOK, ExecutedOK
<1>8. PublishedMeansCopied'
  BY DEF PublishedMeansCopied
<1> QED
  BY <1>4, <1>5, <1>6, <1>7, <1>8

\* Before the manifest is put, and without a cancellation, every worker has
\* left an empty channel behind, so each task was executed, and none has failed.
LEMMA AllCopied ==
  ASSUME IInv, caller = "publish", ~cancelled
  PROVE  \A t \in Tasks : outcome[t] = "ok"
<1> USE NumTasksAssumption DEF IInv, Tasks
<1>1. PICK w \in Workers : worker[w] = "gone"
  BY WorkersAssumption DEF PlaceOK, AllGone
<1>2. queue = <<>> /\ next = NumTasks + 1
  BY <1>1 DEF PlaceOK
<1>3. Taken = NumTasks + 1
  BY <1>2 DEF Taken
<1>4. \A t \in Tasks : t < Taken
  BY <1>3
<1>5. \A t \in Tasks : outcome[t] # "none"
  BY <1>4 DEF HeldOK, PlaceOK, AllGone
<1>6. \A t \in Tasks : outcome[t] # "failed"
  BY DEF ExecutedOK, PlaceOK
<1> QED
  BY <1>5, <1>6 DEF TypeOK

\* The manifest is put.
LEMMA PublishKeeps == ASSUME IInv, Publish PROVE IInv'
<1> USE NumTasksAssumption DEF IInv, Publish, Tasks, workerVars
<1>1. TypeOK'
  BY DEF TypeOK
<1>2. PlaceOK'
  BY DEF PlaceOK, AllGone
<1>3. QueueOK' /\ HeldOK' /\ ExecutedOK'
  BY DEF QueueOK, HeldOK, ExecutedOK, Taken
<1>4. PublishedMeansCopied'
  BY AllCopied DEF PublishedMeansCopied
<1> QED
  BY <1>1, <1>2, <1>3, <1>4

-----------------------------------------------------------------------------
\* A worker leaves.
LEMMA LeaveKeeps ==
  ASSUME IInv, NEW w \in Workers, SeeCancelled(w) \/ SeeClosed(w)
  PROVE  IInv'
<1> USE DEF IInv, SeeCancelled, SeeClosed, Goto, callerVars
<1>1. TypeOK'
  BY DEF TypeOK
<1>2. PlaceOK'
  BY DEF TypeOK, PlaceOK, AllGone
<1>3. QueueOK' /\ ExecutedOK'
  BY DEF QueueOK, ExecutedOK, Taken
<1>4. HeldOK'
  BY DEF HeldOK, Taken, TypeOK
<1>5. PublishedMeansCopied'
  BY DEF PublishedMeansCopied
<1> QED
  BY <1>1, <1>2, <1>3, <1>4, <1>5

\* A worker takes the first task of the channel.
LEMMA TakeKeeps == ASSUME IInv, NEW w \in Workers, Take(w) PROVE IInv'
<1> USE NumTasksAssumption DEF IInv, Take, Goto, callerVars
<1> DEFINE head == Head(queue)
<1>1. queue \in Seq(Tasks) /\ queue # <<>> /\ next \in Nat
  BY DEF TypeOK, Tasks
<1>2. Len(queue) >= 1 /\ Len(queue') = Len(queue) - 1 /\ queue' \in Seq(Tasks)
  BY <1>1
<1>3. head = queue[1] /\ 1 \in DOMAIN queue /\ head \in Tasks
  BY <1>1
<1>4. head = Taken /\ Taken' = Taken + 1
  BY <1>1, <1>2, <1>3 DEF QueueOK, Taken
<1>5. outcome[head] = "none"
  BY <1>3, <1>4 DEF ExecutedOK, Tasks
<1>6. TypeOK'
  BY <1>2, <1>3 DEF TypeOK
<1>7. PlaceOK'
  BY <1>1 DEF TypeOK, PlaceOK, AllGone
<1>8. QueueOK'
  <2>1. \A i \in DOMAIN queue' : queue'[i] = queue[i + 1] /\ i + 1 \in DOMAIN queue
    BY <1>1
  <2>2. Taken \in Int
    BY <1>1 DEF Taken
  <2>3. \A i \in DOMAIN queue' : queue'[i] = Taken' - 1 + i
    BY <2>1, <2>2, <1>2, <1>4 DEF QueueOK
  <2> QED
    BY <2>3, <1>1, <1>2 DEF QueueOK
<1>9. HeldOK'
  <2>1. \A v \in Workers : worker[v] = "execute" => v # w /\ holding[v] < head
    BY <1>4 DEF HeldOK
  <2>2. \A v \in Workers : worker'[v] = "execute" =>
           /\ holding'[v] \in Tasks
           /\ holding'[v] < Taken'
           /\ outcome'[holding'[v]] = "none"
    <3> SUFFICES ASSUME NEW v \in Workers, worker'[v] = "execute"
                 PROVE  /\ holding'[v] \in Tasks
                        /\ holding'[v] < Taken'
                        /\ outcome'[holding'[v]] = "none"
      OBVIOUS
    <3>1. CASE v = w
      BY <3>1, <1>3, <1>4, <1>5 DEF TypeOK, Tasks
    <3>2. CASE v # w
      BY <3>2, <1>4, <1>3 DEF HeldOK, TypeOK, Tasks
    <3> QED
      BY <3>1, <3>2
  <2>3. \A u, v \in Workers :
           worker'[u] = "execute" /\ worker'[v] = "execute" /\ holding'[u] = holding'[v]
               => u = v
    BY <2>1, <1>3 DEF HeldOK, TypeOK, Tasks
  <2>4. \A t \in Tasks : t < Taken' /\ outcome'[t] = "none" =>
           \E v \in Workers : worker'[v] = "execute" /\ holding'[v] = t
    <3> SUFFICES ASSUME NEW t \in Tasks, t < Taken', outcome'[t] = "none"
                 PROVE  \E v \in Workers : worker'[v] = "execute" /\ holding'[v] = t
      OBVIOUS
    <3>1. CASE t = head
      BY <3>1 DEF TypeOK
    <3>2. CASE t # head
      <4>1. t < Taken
        BY <3>2, <1>4, <1>3 DEF Tasks
      <4>2. PICK v \in Workers : worker[v] = "execute" /\ holding[v] = t
        BY <4>1 DEF HeldOK
      <4>3. v # w
        BY <4>2
      <4> QED
        BY <4>2, <4>3 DEF TypeOK
    <3> QED
      BY <3>1, <3>2
  <2> QED
    BY <2>2, <2>3, <2>4 DEF HeldOK
<1>10. ExecutedOK'
  BY <1>4, <1>3 DEF ExecutedOK, Tasks, TypeOK
<1>11. PublishedMeansCopied'
  BY DEF PublishedMeansCopied
<1> QED
  BY <1>6, <1>7, <1>8, <1>9, <1>10, <1>11

\* A worker executes its task.
LEMMA ExecuteKeeps ==
  ASSUME IInv, NEW w \in Workers, ExecuteOk(w) \/ ExecuteFails(w)
  PROVE  IInv'
<1> USE DEF IInv, Goto, callerVars
<1> DEFINE t0 == holding[w]
<1>1. worker[w] = "execute" /\ t0 \in Tasks /\ t0 < Taken /\ outcome[t0] = "none"
  BY DEF ExecuteOk, ExecuteFails, HeldOK
<1>2. UNCHANGED <<caller, next, closed, total, result, queue, cancelled, holding>>
  BY DEF ExecuteOk, ExecuteFails
<1>3. /\ worker' \in [Workers -> {"select", "execute", "countFailed", "count", "gone"}]
      /\ worker'[w] \in {"count", "countFailed"}
      /\ \A v \in Workers \ {w} : worker'[v] = worker[v]
  BY DEF ExecuteOk, ExecuteFails, TypeOK
<1>4. /\ outcome' \in [Tasks -> {"none", "ok", "failed"}]
      /\ outcome'[t0] # "none"
      /\ \A t \in Tasks \ {t0} : outcome'[t] = outcome[t]
  BY <1>1 DEF ExecuteOk, ExecuteFails, TypeOK
<1>5. ~AllGone
  BY <1>1 DEF AllGone
<1>6. TypeOK'
  BY <1>1, <1>2, <1>3, <1>4 DEF TypeOK, ExecuteOk, ExecuteFails
<1>7. PlaceOK'
  BY <1>2, <1>3, <1>5 DEF PlaceOK, AllGone
<1>8. QueueOK' /\ Taken' = Taken
  BY <1>2 DEF QueueOK, Taken
<1>9. HeldOK'
  <2>1. \A v \in Workers : worker'[v] = "execute" =>
           v # w /\ worker[v] = "execute" /\ holding[v] # t0
    BY <1>1, <1>3 DEF HeldOK
  <2>2. \A t \in Tasks : t < Taken' /\ outcome'[t] = "none" =>
           \E v \in Workers : worker'[v] = "execute" /\ holding'[v] = t
    <3> SUFFICES ASSUME NEW t \in Tasks, t < Taken', outcome'[t] = "none"
                 PROVE  \E v \in Workers : worker'[v] = "execute" /\ holding'[v] = t
      OBVIOUS
    <3>1. t # t0 /\ outcome[t] = "none"
      BY <1>4
    <3>2. PICK v \in Workers : worker[v] = "execute" /\ holding[v] = t
      BY <3>1, <1>8 DEF HeldOK
    <3>3. v # w
      BY <3>1, <3>2
    <3> QED
      BY <3>2, <3>3, <1>2, <1>3
  <2> QED
    BY <2>1, <2>2, <1>2, <1>4, <1>8 DEF HeldOK
<1>10. ExecutedOK'
  <2>1. CASE ExecuteOk(w)
    BY <2>1, <1>1, <1>4, <1>8 DEF ExecutedOK, ExecuteOk, TypeOK
  <2>2. CASE ExecuteFails(w)
    BY <2>2, <1>1, <1>4, <1>8 DEF ExecutedOK, ExecuteFails, TypeOK
  <2> QED
    BY <2>1, <2>2
<1>11. PublishedMeansCopied'
  BY <1>2, <1>5 DEF PublishedMeansCopied, PlaceOK
<1> QED
  BY <1>6, <1>7, <1>8, <1>9, <1>10, <1>11

\* A worker counts.
LEMMA CountKeeps ==
  ASSUME IInv, NEW w \in Workers, CountFailed(w) \/ CountDone(w)
  PROVE  IInv'
<1> USE DEF IInv, CountFailed, CountDone, Goto, callerVars
<1>1. TypeOK'
  BY DEF TypeOK
<1>2. PlaceOK'
  BY DEF TypeOK, PlaceOK, AllGone
<1>3. QueueOK' /\ ExecutedOK'
  BY DEF QueueOK, ExecutedOK, Taken
<1>4. HeldOK'
  BY DEF HeldOK, Taken, TypeOK
<1>5. PublishedMeansCopied'
  BY DEF PublishedMeansCopied
<1> QED
  BY <1>1, <1>2, <1>3, <1>4, <1>5

\* Every step keeps the invariant.
LEMMA StepKeeps == IInv /\ [Next]_vars => IInv'
<1> SUFFICES ASSUME IInv, [Next]_vars PROVE IInv'
  OBVIOUS
<1>1. CASE CallerStep
  BY <1>1, CallerKeeps, SubmitSendKeeps, PublishKeeps DEF CallerStep
<1>2. ASSUME NEW w \in Workers, WorkerStep(w) PROVE IInv'
  BY <1>2, LeaveKeeps, TakeKeeps, ExecuteKeeps, CountKeeps DEF WorkerStep
<1>3. CASE Cancel
  BY <1>3, CallerKeeps
<1>4. CASE UNCHANGED vars
  BY <1>4 DEF vars, callerVars, workerVars, IInv, TypeOK, PlaceOK, AllGone, QueueOK,
              HeldOK, ExecutedOK, Taken, PublishedMeansCopied
<1> QED
  BY <1>1, <1>2, <1>3, <1>4 DEF Next

-----------------------------------------------------------------------------
(* The counters.                                                            *)

\* The sets that are counted are finite.
LEMMA FiniteSets ==
  ASSUME IInv
  PROVE  /\ IsFiniteSet(Executed) /\ IsFiniteSet(errors)
         /\ IsFiniteSet(Uncounted) /\ IsFiniteSet(UncountedFailed)
<1>1. IsFiniteSet(Tasks)
  BY FS_Interval, NumTasksAssumption DEF Tasks
<1>2. Executed \subseteq Tasks /\ errors \subseteq Tasks
  BY DEF IInv, TypeOK, Executed
<1>3. Uncounted \subseteq Workers /\ UncountedFailed \subseteq Workers
  BY DEF Uncounted, UncountedFailed
<1> QED
  BY <1>1, <1>2, <1>3, WorkersAssumption, FS_Subset

\* At first nothing is executed and nobody counts.
LEMMA InitCounters == Init => CountersOK
<1> SUFFICES ASSUME Init PROVE CountersOK
  OBVIOUS
<1>1. Executed = {} /\ Uncounted = {} /\ UncountedFailed = {} /\ errors = {}
  BY DEF Init, Executed, Uncounted, UncountedFailed
<1> QED
  BY <1>1, FS_EmptySet DEF Init, CountersOK

\* An executed task enters the set of its outcome with the worker that will
\* count it.
LEMMA ExecuteCounters ==
  ASSUME IInv, CountersOK, NEW w \in Workers, ExecuteOk(w) \/ ExecuteFails(w)
  PROVE  CountersOK'
<1> DEFINE t0 == holding[w]
<1>1. t0 \in Tasks /\ outcome[t0] = "none" /\ worker[w] = "execute"
  BY DEF IInv, HeldOK, ExecuteOk, ExecuteFails
<1>2. t0 \notin Executed /\ t0 \notin errors /\ w \notin Uncounted
      /\ w \notin UncountedFailed
  BY <1>1 DEF Executed, Uncounted, UncountedFailed, IInv, ExecutedOK
<1>3. Executed' = Executed \cup {t0} /\ Uncounted' = Uncounted \cup {w}
  BY <1>1 DEF ExecuteOk, ExecuteFails, Goto, Executed, Uncounted, IInv, TypeOK
<1>4. /\ Cardinality(Executed') = Cardinality(Executed) + 1
      /\ Cardinality(Uncounted') = Cardinality(Uncounted) + 1
  BY <1>2, <1>3, FiniteSets, FS_AddElement
<1>5. /\ Cardinality(Executed) \in Nat /\ Cardinality(Uncounted) \in Nat
      /\ Cardinality(errors) \in Nat /\ Cardinality(UncountedFailed) \in Nat
      /\ done \in Nat /\ failed \in Nat
  BY FiniteSets, FS_CardinalityType DEF IInv, TypeOK
<1>6. CASE ExecuteOk(w)
  <2>1. UncountedFailed' = UncountedFailed
    BY <1>1, <1>6 DEF ExecuteOk, Goto, UncountedFailed, IInv, TypeOK
  <2>2. UNCHANGED <<done, failed, errors>>
    BY <1>6 DEF ExecuteOk
  <2> QED
    BY <2>1, <2>2, <1>4, <1>5 DEF CountersOK
<1>7. CASE ExecuteFails(w)
  <2>1. UncountedFailed' = UncountedFailed \cup {w}
    BY <1>1, <1>7 DEF ExecuteFails, Goto, UncountedFailed, IInv, TypeOK
  <2>2. UNCHANGED <<done, failed>> /\ errors' = errors \cup {t0}
    BY <1>7 DEF ExecuteFails
  <2>3. /\ Cardinality(UncountedFailed') = Cardinality(UncountedFailed) + 1
        /\ Cardinality(errors') = Cardinality(errors) + 1
    BY <2>1, <2>2, <1>2, FiniteSets, FS_AddElement
  <2> QED
    BY <2>2, <2>3, <1>4, <1>5 DEF CountersOK
<1> QED
  BY <1>6, <1>7

\* A worker that counts leaves the set of those that are about to.
LEMMA CountCounters ==
  ASSUME IInv, CountersOK, NEW w \in Workers, CountFailed(w) \/ CountDone(w)
  PROVE  CountersOK'
<1>1. /\ Cardinality(Executed) \in Nat /\ Cardinality(Uncounted) \in Nat
      /\ Cardinality(errors) \in Nat /\ Cardinality(UncountedFailed) \in Nat
      /\ done \in Nat /\ failed \in Nat
  BY FiniteSets, FS_CardinalityType DEF IInv, TypeOK
<1>2. Executed' = Executed /\ errors' = errors
  BY DEF CountFailed, CountDone, Executed
<1>3. CASE CountFailed(w)
  <2>1. w \in UncountedFailed /\ UncountedFailed' = UncountedFailed \ {w}
    BY <1>3 DEF CountFailed, Goto, UncountedFailed, IInv, TypeOK
  <2>2. Uncounted' = Uncounted
    BY <1>3 DEF CountFailed, Goto, Uncounted, IInv, TypeOK
  <2>3. Cardinality(UncountedFailed') = Cardinality(UncountedFailed) - 1
    BY <2>1, FiniteSets, FS_RemoveElement
  <2>4. failed' = failed + 1 /\ done' = done
    BY <1>3 DEF CountFailed
  <2> QED
    BY <2>2, <2>3, <2>4, <1>1, <1>2 DEF CountersOK
<1>4. CASE CountDone(w)
  <2>1. w \in Uncounted /\ Uncounted' = Uncounted \ {w}
    BY <1>4 DEF CountDone, Goto, Uncounted, IInv, TypeOK
  <2>2. UncountedFailed' = UncountedFailed
    BY <1>4 DEF CountDone, Goto, UncountedFailed, IInv, TypeOK
  <2>3. Cardinality(Uncounted') = Cardinality(Uncounted) - 1
    BY <2>1, FiniteSets, FS_RemoveElement
  <2>4. failed' = failed /\ done' = done + 1
    BY <1>4 DEF CountDone
  <2> QED
    BY <2>2, <2>3, <2>4, <1>1, <1>2 DEF CountersOK
<1> QED
  BY <1>3, <1>4

\* The other steps of a worker do not touch what is counted.
LEMMA OtherCounters ==
  ASSUME IInv, CountersOK, NEW w \in Workers,
         SeeCancelled(w) \/ SeeClosed(w) \/ Take(w)
  PROVE  CountersOK'
<1>1. UNCHANGED <<outcome, errors, done, failed>>
  BY DEF SeeCancelled, SeeClosed, Take
<1>2. Uncounted' = Uncounted /\ UncountedFailed' = UncountedFailed
  BY DEF SeeCancelled, SeeClosed, Take, Goto, Uncounted, UncountedFailed, IInv, TypeOK
<1> QED
  BY <1>1, <1>2 DEF CountersOK, Executed

\* Every step keeps the counters in line.
LEMMA StepCounters == IInv /\ CountersOK /\ [Next]_vars => CountersOK'
<1> SUFFICES ASSUME IInv, CountersOK, [Next]_vars PROVE CountersOK'
  OBVIOUS
<1>1. ASSUME CallerStep \/ Cancel \/ UNCHANGED vars PROVE CountersOK'
  <2>1. UNCHANGED workerVars
    BY <1>1 DEF CallerStep, SubmitCount, SubmitSend, SubmitCancelled, WaitClose,
                WaitReturn, Publish, PublishFails, Cancel, vars
  <2> QED
    BY <2>1 DEF workerVars, CountersOK, Executed, Uncounted, UncountedFailed
<1>2. ASSUME NEW w \in Workers, WorkerStep(w) PROVE CountersOK'
  BY <1>2, ExecuteCounters, CountCounters, OtherCounters DEF WorkerStep
<1> QED
  BY <1>1, <1>2 DEF Next

\* When the workers have left nobody is about to count, and without a
\* cancellation they have emptied the channel.
LEMMA CountersThen == IInv /\ CountersOK => CountersTell
<1> SUFFICES ASSUME IInv, CountersOK, AllGone PROVE CountersTell
  BY DEF CountersTell
<1>1. Uncounted = {} /\ UncountedFailed = {}
  BY DEF AllGone, Uncounted, UncountedFailed
<1>2. done = Cardinality(Executed) /\ failed = Cardinality(errors)
  BY <1>1, FS_EmptySet DEF CountersOK, IInv, TypeOK
<1>3. ASSUME ~cancelled PROVE total = done
  <2>1. PICK w \in Workers : worker[w] = "gone"
    BY WorkersAssumption DEF AllGone
  <2>2. closed /\ queue = <<>> /\ next = NumTasks + 1 /\ total = NumTasks
    BY <2>1, <1>3, NumTasksAssumption DEF IInv, PlaceOK, TypeOK
  <2>3. Taken = NumTasks + 1
    BY <2>2, NumTasksAssumption DEF Taken
  <2>4. Executed = Tasks
    BY <2>3, NumTasksAssumption DEF IInv, HeldOK, AllGone, Executed, Tasks
  <2>5. Cardinality(Tasks) = NumTasks
    BY FS_Interval, NumTasksAssumption DEF Tasks
  <2> QED
    BY <2>2, <2>4, <2>5, <1>2
<1> QED
  BY <1>2, <1>3 DEF CountersTell, Executed

-----------------------------------------------------------------------------
\* The inductive invariant of the pool and its caller.
THEOREM Invariance == Spec => []IInv
<1> QED
  BY InitOK, StepKeeps, PTL DEF Spec

\* The variables of the pool keep their types.
THEOREM TypeCorrect == Spec => []TypeOK
<1>1. IInv => TypeOK
  BY DEF IInv
<1> QED
  BY <1>1, Invariance, PTL

\* However the pool was interrupted: the manifest goes up only with all blobs.
THEOREM PublishedAreCopied == Spec => []PublishedMeansCopied
<1>1. IInv => PublishedMeansCopied
  BY DEF IInv
<1> QED
  BY <1>1, Invariance, PTL

\* The final counters say what happened to the blobs.
THEOREM FinalCounters == Spec => []CountersTell
<1>1. Init => CountersOK
  BY InitCounters
<1>2. IInv /\ CountersOK /\ [Next]_vars => CountersOK'
  BY StepCounters
<1>3. IInv /\ CountersOK => CountersTell
  BY CountersThen
<1> QED
  BY <1>1, <1>2, <1>3, Invariance, PTL DEF Spec
-----------------------------------------------------------------------------
(* That the pool ends.  The prover knows no fairness, but what liveness    *)
(* rests on here can be said without it: nobody waits for somebody who     *)
(* cannot go on, and there is only so much to do.                          *)

\* A worker that is still there has a step: it is at work, or one of the
\* cases of its select is ready.
CanGoOn(w) ==
    \/ worker[w] \in {"execute", "countFailed", "count"}
    \/ worker[w] = "select" /\ (cancelled \/ closed \/ queue # <<>>)

\* A caller at a full channel finds workers that take from it, Wait waits only
\* for workers that can leave, and nobody is left behind by a return.
NobodyStuck ==
    /\ caller = "send" => \/ Len(queue) < Capacity \/ cancelled
                          \/ \A w \in Workers : CanGoOn(w)
    /\ caller \in {"wait", "returned"} =>
          \A w \in Workers : worker[w] = "gone" \/ CanGoOn(w)

\* The caller leaves workers behind only when they see the cancellation.
ReturnOK == caller = "returned" => cancelled \/ AllGone

At(places) == {w \in Workers : worker[w] \in places}

\* What the caller has before it, the pool, and the cancellation, if it comes.
CallerWork ==
    7 * (NumTasks + 1 - next)
    + CASE caller = "submit" -> 4 [] caller = "send" -> 3 [] caller = "wait" -> 2
        [] caller = "publish" -> 1 [] caller = "returned" -> 0

\* A worker has four steps before it when it executes, one when it selects.
WorkersWork ==
    Cardinality(At({"select", "count", "countFailed", "execute"}))
    + Cardinality(At({"count", "countFailed", "execute"}))
    + Cardinality(At({"countFailed", "execute"}))
    + Cardinality(At({"execute"}))

Work == CallerWork + 5 * Len(queue) + WorkersWork + (IF cancelled THEN 0 ELSE 1)

\* The workers are finitely many.
LEMMA AtFinite == \A P : IsFiniteSet(At(P)) /\ Cardinality(At(P)) \in Nat
<1> TAKE P
<1>1. At(P) \subseteq Workers
  BY DEF At
<1> QED
  BY <1>1, WorkersAssumption, FS_Subset, FS_CardinalityType

\* A worker that changes its place changes the count of a set of places by
\* at most itself.
LEMMA AtMoves ==
  ASSUME worker \in [Workers -> {"select", "execute", "countFailed", "count", "gone"}],
         NEW w \in Workers, NEW p, worker' = [worker EXCEPT ![w] = p],
         NEW P
  PROVE  Cardinality(At(P)') = Cardinality(At(P))
             + (IF p \in P THEN 1 ELSE 0) - (IF worker[w] \in P THEN 1 ELSE 0)
<1>1. IsFiniteSet(At(P)) /\ Cardinality(At(P)) \in Nat
  BY AtFinite
<1>2. CASE p \in P /\ worker[w] \notin P
  <2>1. At(P)' = At(P) \cup {w} /\ w \notin At(P)
    BY <1>2 DEF At
  <2> QED
    BY <1>1, <1>2, <2>1, FS_AddElement
<1>3. CASE p \notin P /\ worker[w] \in P
  <2>1. At(P)' = At(P) \ {w} /\ w \in At(P)
    BY <1>3 DEF At
  <2>2. Cardinality(At(P) \ {w}) = Cardinality(At(P)) - 1
    BY <1>1, <2>1, FS_RemoveElement
  <2>3. Cardinality(At(P)') = Cardinality(At(P)) - 1
    BY <2>1, <2>2
  <2> QED
    BY <1>1, <1>3, <2>3
<1>4. CASE (p \in P) = (worker[w] \in P)
  <2>1. At(P)' = At(P)
    BY <1>4 DEF At
  <2> QED
    BY <1>1, <1>4, <2>1
<1> QED
  BY <1>2, <1>3, <1>4

\* The work of the workers when one of them moves.
LEMMA WorkersMove ==
  ASSUME worker \in [Workers -> {"select", "execute", "countFailed", "count", "gone"}],
         NEW w \in Workers, NEW p, worker' = [worker EXCEPT ![w] = p]
  PROVE  /\ WorkersWork \in Nat /\ WorkersWork' \in Int
         /\ worker[w] = "select" /\ p = "gone" => WorkersWork' = WorkersWork - 1
         /\ worker[w] = "select" /\ p = "execute" => WorkersWork' = WorkersWork + 3
         /\ worker[w] = "execute" /\ p = "count" => WorkersWork' = WorkersWork - 2
         /\ worker[w] = "execute" /\ p = "countFailed" => WorkersWork' = WorkersWork - 1
         /\ worker[w] = "countFailed" /\ p = "count" => WorkersWork' = WorkersWork - 1
         /\ worker[w] = "count" /\ p = "select" => WorkersWork' = WorkersWork - 1
<1> DEFINE A == {"select", "count", "countFailed", "execute"}
           B == {"count", "countFailed", "execute"}
           C == {"countFailed", "execute"}
           D == {"execute"}
<1>1. \A P : Cardinality(At(P)) \in Nat
  BY AtFinite
<1>2. \A P : Cardinality(At(P)') = Cardinality(At(P))
          + (IF p \in P THEN 1 ELSE 0) - (IF worker[w] \in P THEN 1 ELSE 0)
  BY AtMoves
<1> HIDE DEF A, B, C, D
<1>3. /\ Cardinality(At(A)') = Cardinality(At(A))
            + (IF p \in A THEN 1 ELSE 0) - (IF worker[w] \in A THEN 1 ELSE 0)
      /\ Cardinality(At(B)') = Cardinality(At(B))
            + (IF p \in B THEN 1 ELSE 0) - (IF worker[w] \in B THEN 1 ELSE 0)
  BY <1>2
<1>4. /\ Cardinality(At(C)') = Cardinality(At(C))
            + (IF p \in C THEN 1 ELSE 0) - (IF worker[w] \in C THEN 1 ELSE 0)
      /\ Cardinality(At(D)') = Cardinality(At(D))
            + (IF p \in D THEN 1 ELSE 0) - (IF worker[w] \in D THEN 1 ELSE 0)
  BY <1>2
<1>5. /\ Cardinality(At(A)) \in Nat /\ Cardinality(At(B)) \in Nat
      /\ Cardinality(At(C)) \in Nat /\ Cardinality(At(D)) \in Nat
  BY <1>1
<1>6. /\ WorkersWork = Cardinality(At(A)) + Cardinality(At(B))
                       + Cardinality(At(C)) + Cardinality(At(D))
      /\ WorkersWork' = Cardinality(At(A)') + Cardinality(At(B)')
                        + Cardinality(At(C)') + Cardinality(At(D)')
  BY DEF WorkersWork, A, B, C, D
<1> QED
  BY <1>3, <1>4, <1>5, <1>6 DEF A, B, C, D

\* Every step, of whomever, leaves less to do.
LEMMA LessWork == ASSUME IInv, Next PROVE Work \in Nat /\ Work' < Work
<1> USE DEF callerVars, workerVars
<1>1. /\ worker \in [Workers -> {"select", "execute", "countFailed", "count", "gone"}]
      /\ next \in 1..(NumTasks + 1) /\ queue \in Seq(Tasks) /\ NumTasks \in Nat
      /\ caller \in {"submit", "send", "wait", "publish", "returned"}
  BY NumTasksAssumption DEF IInv, TypeOK
<1>2. CallerWork \in Nat /\ Len(queue) \in Nat
  BY <1>1 DEF CallerWork
<1>3. WorkersWork \in Nat
  <2>1. \A P : Cardinality(At(P)) \in Nat
    BY AtFinite
  <2> QED
    BY <2>1 DEF WorkersWork
<1>4. Work \in Nat
  BY <1>2, <1>3 DEF Work
<1>5. CASE UNCHANGED worker
  <2>1. WorkersWork' = WorkersWork
    BY <1>5 DEF WorkersWork, At
  <2>2. CASE SubmitSend
    <3>1. Len(queue') = Len(queue) + 1
      BY <1>1, <2>2 DEF SubmitSend
    <3>2. CallerWork' = CallerWork - 6
      BY <1>1, <2>2 DEF SubmitSend, CallerWork
    <3> QED
      BY <1>2, <1>3, <2>1, <2>2, <3>1, <3>2 DEF Work, SubmitSend
  <2>3. CASE Cancel
    <3>1. CallerWork' = CallerWork /\ queue' = queue
      BY <2>3 DEF CallerWork, Cancel
    <3> QED
      BY <1>2, <1>3, <2>1, <2>3, <3>1 DEF Work, Cancel
  <2>4. CASE SubmitCount \/ SubmitCancelled \/ WaitClose \/ WaitReturn
             \/ Publish \/ PublishFails
    <3>1. CallerWork' < CallerWork /\ CallerWork' \in Nat
      BY <1>1, <2>4 DEF CallerWork, SubmitCount, SubmitCancelled, WaitClose,
         WaitReturn, Publish, PublishFails
    <3>2. UNCHANGED <<queue, cancelled>>
      BY <2>4 DEF SubmitCount, SubmitCancelled, WaitClose,
         WaitReturn, Publish, PublishFails
    <3> QED
      BY <1>2, <1>3, <2>1, <3>1, <3>2 DEF Work
  <2>5. ASSUME NEW w \in Workers, WorkerStep(w) PROVE FALSE
    BY <1>1, <1>5, <2>5 DEF WorkerStep, Goto, SeeCancelled, SeeClosed, Take,
       ExecuteOk, ExecuteFails, CountFailed, CountDone
  <2> QED
    BY <1>4, <2>2, <2>3, <2>4, <2>5 DEF Next, CallerStep
<1>6. ASSUME NEW w \in Workers, WorkerStep(w) PROVE Work' < Work
  <2>1. CallerWork' = CallerWork /\ cancelled' = cancelled
    BY <1>6 DEF CallerWork, WorkerStep, SeeCancelled, SeeClosed, Take,
       ExecuteOk, ExecuteFails, CountFailed, CountDone
  <2>2. CASE Take(w)
    <3>1. WorkersWork' = WorkersWork + 3
      BY <1>1, <2>2, WorkersMove DEF Take, Goto
    <3>2. Len(queue') = Len(queue) - 1
      BY <1>1, <2>2 DEF Take
    <3> QED
      BY <1>2, <1>3, <2>1, <3>1, <3>2 DEF Work
  <2>3. CASE ~Take(w)
    <3>1. queue' = queue
      BY <1>6, <2>3 DEF WorkerStep, SeeCancelled, SeeClosed,
         ExecuteOk, ExecuteFails, CountFailed, CountDone
    <3>2. WorkersWork' < WorkersWork /\ WorkersWork' \in Int
      <4>1. PICK p : /\ worker' = [worker EXCEPT ![w] = p]
                     /\ \/ worker[w] = "select" /\ p = "gone"
                        \/ worker[w] = "execute" /\ p = "count"
                        \/ worker[w] = "execute" /\ p = "countFailed"
                        \/ worker[w] = "countFailed" /\ p = "count"
                        \/ worker[w] = "count" /\ p = "select"
        BY <1>6, <2>3 DEF WorkerStep, Goto, SeeCancelled, SeeClosed,
           ExecuteOk, ExecuteFails, CountFailed, CountDone
      <4>2. /\ WorkersWork' \in Int
            /\ \/ WorkersWork' = WorkersWork - 1
               \/ WorkersWork' = WorkersWork - 2
        BY <1>1, <4>1, WorkersMove
      <4> QED
        BY <1>3, <4>2
    <3> QED
      BY <1>2, <1>3, <2>1, <3>1, <3>2 DEF Work
  <2> QED
    BY <2>2, <2>3
<1>7. UNCHANGED worker \/ \E w \in Workers : WorkerStep(w)
  BY DEF Next, CallerStep, SubmitCount, SubmitSend, SubmitCancelled, WaitClose,
         WaitReturn, Publish, PublishFails, Cancel
<1> QED
  BY <1>4, <1>5, <1>6, <1>7

\* How the caller returns.
LEMMA ReturnKeeps == ASSUME IInv, ReturnOK, [Next]_vars PROVE ReturnOK'
<1> USE DEF ReturnOK, AllGone, vars, callerVars, workerVars
<1>1. CASE CallerStep
  BY <1>1 DEF CallerStep, SubmitCount, SubmitSend, SubmitCancelled, WaitClose,
     WaitReturn, Publish, PublishFails, IInv, PlaceOK
<1>2. ASSUME NEW w \in Workers, WorkerStep(w) PROVE ReturnOK'
  <2>1. UNCHANGED <<caller, cancelled>>
    BY <1>2 DEF WorkerStep, SeeCancelled, SeeClosed, Take,
       ExecuteOk, ExecuteFails, CountFailed, CountDone
  <2>2. worker[w] # "gone"
    BY <1>2 DEF WorkerStep, SeeCancelled, SeeClosed, Take,
       ExecuteOk, ExecuteFails, CountFailed, CountDone
  <2> QED
    BY <2>1, <2>2
<1> QED
  BY <1>1, <1>2 DEF Next, Cancel

\* Nobody waits for somebody who cannot go on.
LEMMA StuckNever == ASSUME IInv, ReturnOK PROVE NobodyStuck
<1>1. \A w \in Workers : worker[w] \in {"select", "execute", "countFailed", "count", "gone"}
  BY DEF IInv, TypeOK
<1>2. ASSUME caller = "send", ~(Len(queue) < Capacity), ~cancelled
      PROVE  \A w \in Workers : CanGoOn(w)
  <2>1. Cardinality(Workers) \in Nat /\ Cardinality(Workers) # 0
    BY WorkersAssumption, FS_CardinalityType, FS_EmptySet
  <2>2. queue # <<>>
    BY <1>2, <2>1 DEF Capacity
  <2>3. \A w \in Workers : worker[w] # "gone"
    BY <1>2 DEF IInv, PlaceOK
  <2> QED
    BY <1>1, <2>2, <2>3 DEF CanGoOn
<1>3. caller = "wait" => closed
  BY DEF IInv, PlaceOK
<1>4. caller = "returned" => cancelled \/ \A w \in Workers : worker[w] = "gone"
  BY DEF ReturnOK, AllGone
<1> QED
  BY <1>1, <1>2, <1>3, <1>4 DEF NobodyStuck, CanGoOn

\* Submit blocks on a full channel and Wait on the workers, and neither for
\* ever: there is a worker that can go on, unless what it waits for is there.
THEOREM NobodyWaitsInVain == Spec => []NobodyStuck
<1>1. Init => ReturnOK
  BY DEF Init, ReturnOK
<1>2. IInv /\ ReturnOK /\ [Next]_vars => ReturnOK'
  BY ReturnKeeps
<1>3. IInv /\ ReturnOK => NobodyStuck
  BY StuckNever
<1> QED
  BY <1>1, <1>2, <1>3, Invariance, PTL DEF Spec

\* The pool and its caller take finitely many steps, however they take turns:
\* what is left to do is a number that every step decreases.
THEOREM StepsRunOut == Spec => [][Work' < Work /\ Work \in Nat]_vars
<1>1. IInv /\ [Next]_vars => [Work' < Work /\ Work \in Nat]_vars
  BY LessWork
<1> QED
  BY <1>1, Invariance, PTL DEF Spec
=============================================================================
