----------------------------- MODULE WorkerPool ------------------------------
(***************************************************************************)
(* The pool that copies the blobs of one image in the command line tool:   *)
(* pkg/sync/worker.go, with its only caller, SyncSingleManifest of         *)
(* pkg/sync/engine.go, which submits one task per blob, waits, and uploads *)
(* the manifest if Wait returned nil.  The caller's context may be         *)
(* cancelled at any moment (SIGINT, cmd/cli/main.go).                      *)
(*                                                                         *)
(* The blobs are numbered 1..NumTasks in the order of submission.  A       *)
(* select with several ready cases takes any of them.                      *)
(***************************************************************************)
EXTENDS Naturals, Sequences, FiniteSets

CONSTANTS
    Workers,
    NumTasks,
    None

Tasks == 1..NumTasks

\* make(chan Task, workers*2)
Capacity == 2 * Cardinality(Workers)

ASSUME WorkersAssumption == IsFiniteSet(Workers) /\ Workers # {}
ASSUME NumTasksAssumption == NumTasks \in Nat
ASSUME NoneAssumption == None \notin Tasks

VARIABLES
    caller,     \* where SyncSingleManifest is
    next,       \* the next task it submits
    queue,      \* the channel taskCh
    closed,     \* taskCh is closed
    worker,     \* where each worker goroutine is
    holding,    \* the task it has taken
    outcome,    \* of each task: "none" while it has not been executed
    errors,     \* p.errors, the tasks that failed
    total, done, failed,   \* the atomic counters
    cancelled,  \* the context is cancelled
    result      \* what SyncSingleManifest returned: "none", "nil" or "error"

callerVars == <<caller, next, closed, total, result>>
workerVars == <<worker, holding, outcome, errors, done, failed>>
vars == <<callerVars, workerVars, queue, cancelled>>

Init ==
    /\ caller = "submit"
    /\ next = 1
    /\ queue = <<>>
    /\ closed = FALSE
    /\ worker = [w \in Workers |-> "select"]
    /\ holding = [w \in Workers |-> None]
    /\ outcome = [t \in Tasks |-> "none"]
    /\ errors = {}
    /\ total = 0 /\ done = 0 /\ failed = 0
    /\ cancelled = FALSE
    /\ result = "none"

-----------------------------------------------------------------------------
(* The caller.  Submit counts the task before it knows that it can queue it *)

SubmitCount ==
    /\ caller = "submit" /\ next <= NumTasks
    /\ total' = total + 1
    /\ caller' = "send"
    /\ UNCHANGED <<workerVars, next, queue, closed, cancelled, result>>

SubmitSend ==
    /\ caller = "send"
    /\ Len(queue) < Capacity
    /\ queue' = Append(queue, next)
    /\ next' = next + 1
    /\ caller' = "submit"
    /\ UNCHANGED <<workerVars, closed, total, cancelled, result>>

\* ctx.Done: Submit returns ctx.Err, the caller stops the pool and returns.
SubmitCancelled ==
    /\ caller = "send"
    /\ cancelled
    /\ caller' = "returned"
    /\ result' = "error"
    /\ UNCHANGED <<workerVars, next, queue, closed, total, cancelled>>

\* Mutant: the channel is not closed.
WaitNoClose ==
    /\ caller = "submit" /\ next > NumTasks
    /\ caller' = "wait"
    /\ UNCHANGED <<workerVars, next, queue, closed, total, cancelled, result>>

WaitClose ==
    /\ caller = "submit" /\ next > NumTasks
    /\ closed' = TRUE
    /\ caller' = "wait"
    /\ UNCHANGED <<workerVars, next, queue, total, cancelled, result>>

\* Mutant: Wait forgets the errors of its tasks.
WaitReturnNoErrors ==
    /\ caller = "wait"
    /\ \A w \in Workers : worker[w] = "gone"
    /\ caller' = "publish"
    /\ UNCHANGED <<workerVars, next, queue, closed, total, cancelled, result>>

\* wg.Wait returns; errors become the result, otherwise the upload follows.
WaitReturn ==
    /\ caller = "wait"
    /\ \A w \in Workers : worker[w] = "gone"
    /\ \/ errors = {} /\ caller' = "publish" /\ UNCHANGED result
       \/ errors # {} /\ caller' = "returned" /\ result' = "error"
    /\ UNCHANGED <<workerVars, next, queue, closed, total, cancelled>>

\* Mutant: the upload does not carry the context.
PublishNoContext ==
    /\ caller = "publish"
    /\ caller' = "returned"
    /\ result' = "nil"
    /\ UNCHANGED <<workerVars, next, queue, closed, total, cancelled>>

\* PutManifest carries the same context.
Publish ==
    /\ caller = "publish"
    /\ ~cancelled
    /\ caller' = "returned"
    /\ result' = "nil"
    /\ UNCHANGED <<workerVars, next, queue, closed, total, cancelled>>

PublishFails ==
    /\ caller = "publish"
    /\ caller' = "returned"
    /\ result' = "error"
    /\ UNCHANGED <<workerVars, next, queue, closed, total, cancelled>>

-----------------------------------------------------------------------------
(* A worker.                                                                *)

Goto(w, place) == worker' = [worker EXCEPT ![w] = place]

\* Mutant: a worker looks at the context only when it gets a task.
SeeCancelledLate(w) ==
    /\ worker[w] = "select"
    /\ cancelled /\ queue # <<>>
    /\ Goto(w, "gone")
    /\ UNCHANGED <<callerVars, holding, outcome, errors, done, failed, queue,
                   cancelled>>

SeeCancelled(w) ==
    /\ worker[w] = "select"
    /\ cancelled
    /\ Goto(w, "gone")
    /\ UNCHANGED <<callerVars, holding, outcome, errors, done, failed, queue,
                   cancelled>>

SeeClosed(w) ==
    /\ worker[w] = "select"
    /\ closed /\ queue = <<>>
    /\ Goto(w, "gone")
    /\ UNCHANGED <<callerVars, holding, outcome, errors, done, failed, queue,
                   cancelled>>

Take(w) ==
    /\ worker[w] = "select"
    /\ queue # <<>>
    /\ holding' = [holding EXCEPT ![w] = Head(queue)]
    /\ queue' = Tail(queue)
    /\ Goto(w, "execute")
    /\ UNCHANGED <<callerVars, outcome, errors, done, failed, cancelled>>

\* BlobSyncTask.Execute: the blob is there, or CopyBlob copies it in one of
\* its attempts.
ExecuteOk(w) ==
    /\ worker[w] = "execute"
    /\ ~cancelled
    /\ outcome' = [outcome EXCEPT ![holding[w]] = "ok"]
    /\ Goto(w, "count")
    /\ UNCHANGED <<callerVars, holding, errors, done, failed, queue,
                   cancelled>>

ExecuteFails(w) ==
    /\ worker[w] = "execute"
    /\ outcome' = [outcome EXCEPT ![holding[w]] = "failed"]
    /\ errors' = errors \cup {holding[w]}
    /\ Goto(w, "countFailed")
    /\ UNCHANGED <<callerVars, holding, done, failed, queue, cancelled>>

\* Mutant: a failed task is not counted as done.
CountFailedOnly(w) ==
    /\ worker[w] = "countFailed"
    /\ failed' = failed + 1
    /\ holding' = [holding EXCEPT ![w] = None]
    /\ Goto(w, "select")
    /\ UNCHANGED <<callerVars, outcome, errors, done, queue, cancelled>>

CountFailed(w) ==
    /\ worker[w] = "countFailed"
    /\ failed' = failed + 1
    /\ Goto(w, "count")
    /\ UNCHANGED <<callerVars, holding, outcome, errors, done, queue,
                   cancelled>>

CountDone(w) ==
    /\ worker[w] = "count"
    /\ done' = done + 1
    /\ holding' = [holding EXCEPT ![w] = None]
    /\ Goto(w, "select")
    /\ UNCHANGED <<callerVars, outcome, errors, failed, queue, cancelled>>

Cancel ==
    /\ ~cancelled
    /\ cancelled' = TRUE
    /\ UNCHANGED <<callerVars, workerVars, queue>>

-----------------------------------------------------------------------------
CallerStep == \/ SubmitCount \/ SubmitSend \/ SubmitCancelled
              \/ WaitClose \/ WaitReturn \/ Publish \/ PublishFails

WorkerStep(w) == \/ SeeCancelled(w) \/ SeeClosed(w) \/ Take(w)
                 \/ ExecuteOk(w) \/ ExecuteFails(w)
                 \/ CountFailed(w) \/ CountDone(w)

Next == CallerStep \/ (\E w \in Workers : WorkerStep(w)) \/ Cancel

Spec == Init /\ [][Next]_vars

-----------------------------------------------------------------------------
(* Properties.                                                              *)

\* The variables keep their types.
TypeOK ==
    /\ caller \in {"submit", "send", "wait", "publish", "returned"}
    /\ next \in 1..(NumTasks + 1)
    /\ queue \in Seq(Tasks)
    /\ closed \in BOOLEAN
    /\ worker \in [Workers -> {"select", "execute", "countFailed", "count",
                               "gone"}]
    /\ holding \in [Workers -> Tasks \cup {None}]
    /\ outcome \in [Tasks -> {"none", "ok", "failed"}]
    /\ errors \subseteq Tasks
    /\ total \in Nat /\ done \in Nat /\ failed \in Nat
    /\ cancelled \in BOOLEAN
    /\ result \in {"none", "nil", "error"}

\* The manifest is uploaded only when every blob of the image has been
\* copied, although a cancelled pool drops queued tasks and Wait then
\* returns nil: the upload would fail on the same context.
PublishedMeansCopied ==
    result = "nil" => \A t \in Tasks : outcome[t] = "ok"

AllGone == \A w \in Workers : worker[w] = "gone"

\* When all workers have left, the counters tell what happened: a task is
\* counted as done exactly when it was executed, as failed exactly when its
\* error was kept, and without a cancellation none is missing at the end.
CountersTell == AllGone =>
    /\ done = Cardinality({t \in Tasks : outcome[t] # "none"})
    /\ failed = Cardinality(errors)
    /\ ~cancelled => total = done

\* No worker goroutine is left behind, also when Submit fails and nobody
\* closes the channel.
NoLeak == caller = "returned" ~> AllGone
=============================================================================
