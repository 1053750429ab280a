------------------------------ MODULE Scheduler ------------------------------
(***************************************************************************)
(* The server's task scheduler, internal/scheduler/scheduler.go: the calls *)
(* of ExecuteTask (a "run" request or a cron trigger) and of CancelTask (a *)
(* "stop" request), the goroutines that carry out the runs, the rows of    *)
(* the executions table, and the process that may stop, die and restart.   *)
(*                                                                         *)
(* Nothing in the code orders two calls on the same task: s.running is a   *)
(* plain map, ExecuteTask reads it (line 101) and writes it (line 126)     *)
(* with two database statements in between, and CancelTask reads it (689)  *)
(* and deletes from it (695).  Those are the steps of the model.  A        *)
(* concurrent access that the Go runtime detects aborts the process, which *)
(* is one of the behaviours of Die.                                        *)
(*                                                                         *)
(* The transfer of tags and blobs inside a run is one phase here, "sync";  *)
(* module SyncRun opens it.                                                *)
(***************************************************************************)
CONSTANTS
    Tasks,         \* ids of the rows of sync_tasks
    WholeProject,  \* the tasks whose SourceRepo is "": they list a project
    Execs,         \* ids of the rows of executions; one is used once
    Callers,       \* goroutines that call ExecuteTask and CancelTask
    None           \* no entry, no task, no execution

ASSUME WholeProjectAssumption == WholeProject \subseteq Tasks
ASSUME NoneAssumption == None \notin Tasks \cup Execs

VARIABLES
    up,        \* the server process: "up", "stopping" (after Stop) or "down"
    pc,        \* where each caller is in ExecuteTask or CancelTask
    arg,       \* the taskID of that call
    mine,      \* the execution row the call has created
    running,   \* s.running; an entry stands for the run it can cancel
    status,    \* the Status column; "absent" before the row exists
    taskOf,    \* the TaskID column
    run,       \* the phase of the goroutine of each execution
    cancelled, \* the executions whose context is cancelled
    lost,      \* history: rows nobody will write to any more
    tainted    \* history: tasks whose calls have overlapped (see Check)

vars == <<up, pc, arg, mine, running, status, taskOf, run, cancelled, lost,
          tainted>>

Working == {"ping", "prepare", "sync", "failed", "ok"}
Live(e) == run[e] \in Working \cup {"notify"}
InFlight(c, t) == pc[c] \in {"checked", "created"} /\ arg[c] = t
LiveOf(t) == {e \in Execs : Live(e) /\ taskOf[e] = t}

Init ==
    /\ up = "up"
    /\ pc = [c \in Callers |-> "idle"]
    /\ arg = [c \in Callers |-> None]
    /\ mine = [c \in Callers |-> None]
    /\ running = [t \in Tasks |-> None]
    /\ status = [e \in Execs |-> "absent"]
    /\ taskOf = [e \in Execs |-> None]
    /\ run = [e \in Execs |-> "none"]
    /\ cancelled = {}
    /\ lost = {}
    /\ tainted = {}

-----------------------------------------------------------------------------
(* ExecuteTask, called by POST /tasks/:id/run and by the cron entries.  A   *)
(* call that finds an entry returns "task is already running" and changes   *)
(* nothing; GetTask and CreateExecution may return an error.                *)

Return(c) ==
    /\ pc' = [pc EXCEPT ![c] = "idle"]
    /\ arg' = [arg EXCEPT ![c] = None]

\* The call passes the check.  History: t is tainted when another call is
\* already past it, or when a run of t is alive although it has no entry.
Check(c, t) ==
    /\ up = "up"
    /\ pc[c] = "idle"
    /\ running[t] = None
    /\ pc' = [pc EXCEPT ![c] = "checked"]
    /\ arg' = [arg EXCEPT ![c] = t]
    /\ tainted' = IF LiveOf(t) # {} \/ \E d \in Callers : InFlight(d, t)
                  THEN tainted \cup {t} ELSE tainted
    /\ UNCHANGED <<up, mine, running, status, taskOf, run, cancelled, lost>>

ExecuteFails(c) ==
    /\ pc[c] = "checked"
    /\ Return(c)
    /\ UNCHANGED <<up, mine, running, status, taskOf, run, cancelled, lost,
                   tainted>>

CreateExecution(c, e) ==
    /\ pc[c] = "checked"
    /\ status[e] = "absent"
    /\ status' = [status EXCEPT ![e] = "running"]
    /\ taskOf' = [taskOf EXCEPT ![e] = arg[c]]
    /\ mine' = [mine EXCEPT ![c] = e]
    /\ pc' = [pc EXCEPT ![c] = "created"]
    /\ UNCHANGED <<up, arg, running, run, cancelled, lost, tainted>>

\* Mutant: the entry is not stored.
RegisterNoEntry(c) ==
    /\ pc[c] = "created"
    /\ run' = [run EXCEPT ![mine[c]] = "ping"]
    /\ mine' = [mine EXCEPT ![c] = None]
    /\ Return(c)
    /\ UNCHANGED <<up, running, status, taskOf, cancelled, lost, tainted>>

\* A fresh context, the entry, and the goroutine; the call returns nil.
Register(c) ==
    /\ pc[c] = "created"
    /\ running' = [running EXCEPT ![arg[c]] = mine[c]]
    /\ run' = [run EXCEPT ![mine[c]] = "ping"]
    /\ mine' = [mine EXCEPT ![c] = None]
    /\ Return(c)
    /\ UNCHANGED <<up, status, taskOf, cancelled, lost, tainted>>

-----------------------------------------------------------------------------
(* CancelTask, called by POST /tasks/:id/stop: it calls the cancel function *)
(* it has read, then deletes whatever the map holds for the task.           *)

CancelTask(c, t) ==
    /\ up = "up"
    /\ pc[c] = "idle"
    /\ running[t] # None
    /\ cancelled' = cancelled \cup {running[t]}
    /\ pc' = [pc EXCEPT ![c] = "deleting"]
    /\ arg' = [arg EXCEPT ![c] = t]
    /\ UNCHANGED <<up, mine, running, status, taskOf, run, lost, tainted>>

\* History: t is tainted when a run of t is still alive.
DeleteEntry(c) ==
    /\ pc[c] = "deleting"
    /\ running' = [running EXCEPT ![arg[c]] = None]
    /\ tainted' = IF LiveOf(arg[c]) # {} THEN tainted \cup {arg[c]}
                                         ELSE tainted
    /\ Return(c)
    /\ UNCHANGED <<up, mine, status, taskOf, run, cancelled, lost>>

-----------------------------------------------------------------------------
(* The goroutine of a run: runTask, then the verdict, the notification and  *)
(* the deferred delete.  A phase ends with the answer to its last request.  *)

Phase(e, from, to) == run[e] = from /\ run' = [run EXCEPT ![e] = to]

\* Both registries loaded and both pings answered; a cancelled context
\* fails the request.
PingOk(e) ==
    /\ Phase(e, "ping", "prepare")
    /\ e \notin cancelled
    /\ UNCHANGED <<up, pc, arg, mine, running, status, taskOf, cancelled,
                   lost, tainted>>

\* Mutant: the project's repositories are listed without the context.
PrepareOkNoContext(e) ==
    /\ Phase(e, "prepare", "sync")
    /\ UNCHANGED <<up, pc, arg, mine, running, status, taskOf, cancelled,
                   lost, tainted>>

\* The target project exists, is created, or cannot be checked (264: logged
\* only); a whole-project task then has to list the project's repositories.
PrepareOk(e) ==
    /\ Phase(e, "prepare", "sync")
    /\ taskOf[e] \in WholeProject => e \notin cancelled
    /\ UNCHANGED <<up, pc, arg, mine, running, status, taskOf, cancelled,
                   lost, tainted>>

\* Mutant: the failure branch does not save the row.
RunFailsNoSave(e) ==
    /\ Phase(e, "ping", "notify") \/ Phase(e, "prepare", "notify")
    /\ UNCHANGED <<up, pc, arg, mine, running, status, taskOf, cancelled,
                   lost, tainted>>

RunFails(e) ==
    /\ Phase(e, "ping", "failed") \/ Phase(e, "prepare", "failed")
    /\ UNCHANGED <<up, pc, arg, mine, running, status, taskOf, cancelled,
                   lost, tainted>>

\* Mutant: a cancelled run waits instead of failing its requests.
SyncEndsIfLive(e) ==
    /\ Phase(e, "sync", "ok")
    /\ e \notin cancelled
    /\ UNCHANGED <<up, pc, arg, mine, running, status, taskOf, cancelled,
                   lost, tainted>>

\* From the analysis on runTask logs and counts errors, a cancelled context
\* included, and returns nil.
SyncEnds(e) ==
    /\ Phase(e, "sync", "ok")
    /\ UNCHANGED <<up, pc, arg, mine, running, status, taskOf, cancelled,
                   lost, tainted>>

\* Mutants: the failure branch falls through to the success branch; the
\* status is one the models know and nothing else uses (execution.go:15).
SaveFallsThrough(e) ==
    /\ \/ Phase(e, "failed", "ok")
       \/ Phase(e, "ok", "notify")
    /\ status' = [status EXCEPT ![e] = IF run[e] = "ok" THEN "success"
                                                         ELSE "failed"]
    /\ UNCHANGED <<up, pc, arg, mine, running, taskOf, cancelled, lost,
                   tainted>>

SaveCanceled(e) ==
    /\ \/ Phase(e, "failed", "notify")
       \/ Phase(e, "ok", "notify")
    /\ status' = [status EXCEPT ![e] = IF e \in cancelled THEN "canceled"
                                                          ELSE "success"]
    /\ UNCHANGED <<up, pc, arg, mine, running, taskOf, cancelled, lost,
                   tainted>>

\* s.store.UpdateExecution with the verdict.
Save(e) ==
    /\ \/ Phase(e, "failed", "notify")
       \/ Phase(e, "ok", "notify")
    /\ status' = [status EXCEPT ![e] = IF run[e] = "ok" THEN "success"
                                                         ELSE "failed"]
    /\ UNCHANGED <<up, pc, arg, mine, running, taskOf, cancelled, lost,
                   tainted>>

\* The same when the database refuses the statement: the error is ignored.
SaveRefused(e) ==
    /\ \/ Phase(e, "failed", "notify")
       \/ Phase(e, "ok", "notify")
    /\ lost' = lost \cup {e}
    /\ UNCHANGED <<up, pc, arg, mine, running, status, taskOf, cancelled,
                   tainted>>

\* Mutant: the deferred delete is missing.
ExitKeepsEntry(e) ==
    /\ Phase(e, "notify", "gone")
    /\ UNCHANGED <<up, pc, arg, mine, running, status, taskOf, cancelled,
                   lost, tainted>>

\* Notification sent or given up; the deferred delete removes whatever the
\* map holds for the task.
Exit(e) ==
    /\ Phase(e, "notify", "gone")
    /\ running' = [running EXCEPT ![taskOf[e]] = None]
    /\ UNCHANGED <<up, pc, arg, mine, status, taskOf, cancelled, lost,
                   tainted>>

-----------------------------------------------------------------------------
(* The process.  Stop runs when main returns; it waits for no run.          *)

Stop ==
    /\ up = "up"
    /\ up' = "stopping"
    /\ cancelled' = cancelled \cup ({running[t] : t \in Tasks} \ {None})
    /\ UNCHANGED <<pc, arg, mine, running, status, taskOf, run, lost, tainted>>

\* main returns, log.Fatalf, a panic, a fatal map error or a kill: the
\* memory is gone, the rows stay as they are.
Die ==
    /\ up \in {"up", "stopping"}
    /\ up' = "down"
    /\ pc' = [c \in Callers |-> "idle"]
    /\ arg' = [c \in Callers |-> None]
    /\ mine' = [c \in Callers |-> None]
    /\ running' = [t \in Tasks |-> None]
    /\ run' = [e \in Execs |-> IF run[e] = "none" /\ status[e] = "absent"
                               THEN "none" ELSE "gone"]
    /\ cancelled' = {}
    /\ lost' = lost \cup {e \in Execs : status[e] = "running"}
    /\ tainted' = {}
    /\ UNCHANGED <<status, taskOf>>

\* NewStore, NewScheduler and Start look at no execution row.
Restart ==
    /\ up = "down"
    /\ up' = "up"
    /\ UNCHANGED <<pc, arg, mine, running, status, taskOf, run, cancelled,
                   lost, tainted>>

-----------------------------------------------------------------------------
CallStep(c) ==
    \/ ExecuteFails(c)
    \/ \E e \in Execs : CreateExecution(c, e)
    \/ Register(c)
    \/ DeleteEntry(c)

RunStep(e) ==
    \/ PingOk(e)
    \/ PrepareOk(e)
    \/ RunFails(e)
    \/ SyncEnds(e)
    \/ Save(e)
    \/ SaveRefused(e)
    \/ Exit(e)

Next ==
    \/ \E c \in Callers, t \in Tasks : Check(c, t) \/ CancelTask(c, t)
    \/ \E c \in Callers : CallStep(c)
    \/ \E e \in Execs : RunStep(e)
    \/ Stop
    \/ Die
    \/ Restart

Spec == Init /\ [][Next]_vars

\* The Go scheduler runs every goroutine, and every request of a run ends:
\* the registry client has a timeout of 300 s.  Nothing is assumed of new
\* calls, of the process's end or of its restart.
Fairness ==
    /\ \A c \in Callers : WF_vars(CallStep(c))
    /\ \A e \in Execs : WF_vars(RunStep(e))

FairSpec == Spec /\ Fairness

-----------------------------------------------------------------------------
(* Properties.                                                              *)

Phases == {"none", "gone", "notify"} \cup Working

\* The variables keep their types.
TypeOK ==
    /\ up \in {"up", "stopping", "down"}
    /\ pc \in [Callers -> {"idle", "checked", "created", "deleting"}]
    /\ arg \in [Callers -> Tasks \cup {None}]
    /\ mine \in [Callers -> Execs \cup {None}]
    /\ running \in [Tasks -> Execs \cup {None}]
    /\ status \in [Execs -> {"absent", "running", "success", "failed"}]
    /\ taskOf \in [Execs -> Tasks \cup {None}]
    /\ run \in [Execs -> Phases]
    /\ cancelled \subseteq Execs
    /\ lost \subseteq Execs
    /\ tainted \subseteq Tasks

\* Whatever deletes and overwrites happen, an entry of s.running never
\* outlives its run and never belongs to another task: a "stop" that answers
\* "task stopped" has cancelled a run of that very task, and a task is never
\* blocked by a leftover entry ("already running" with nothing running).
EntryIsLive ==
    \A t \in Tasks : running[t] # None =>
        Live(running[t]) /\ taskOf[running[t]] = t

\* The check of ExecuteTask serialises the runs of a task except after two
\* calls overlapped between check and registration, or after a stop removed
\* the entry of a run that had not ended: without those, every live run is
\* the one the map can cancel, so there is at most one, and no call is on
\* its way to start a second.
SerialisedRuns ==
    \A t \in Tasks \ tainted :
        /\ \A e \in LiveOf(t) : running[t] = e
        /\ \A c, d \in Callers : InFlight(c, t) /\ InFlight(d, t) => c = d
        /\ \A c \in Callers : InFlight(c, t) => running[t] = None

\* A row that says "running" has a goroutine, or a call about to start one,
\* or can never be corrected: nothing else leaves such a row behind.
RunningIsLiveOrLost ==
    \A e \in Execs : status[e] = "running" =>
        \/ run[e] \in Working
        \/ \E c \in Callers : pc[c] = "created" /\ mine[c] = e
        \/ e \in lost

\* The table keeps the promise of ExecutionLedger: however many goroutines a
\* task has, a row gets one verdict, once, and an orphaned row is never
\* picked up again ...
Ledger == INSTANCE ExecutionLedger WITH record <- status, orphans <- lost
KeepsLedger == Ledger!Spec

\* ... and every row that is not orphaned gets its verdict.
ClosesLedger == Ledger!FairSpec

\* A task is not blocked for ever: its entry is removed some day.
EntryRemoved == \A t \in Tasks : running[t] # None ~> running[t] = None

\* A run stopped before both registries answered is reported as failed; so
\* is a whole-project run stopped before its repositories are listed.
EarlyStopFails ==
    \A e \in Execs :
        (/\ e \in cancelled
         /\ \/ run[e] = "ping"
            \/ run[e] = "prepare" /\ taskOf[e] \in WholeProject)
            ~> (status[e] = "failed" \/ e \in lost)

-----------------------------------------------------------------------------
(* What a comment says, and the code does not do.                           *)

\* scheduler.go:100 "Check if task is already running": a task has one run.
AtMostOneRun == \A t \in Tasks : \A e, f \in LiveOf(t) : e = f

=============================================================================
