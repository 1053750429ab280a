----------------------------- MODULE TaskCatalog -----------------------------
(***************************************************************************)
(* What the web server keeps besides executions, and who depends on it:    *)
(* the rows of tasks, registries and notification channels, which the      *)
(* handlers of internal/api/handlers create, save and delete through       *)
(* internal/db/store; the cron entries that the scheduler makes of the     *)
(* tasks when it starts, and never again; the runs, which read the rows    *)
(* step by step while they change; and the messages at a run's end         *)
(* (sendNotification, pkg/notification/notifier.go).  The module Scheduler *)
(* has what this one leaves out: how runs of a task exclude each other,    *)
(* their stops, and the execution rows.                                    *)
(*                                                                         *)
(* Of the database (gorm and sqlite, external) this is used: a column with *)
(* `default:true` is inserted as true when the value is false; Save        *)
(* updates the row of the id unless it is deleted, and otherwise inserts   *)
(* it, over a deleted one too; a unique name counts deleted rows; a delete *)
(* only marks the row, and every read leaves marked rows out.              *)
(***************************************************************************)
EXTENDS Naturals, Sequences

CONSTANTS
    Registries, Tasks, Channels,    \* ids
    Names,                          \* of tasks
    Passwords,
    Handlers,       \* goroutines of requests of more than one statement
    Runs,
    None,           \* the id 0, the name "", the password ""
    Present,        \* registries and channels that may be there at first
    Bodies,         \* what the task form sends
    MaxEdits        \* bound: requests that change rows

\* A task, as far as this module goes: `cron` is its expression, which cron
\* may not accept, and `notify` the condition of its messages.
Body == [name: Names \cup {None},
         source: Registries \cup {None}, target: Registries \cup {None},
         enabled: BOOLEAN, cron: {"none", "good", "bad"},
         notify: {"off", "all", "failed"}, channels: SUBSET Channels]

ASSUME BodiesAssumption == Bodies \subseteq Body
ASSUME NoneAssumption == None \notin Registries \cup Names \cup Passwords
ASSUME MaxEditsAssumption == MaxEdits \in Nat

\* What the task list sends to switch a task: nothing but the switch.
Switch(on) ==
    [name |-> None, source |-> None, target |-> None, enabled |-> on,
     cron |-> "none", notify |-> "off", channels |-> {}]

VARIABLES
    registry,   \* id -> "absent", "live" or "deleted"
    password,   \* of each registry
    row,        \* id of a task -> "absent", "live" or "deleted"
    task,       \* id -> what the row says
    channel,    \* id -> "absent", "on", "off" or "deleted"
    handler,    \* the requests under way: CreateTask, or a blank UpdateRegistry
    edits,      \* requests so far
    entries,    \* the tasks of the cron entries
    run,        \* the runs
    sent,       \* registry -> the passwords sent for it, in their order
    overtaken,  \* registries that were sent one during a blank update
    asked,      \* task -> [enabled, cron], what its users asked for
    atStart     \* [row, asked] when the server was started

secrets == <<password, sent, overtaken>>
catalog == <<registry, secrets, row, task, channel, asked>>
vars == <<catalog, handler, edits, entries, run, atStart>>

Idle == [at |-> "idle", id |-> None, body |-> Switch(FALSE), password |-> None]

NoRun == [at |-> "none", task |-> None,
          snapshot |-> Switch(FALSE), alive |-> {}, verdict |-> "none",
          told |-> [c \in Channels |-> "none"]]

\* The tasks that Start schedules.
Scheduled(r, t) ==
    {x \in Tasks : r[x] = "live" /\ t[x].enabled /\ t[x].cron = "good"}

Init ==
    /\ \E here \in Present :
         /\ registry = [r \in Registries |-> IF r \in here THEN "live" ELSE "absent"]
         /\ password \in [Registries -> Passwords]
         /\ channel = [c \in Channels |-> IF c \in here THEN "on" ELSE "absent"]
    /\ sent = [r \in Registries |->
                 IF registry[r] = "live" THEN <<password[r]>> ELSE <<>>]
    /\ overtaken = {}
    /\ \E first \in Tasks, b \in Bodies :
         /\ row = [t \in Tasks |-> IF t = first THEN "live" ELSE "absent"]
         /\ task = [t \in Tasks |-> IF t = first THEN b ELSE Switch(FALSE)]
    /\ handler = [h \in Handlers |-> Idle] /\ edits = 0
    /\ entries = Scheduled(row, task)
    /\ run = [r \in Runs |-> NoRun]
    /\ asked = [t \in Tasks |-> [enabled |-> task[t].enabled, cron |-> task[t].cron]]
    /\ atStart = [row |-> row, asked |-> asked]

-----------------------------------------------------------------------------
(* The store.                                                               *)

NameFree(t, name) ==
    \A u \in Tasks \ {t} : row[u] # "absent" => task[u].name # name

\* The column's default takes the place of a switch that is off.
Inserted(body) == [body EXCEPT !.enabled = TRUE]

\* Create, and Save of a row that is not there, or of one that is.
Insert(t, body) ==
    /\ NameFree(t, body.name)
    /\ row' = [row EXCEPT ![t] = "live"]
    /\ task' = [task EXCEPT ![t] = Inserted(body)]

Save(t, body) ==
    IF row[t] # "live" THEN Insert(t, body)
    ELSE /\ NameFree(t, body.name)
         /\ task' = [task EXCEPT ![t] = body]
         /\ UNCHANGED row

Found(g) == g # None /\ registry[g] = "live"

\* A registry that appears is seen by the runs that are looking for it.
SetRegistry(r, there) ==
    /\ registry' = [registry EXCEPT ![r] = there]
    /\ run' = [x \in Runs |-> [run[x] EXCEPT !.alive =
                  IF there = "live" THEN @ \cup {r} ELSE @]]

-----------------------------------------------------------------------------
(* The handlers.                                                            *)

Edit == edits < MaxEdits /\ edits' = edits + 1

\* CreateTask looks for both registries, then inserts.
CreateTask(h, body) ==
    /\ handler[h].at = "idle" /\ Edit
    /\ Found(body.source)
    /\ handler' = [handler EXCEPT ![h] = [Idle EXCEPT !.at = "target", !.body = body]]
    /\ UNCHANGED <<catalog, entries, run, atStart>>

CreateTaskTarget(h) ==
    /\ handler[h].at = "target"
    /\ handler' = [handler EXCEPT ![h] =
                     IF Found(@.body.target) THEN [@ EXCEPT !.at = "insert"] ELSE Idle]
    /\ UNCHANGED <<catalog, edits, entries, run, atStart>>

CreateTaskInsert(h) ==
    /\ handler[h].at = "insert"
    /\ LET body == handler[h].body IN
       \/ \E t \in Tasks :
            /\ row[t] = "absent"
            /\ Insert(t, body)
            /\ asked' = [asked EXCEPT ![t] = [enabled |-> body.enabled,
                                              cron |-> body.cron]]
       \/ UNCHANGED <<row, task, asked>>
    /\ handler' = [handler EXCEPT ![h] = Idle]
    /\ UNCHANGED <<registry, secrets, channel, edits, entries, run, atStart>>

\* UpdateTask, as the form sends it and as the switch of the list does.
EditTask(t, body) ==
    /\ Edit
    /\ Save(t, body)
    /\ asked' = [asked EXCEPT ![t] = [enabled |-> body.enabled, cron |-> body.cron]]
    /\ UNCHANGED <<registry, secrets, channel, handler, entries, run, atStart>>

ToggleTask(t, on) ==
    /\ Edit
    /\ row[t] # "absent"
    /\ Save(t, Switch(on))
    /\ asked' = [asked EXCEPT ![t].enabled = on]
    /\ UNCHANGED <<registry, secrets, channel, handler, entries, run, atStart>>

DeleteTask(t) ==
    /\ Edit
    /\ row[t] = "live"
    /\ row' = [row EXCEPT ![t] = "deleted"]
    /\ UNCHANGED <<registry, secrets, task, channel, asked, handler, entries,
                   run, atStart>>

\* A password that comes with a request.
Sends(r, pw) ==
    /\ password' = [password EXCEPT ![r] = pw]
    /\ sent' = [sent EXCEPT ![r] = Append(@, pw)]
    /\ overtaken' = overtaken \cup
         {g \in {r} : \E h \in Handlers : handler[h].at = "save" /\ handler[h].id = g}

CreateRegistry(r, pw) ==
    /\ Edit
    /\ registry[r] = "absent"
    /\ SetRegistry(r, "live")
    /\ Sends(r, pw)
    /\ UNCHANGED <<row, task, channel, asked, handler, entries, atStart>>

\* UpdateRegistry with a password: one statement, whatever row it finds.
UpdateRegistry(r, pw) ==
    /\ Edit
    /\ SetRegistry(r, "live")
    /\ Sends(r, pw)
    /\ UNCHANGED <<row, task, channel, asked, handler, entries, atStart>>

\* Mutant: the blank is saved as it came.
ReadPasswordBlank(h, r) ==
    /\ handler[h].at = "idle" /\ Edit
    /\ registry[r] = "live"
    /\ handler' = [handler EXCEPT ![h] = [Idle EXCEPT !.at = "save", !.id = r]]
    /\ UNCHANGED <<catalog, entries, run, atStart>>

\* UpdateRegistry with a blank password reads the stored one, and saves then
\* what it has read.
ReadPassword(h, r) ==
    /\ handler[h].at = "idle" /\ Edit
    /\ registry[r] = "live"
    /\ handler' = [handler EXCEPT ![h] = [Idle EXCEPT !.at = "save", !.id = r,
                                                     !.password = password[r]]]
    /\ UNCHANGED <<catalog, entries, run, atStart>>

SavePassword(h) ==
    /\ handler[h].at = "save"
    /\ SetRegistry(handler[h].id, "live")
    /\ password' = [password EXCEPT ![handler[h].id] = handler[h].password]
    /\ handler' = [handler EXCEPT ![h] = Idle]
    /\ UNCHANGED <<row, task, channel, asked, sent, overtaken, edits, entries,
                   atStart>>

DeleteRegistry(r) ==
    /\ Edit
    /\ registry[r] = "live"
    /\ SetRegistry(r, "deleted")
    /\ UNCHANGED <<secrets, row, task, channel, asked, handler, entries, atStart>>

\* Create and Update of a channel; a channel that is inserted is on.
SaveChannel(c, on) ==
    /\ Edit
    /\ channel' = [channel EXCEPT ![c] =
                     IF on \/ channel[c] \in {"absent", "deleted"} THEN "on" ELSE "off"]
    /\ UNCHANGED <<registry, secrets, row, task, asked, handler, entries, run,
                   atStart>>

DeleteChannel(c) ==
    /\ Edit
    /\ channel[c] \in {"on", "off"}
    /\ channel' = [channel EXCEPT ![c] = "deleted"]
    /\ UNCHANGED <<registry, secrets, row, task, asked, handler, entries, run,
                   atStart>>

-----------------------------------------------------------------------------
(* The scheduler.                                                           *)

\* The server is stopped or dies, and is started again.  An expression that
\* cron does not accept is logged.
Start ==
    /\ handler' = [h \in Handlers |-> Idle]
    /\ entries' = Scheduled(row, task)
    /\ run' = [r \in Runs |-> IF run[r].at \in {"none", "done"} THEN run[r]
                              ELSE [run[r] EXCEPT !.at = "lost"]]
    /\ atStart' = [row |-> row, asked |-> asked]
    /\ UNCHANGED <<catalog, edits>>

\* ExecuteTask: the row is read once.  The run button begins a run of any
\* task, so the cron entries add none.
ExecuteTask(r, t) ==
    /\ run[r].at = "none"
    /\ row[t] = "live"
    /\ run' = [run EXCEPT ![r] =
                 [NoRun EXCEPT !.at = "source", !.task = t, !.snapshot = task[t],
                    !.alive = {g \in Registries : registry[g] = "live"}]]
    /\ UNCHANGED <<catalog, handler, edits, entries, atStart>>

Ends(r, verdict) ==
    run' = [run EXCEPT ![r].at = "notify", ![r].verdict = verdict]

\* Mutant: the target that was loaded with the task is good enough.
LoadSourceOnly(r) ==
    /\ run[r].at = "source"
    /\ \/ /\ Found(run[r].snapshot.source)
          /\ run' = [run EXCEPT ![r].at = "transfer"]
       \/ ~Found(run[r].snapshot.source) /\ Ends(r, "failed")
    /\ UNCHANGED <<catalog, handler, edits, entries, atStart>>

\* runTask: the source's row, the target's, and what the module SyncRun does.
LoadSource(r) ==
    /\ run[r].at = "source"
    /\ \/ /\ Found(run[r].snapshot.source)
          /\ run' = [run EXCEPT ![r].at = "target"]
       \/ ~Found(run[r].snapshot.source) /\ Ends(r, "failed")
    /\ UNCHANGED <<catalog, handler, edits, entries, atStart>>

LoadTarget(r) ==
    /\ run[r].at = "target"
    /\ \/ /\ Found(run[r].snapshot.target)
          /\ run' = [run EXCEPT ![r].at = "transfer"]
       \/ ~Found(run[r].snapshot.target) /\ Ends(r, "failed")
    /\ UNCHANGED <<catalog, handler, edits, entries, atStart>>

Transferred(r) ==
    /\ run[r].at = "transfer"
    /\ \E verdict \in {"success", "failed"} : Ends(r, verdict)
    /\ UNCHANGED <<catalog, handler, edits, entries, atStart>>

\* sendNotification: whether there is anything to tell.
Tells(x) == \/ x.snapshot.notify = "all"
            \/ x.snapshot.notify = "failed" /\ x.verdict = "failed"

Untold(x) == {c \in x.snapshot.channels : Tells(x) /\ x.told[c] = "none"}

\* Mutant: a channel that cannot be loaded ends the round.
TellOrStop(r, c) ==
    /\ run[r].at = "notify" /\ c \in Untold(run[r])
    /\ IF channel[c] = "on"
       THEN \E end \in {"sent", "failed"} : run' = [run EXCEPT ![r].told[c] = end]
       ELSE run' = [run EXCEPT ![r].at = "done"]
    /\ UNCHANGED <<catalog, handler, edits, entries, atStart>>

\* One channel of the list: it is read now, and skipped when it is missing
\* or off.  A message that fails is logged.
Tell(r, c) ==
    /\ run[r].at = "notify" /\ c \in Untold(run[r])
    /\ \E end \in (IF channel[c] = "on" THEN {"sent", "failed"} ELSE {"skipped"}) :
         run' = [run EXCEPT ![r].told[c] = end]
    /\ UNCHANGED <<catalog, handler, edits, entries, atStart>>

\* Mutant: the run waits for a message that has failed.
AllToldSent(r) ==
    /\ run[r].at = "notify" /\ Untold(run[r]) = {}
    /\ \A c \in Channels : run[r].told[c] # "failed"
    /\ run' = [run EXCEPT ![r].at = "done"]
    /\ UNCHANGED <<catalog, handler, edits, entries, atStart>>

AllTold(r) ==
    /\ run[r].at = "notify" /\ Untold(run[r]) = {}
    /\ run' = [run EXCEPT ![r].at = "done"]
    /\ UNCHANGED <<catalog, handler, edits, entries, atStart>>

-----------------------------------------------------------------------------
RunStep(r) == \/ LoadSource(r) \/ LoadTarget(r) \/ Transferred(r) \/ AllTold(r)
              \/ \E c \in Channels : Tell(r, c)

Handle(h) ==
    \/ \E b \in Bodies : CreateTask(h, b)
    \/ CreateTaskTarget(h) \/ CreateTaskInsert(h)
    \/ (\E r \in Registries : ReadPassword(h, r)) \/ SavePassword(h)

Admin ==
    \/ \E h \in Handlers : Handle(h)
    \/ \E t \in Tasks :
         \/ DeleteTask(t)
         \/ \E b \in Bodies : EditTask(t, b)
         \/ \E on \in BOOLEAN : ToggleTask(t, on)
    \/ \E r \in Registries :
         \/ DeleteRegistry(r)
         \/ \E pw \in Passwords \cup {None} : CreateRegistry(r, pw)
         \/ \E pw \in Passwords : UpdateRegistry(r, pw)
    \/ \E c \in Channels :
         DeleteChannel(c) \/ \E on \in BOOLEAN : SaveChannel(c, on)

Next == \/ Admin \/ Start
        \/ \E r \in Runs : RunStep(r) \/ \E t \in Tasks : ExecuteTask(r, t)

\* The goroutine of a run is run, its transfer ends (SyncRun shows it) and a
\* message ends, by its timeout of 10 s at the latest.
Spec == Init /\ [][Next]_vars /\ \A r \in Runs : WF_vars(RunStep(r))

-----------------------------------------------------------------------------
(* Properties.                                                              *)

\* The variables keep their types.
CatalogTypeOK ==
    /\ registry \in [Registries -> {"absent", "live", "deleted"}]
    /\ password \in [Registries -> Passwords \cup {None}]
    /\ row \in [Tasks -> {"absent", "live", "deleted"}]
    /\ task \in [Tasks -> Body]
    /\ channel \in [Channels -> {"absent", "on", "off", "deleted"}]
    /\ handler \in [Handlers ->
                      [at: {"idle", "target", "insert", "save"},
                       id: Registries \cup {None}, body: Body,
                       password: Passwords \cup {None}]]
    /\ sent \in [Registries -> Seq(Passwords \cup {None})]
    /\ overtaken \subseteq Registries
    /\ edits \in 0..MaxEdits
    /\ entries \subseteq Tasks
    /\ run \in [Runs -> [at: {"none", "source", "target", "transfer", "notify",
                              "done", "lost"},
                         task: Tasks \cup {None}, snapshot: Body, alive: SUBSET Registries,
                         verdict: {"none", "success", "failed"},
                         told: [Channels -> {"none", "sent", "failed", "skipped"}]]]

\* Whatever was deleted, switched or saved in part meanwhile: a run
\* transfers only between two registries that were each there at some time
\* since it began, and a task that has lost its registries fails.
TransferHasRegistries == \A r \in Runs :
    run[r].at = "transfer" \/ run[r].verdict = "success" =>
        {run[r].snapshot.source, run[r].snapshot.target} \subseteq run[r].alive

\* A finished run has told every channel of its task, or found it missing or
\* off, and no channel when the task does not want it; one channel's failure
\* or absence keeps no message from another.
EveryChannelTold == \A r \in Runs : run[r].at = "done" =>
    \A c \in Channels : run[r].told[c] # "none"
        <=> c \in run[r].snapshot.channels /\ Tells(run[r])

\* What is stored for a registry was sent for it, so a registry that was
\* never sent a blank at its creation is never without a password; and it is
\* the password sent last, however blank updates, deletes and restarts
\* interleave, unless that one came between the read and the save of a blank
\* update, which may put the older one back.
PasswordWasSent == \A r \in Registries : registry[r] # "absent" =>
    /\ \E i \in DOMAIN sent[r] : password[r] = sent[r][i]
    /\ r \notin overtaken => password[r] = sent[r][Len(sent[r])]

\* A run ends and tells its channels, unless the server does not live to it.
RunReported == \A r \in Runs :
    run[r].at = "source" ~> run[r].at \in {"done", "lost"}

-----------------------------------------------------------------------------
\* USER_MANUAL.md:280 "only an enabled task's schedule takes effect", :155
\* "enable/disable - switch the task's state", :1016 "after a restart cron
\* loads anew": once the server is restarted, the scheduled tasks are those
\* that their users have switched on with an expression.
ScheduleAsAsked == entries =
    {t \in Tasks : /\ atStart.row[t] = "live"
                   /\ atStart.asked[t].enabled /\ atStart.asked[t].cron = "good"}
=============================================================================
