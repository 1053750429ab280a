------------------------- MODULE TaskCatalogProofs --------------------------
(***************************************************************************)
(* Theorems about TaskCatalog, for any ids, bodies, runs, handlers and     *)
(* number of requests: a run transfers between registries that were there, *)
(* every channel of a task is told, and a stored password was sent, and is *)
(* the last one unless a blank update was overtaken.                       *)
(*                                                                         *)
(* Each rests on what a step has established before it lets go of the row  *)
(* it has read: the two rows a run has loaded, the password that a handler *)
(* carries from its read to its save, while others save and delete.        *)
(***************************************************************************)
EXTENDS TaskCatalog, TLAPS

\* The records of the runs.
RunType ==
    [at: {"none", "source", "target", "transfer", "notify", "done", "lost"},
     task: Tasks \cup {None}, snapshot: Body, alive: SUBSET Registries,
     verdict: {"none", "success", "failed"},
     told: [Channels -> {"none", "sent", "failed", "skipped"}]]

\* The requests under way.
HandlerType ==
    [at: {"idle", "target", "insert", "save"}, id: Registries \cup {None},
     body: Body, password: Passwords \cup {None}]

\* What a run has established at each place.
Loaded(x) ==
    /\ \A g \in Registries :
         registry[g] = "live" /\ x.at # "none" => g \in x.alive
    /\ x.at \in {"none", "source", "target", "transfer"} =>
         x.verdict = "none" /\ \A c \in Channels : x.told[c] = "none"
    /\ x.at \in {"target", "transfer"} \/ x.verdict = "success" =>
         x.snapshot.source \in x.alive
    /\ x.at = "transfer" \/ x.verdict = "success" =>
         x.snapshot.target \in x.alive

\* What the messages of a run say of it.
ToldRight(x) ==
    /\ \A c \in Channels : x.told[c] # "none" =>
         c \in x.snapshot.channels /\ Tells(x)
    /\ x.at = "done" => Untold(x) = {}

RunsOK == \A r \in Runs : Loaded(run[r]) /\ ToldRight(run[r])

\* A password that may be stored for a registry: one that was sent for it,
\* and the last one when no blank update was overtaken.
MayBeStored(g, pw) ==
    /\ \E i \in DOMAIN sent[g] : pw = sent[g][i]
    /\ g \notin overtaken => pw = sent[g][Len(sent[g])]

\* The passwords that blank updates are about to save.
SaveOK == \A h \in Handlers : handler[h].at = "save" =>
    /\ handler[h].id \in Registries
    /\ registry[handler[h].id] # "absent"
    /\ MayBeStored(handler[h].id, handler[h].password)

\* The inductive invariant.
IInv == CatalogTypeOK /\ RunsOK /\ SaveOK /\ PasswordWasSent

-----------------------------------------------------------------------------
(* What the invariant says.                                                 *)

\* The rows that a run transfers between.
LEMMA LoadedThen == IInv => TransferHasRegistries
  BY DEF IInv, RunsOK, Loaded, TransferHasRegistries

\* The channels of a finished run.
LEMMA ToldThen == IInv => EveryChannelTold
  BY DEF IInv, RunsOK, ToldRight, Untold, EveryChannelTold

\* A handler at rest.
LEMMA IdleType == Idle \in HandlerType /\ Idle.at = "idle"
  BY DEF Idle, HandlerType, Switch, Body

\* The first states have the invariant.
LEMMA InitOK == Init => IInv
<1> SUFFICES ASSUME Init PROVE IInv
  OBVIOUS
<1>1. Switch(FALSE) \in Body
  BY DEF Switch, Body
<1>2. NoRun \in RunType
  BY <1>1 DEF NoRun, RunType
<1>3. run \in [Runs -> RunType] /\ \A r \in Runs : run[r] = NoRun
  BY <1>2 DEF Init
<1>4. task \in [Tasks -> Body] /\ row \in [Tasks -> {"absent", "live", "deleted"}]
  BY <1>1, BodiesAssumption DEF Init
<1>5. /\ registry \in [Registries -> {"absent", "live", "deleted"}]
      /\ password \in [Registries -> Passwords \cup {None}]
      /\ channel \in [Channels -> {"absent", "on", "off", "deleted"}]
  BY DEF Init
<1>6. CatalogTypeOK
  <2>3. sent \in [Registries -> Seq(Passwords \cup {None})] /\ overtaken = {}
    <3>1. ASSUME NEW g \in Registries
          PROVE  (IF registry[g] = "live" THEN <<password[g]>> ELSE <<>>)
                   \in Seq(Passwords \cup {None})
      <4>1. password[g] \in Passwords \cup {None}
        BY <1>5
      <4>2. <<password[g]>> \in Seq(Passwords \cup {None})
        BY <4>1
      <4>3. << >> \in Seq(Passwords \cup {None})
        OBVIOUS
      <4> QED
        BY <4>2, <4>3
    <3> QED
      BY <3>1 DEF Init
  <2>1. handler \in [Handlers -> HandlerType] /\ edits \in 0..MaxEdits
    BY IdleType, MaxEditsAssumption DEF Init
  <2>2. entries \subseteq Tasks
    BY DEF Init, Scheduled
  <2> QED
    BY <1>3, <1>4, <1>5, <2>1, <2>2, <2>3 DEF CatalogTypeOK, RunType, HandlerType
<1>7. RunsOK
  <2> SUFFICES ASSUME NEW r \in Runs PROVE Loaded(run[r]) /\ ToldRight(run[r])
    BY DEF RunsOK
  <2>1. /\ run[r].at = "none" /\ run[r].verdict = "none"
        /\ \A c \in Channels : run[r].told[c] = "none"
    <3>1. /\ NoRun.at = "none" /\ NoRun.verdict = "none"
          /\ NoRun.told = [c \in Channels |-> "none"]
      BY DEF NoRun
    <3> QED
      BY <1>3, <3>1
  <2> QED
    BY <2>1 DEF Loaded, ToldRight
<1>8. SaveOK
  BY DEF Init, SaveOK, Idle
<1>9. PasswordWasSent
  <2> SUFFICES ASSUME NEW g \in Registries, registry[g] # "absent"
               PROVE  /\ \E i \in DOMAIN sent[g] : password[g] = sent[g][i]
                      /\ password[g] = sent[g][Len(sent[g])]
    BY DEF PasswordWasSent
  <2>1. sent[g] = <<password[g]>>
    BY DEF Init
  <2> QED
    BY <2>1
<1> QED
  BY <1>6, <1>7, <1>8, <1>9 DEF IInv

-----------------------------------------------------------------------------
(* The handlers.                                                            *)

\* A request more.
LEMMA EditType == ASSUME IInv, Edit PROVE edits' \in 0..MaxEdits
  BY MaxEditsAssumption DEF Edit, IInv, CatalogTypeOK

\* The store's steps keep the types of the rows.
LEMMA SaveTypes ==
  ASSUME IInv, NEW t \in Tasks, NEW body \in Body, Save(t, body) \/ Insert(t, body)
  PROVE  /\ row' \in [Tasks -> {"absent", "live", "deleted"}]
         /\ task' \in [Tasks -> Body]
<1>1. Inserted(body) \in Body
  BY DEF Inserted, Body
<1>2. row \in [Tasks -> {"absent", "live", "deleted"}] /\ task \in [Tasks -> Body]
  BY DEF IInv, CatalogTypeOK
<1>3. CASE Insert(t, body)
  BY <1>1, <1>2, <1>3 DEF Insert
<1>4. CASE ~Insert(t, body)
  BY <1>2, <1>4 DEF Save
<1> QED
  BY <1>3, <1>4

\* A step that leaves registries and runs alone, and brings no handler to
\* its save.
LEMMA RowsKeep ==
  ASSUME IInv, CatalogTypeOK',
         UNCHANGED <<registry, secrets, run>>,
         \A h \in Handlers : handler'[h].at = "save" => handler'[h] = handler[h]
  PROVE  IInv'
<1>1. RunsOK'
  BY DEF IInv, RunsOK, Loaded, ToldRight, Tells, Untold
<1>2. SaveOK'
  BY DEF IInv, SaveOK, MayBeStored, secrets
<1>3. PasswordWasSent'
  BY DEF IInv, PasswordWasSent, secrets
<1> QED
  BY <1>1, <1>2, <1>3 DEF IInv

\* One handler's record changes, not to a save.
LEMMA OneHandler ==
  ASSUME IInv, NEW h \in Handlers, NEW x \in HandlerType, x.at # "save",
         handler' = [handler EXCEPT ![h] = x]
  PROVE  /\ handler' \in [Handlers -> HandlerType]
         /\ \A k \in Handlers : handler'[k].at = "save" => handler'[k] = handler[k]
  BY DEF IInv, CatalogTypeOK, HandlerType

\* CreateTask, in its three steps.
LEMMA CreateTaskKeeps ==
  ASSUME IInv, NEW h \in Handlers,
         \/ \E b \in Bodies : CreateTask(h, b)
         \/ CreateTaskTarget(h) \/ CreateTaskInsert(h)
  PROVE  IInv'
<1>1. handler[h] \in HandlerType
  BY DEF IInv, CatalogTypeOK, HandlerType
<1>2. ASSUME NEW b \in Bodies, CreateTask(h, b) PROVE IInv'
  <2> DEFINE x == [Idle EXCEPT !.at = "target", !.body = b]
  <2>1. x \in HandlerType /\ x.at = "target"
    BY BodiesAssumption, IdleType DEF HandlerType
  <2>2. handler' = [handler EXCEPT ![h] = x] /\ edits' \in 0..MaxEdits
    BY <1>2, EditType DEF CreateTask
  <2> HIDE DEF x
  <2>3. /\ handler' \in [Handlers -> HandlerType]
        /\ \A k \in Handlers : handler'[k].at = "save" => handler'[k] = handler[k]
    BY <2>1, <2>2, OneHandler
  <2>4. CatalogTypeOK'
    BY <1>2, <2>2, <2>3
       DEF CreateTask, IInv, CatalogTypeOK, HandlerType, catalog, secrets
  <2> QED
    BY <1>2, <2>3, <2>4, RowsKeep DEF CreateTask, catalog
<1>3. CASE CreateTaskTarget(h)
  <2> DEFINE x == IF Found(handler[h].body.target)
                  THEN [handler[h] EXCEPT !.at = "insert"] ELSE Idle
  <2>1. x \in HandlerType /\ x.at # "save"
    BY <1>1, IdleType DEF HandlerType
  <2>2. handler' = [handler EXCEPT ![h] = x]
    BY <1>3 DEF CreateTaskTarget, IInv, CatalogTypeOK
  <2> HIDE DEF x
  <2>3. /\ handler' \in [Handlers -> HandlerType]
        /\ \A k \in Handlers : handler'[k].at = "save" => handler'[k] = handler[k]
    BY <2>1, <2>2, OneHandler
  <2>4. CatalogTypeOK'
    BY <1>3, <2>3
       DEF CreateTaskTarget, IInv, CatalogTypeOK, HandlerType, catalog, secrets
  <2> QED
    BY <1>3, <2>3, <2>4, RowsKeep DEF CreateTaskTarget, catalog
<1>4. CASE CreateTaskInsert(h)
  <2>1. handler[h].body \in Body
    BY <1>1 DEF HandlerType
  <2>2. /\ row' \in [Tasks -> {"absent", "live", "deleted"}]
        /\ task' \in [Tasks -> Body]
    <3>1. CASE UNCHANGED <<row, task>>
      BY <3>1 DEF IInv, CatalogTypeOK
    <3>2. ASSUME NEW t \in Tasks, Insert(t, handler[h].body)
          PROVE  /\ row' \in [Tasks -> {"absent", "live", "deleted"}]
                 /\ task' \in [Tasks -> Body]
      BY <2>1, <3>2, SaveTypes
    <3> QED
      BY <1>4, <3>1, <3>2 DEF CreateTaskInsert
  <2>3. /\ handler' \in [Handlers -> HandlerType]
        /\ \A k \in Handlers : handler'[k].at = "save" => handler'[k] = handler[k]
    BY <1>4, IdleType, OneHandler DEF CreateTaskInsert
  <2>4. CatalogTypeOK'
    BY <1>4, <2>2, <2>3
       DEF CreateTaskInsert, IInv, CatalogTypeOK, HandlerType, secrets
  <2> QED
    BY <1>4, <2>3, <2>4, RowsKeep DEF CreateTaskInsert
<1> QED
  BY <1>2, <1>3, <1>4

\* The other requests that change a task.
LEMMA TaskKeeps ==
  ASSUME IInv, NEW t \in Tasks,
         \/ \E b \in Bodies : EditTask(t, b)
         \/ \E on \in BOOLEAN : ToggleTask(t, on)
         \/ DeleteTask(t)
  PROVE  IInv'
<1>1. ASSUME NEW b \in Body, Edit, Save(t, b),
             UNCHANGED <<registry, secrets, channel, handler, entries, run, atStart>>
      PROVE  IInv'
  <2>1. CatalogTypeOK'
    BY <1>1, SaveTypes, EditType DEF IInv, CatalogTypeOK, secrets
  <2> QED
    BY <1>1, <2>1, RowsKeep
<1>2. ASSUME NEW b \in Bodies, EditTask(t, b) PROVE IInv'
  BY <1>1, <1>2, BodiesAssumption DEF EditTask
<1>3. ASSUME NEW on \in BOOLEAN, ToggleTask(t, on) PROVE IInv'
  <2>1. Switch(on) \in Body
    BY DEF Switch, Body
  <2> QED
    BY <1>1, <1>3, <2>1 DEF ToggleTask
<1>4. CASE DeleteTask(t)
  <2>1. CatalogTypeOK'
    BY <1>4, EditType DEF DeleteTask, IInv, CatalogTypeOK, secrets
  <2> QED
    BY <1>4, <2>1, RowsKeep DEF DeleteTask
<1> QED
  BY <1>2, <1>3, <1>4

\* The requests that change a channel.
LEMMA ChannelKeeps ==
  ASSUME IInv, NEW c \in Channels,
         DeleteChannel(c) \/ \E on \in BOOLEAN : SaveChannel(c, on)
  PROVE  IInv'
<1>1. CatalogTypeOK'
  BY EditType DEF DeleteChannel, SaveChannel, IInv, CatalogTypeOK, secrets
<1> QED
  BY <1>1, RowsKeep DEF DeleteChannel, SaveChannel

\* A blank update has read the password it will save.
LEMMA ReadPasswordKeeps ==
  ASSUME IInv, NEW h \in Handlers, NEW g \in Registries, ReadPassword(h, g)
  PROVE  IInv'
<1> DEFINE x == [Idle EXCEPT !.at = "save", !.id = g, !.password = password[g]]
<1>1. x \in HandlerType /\ x.id = g /\ x.password = password[g]
  BY IdleType DEF IInv, CatalogTypeOK, HandlerType
<1>2. handler' = [handler EXCEPT ![h] = x] /\ registry[g] = "live"
  BY DEF ReadPassword
<1>3. UNCHANGED <<registry, secrets, row, task, channel, entries, run>>
      /\ edits' \in 0..MaxEdits
  BY EditType DEF ReadPassword, catalog
<1> HIDE DEF x
<1>4. /\ handler' \in [Handlers -> HandlerType] /\ handler'[h] = x
      /\ \A k \in Handlers \ {h} : handler'[k] = handler[k]
  BY <1>1, <1>2 DEF IInv, CatalogTypeOK, HandlerType
<1>5. CatalogTypeOK'
  BY <1>3, <1>4 DEF IInv, CatalogTypeOK, HandlerType, secrets
<1>6. RunsOK'
  BY <1>3 DEF IInv, RunsOK, Loaded, ToldRight, Tells, Untold
<1>7. MayBeStored(g, password[g])
  BY <1>2 DEF IInv, PasswordWasSent, MayBeStored
<1>8. SaveOK'
  BY <1>1, <1>2, <1>3, <1>4, <1>7 DEF IInv, SaveOK, MayBeStored, secrets
<1>9. PasswordWasSent'
  BY <1>3 DEF IInv, PasswordWasSent, secrets
<1> QED
  BY <1>5, <1>6, <1>8, <1>9 DEF IInv

\* A registry appears or goes: the runs keep what they have found.
LEMMA RegistryKeeps ==
  ASSUME IInv, NEW g \in Registries, NEW there \in {"live", "deleted"},
         SetRegistry(g, there)
  PROVE  /\ registry' \in [Registries -> {"absent", "live", "deleted"}]
         /\ registry'[g] = there
         /\ \A h \in Registries \ {g} : registry'[h] = registry[h]
         /\ run' \in [Runs -> RunType]
         /\ RunsOK'
<1>1. /\ registry' \in [Registries -> {"absent", "live", "deleted"}]
      /\ registry'[g] = there
      /\ \A h \in Registries \ {g} : registry'[h] = registry[h]
  BY DEF SetRegistry, IInv, CatalogTypeOK
<1>2. run \in [Runs -> RunType]
  BY DEF IInv, CatalogTypeOK, RunType
<1>3. ASSUME NEW r \in Runs
      PROVE  LET x == run[r]
                 y == run'[r]
             IN  /\ y \in RunType
                 /\ y.at = x.at /\ y.task = x.task
                 /\ y.snapshot = x.snapshot /\ y.verdict = x.verdict
                 /\ y.told = x.told
                 /\ y.alive = IF there = "live" THEN x.alive \cup {g} ELSE x.alive
  BY <1>2 DEF SetRegistry, RunType
<1>4. run' \in [Runs -> RunType]
  BY <1>3 DEF SetRegistry
<1>5. RunsOK'
  <2> SUFFICES ASSUME NEW r \in Runs
               PROVE  (Loaded(run[r]) /\ ToldRight(run[r]))'
    BY DEF RunsOK
  <2>1. Loaded(run[r]) /\ ToldRight(run[r])
    BY DEF IInv, RunsOK
  <2>2. Loaded(run[r])'
    BY <1>1, <1>3, <2>1 DEF Loaded
  <2>3. ToldRight(run[r])'
    BY <1>3, <2>1 DEF ToldRight, Tells, Untold
  <2> QED
    BY <2>2, <2>3
<1> QED
  BY <1>1, <1>4, <1>5

\* A password comes with a request: it is the last, and whoever is about to
\* save another has been overtaken.
LEMMA SendsKeeps ==
  ASSUME IInv, NEW g \in Registries, NEW pw \in Passwords \cup {None},
         SetRegistry(g, "live"), Sends(g, pw), Edit,
         UNCHANGED <<row, task, channel, handler, entries>>
  PROVE  IInv'
<1>1. /\ registry' \in [Registries -> {"absent", "live", "deleted"}]
      /\ registry'[g] = "live"
      /\ \A h \in Registries \ {g} : registry'[h] = registry[h]
      /\ run' \in [Runs -> RunType]
      /\ RunsOK'
  BY RegistryKeeps
<1>2. /\ password \in [Registries -> Passwords \cup {None}]
      /\ sent \in [Registries -> Seq(Passwords \cup {None})]
      /\ overtaken \subseteq Registries /\ edits' \in 0..MaxEdits
  BY EditType DEF IInv, CatalogTypeOK
<1>3. /\ password'[g] = pw /\ sent'[g] = Append(sent[g], pw)
      /\ \A h \in Registries \ {g} : password'[h] = password[h] /\ sent'[h] = sent[h]
      /\ password' \in [Registries -> Passwords \cup {None}]
      /\ sent' \in [Registries -> Seq(Passwords \cup {None})]
  BY <1>2 DEF Sends
<1>4. /\ overtaken \subseteq overtaken' /\ overtaken' \subseteq Registries
      /\ overtaken' \subseteq overtaken \cup {g}
      /\ \A h \in Handlers :
           handler[h].at = "save" /\ handler[h].id = g => g \in overtaken'
  BY <1>2 DEF Sends
<1>5. /\ Len(sent'[g]) = Len(sent[g]) + 1 /\ sent'[g][Len(sent'[g])] = pw
      /\ Len(sent'[g]) \in DOMAIN sent'[g]
      /\ \A i \in DOMAIN sent[g] : i \in DOMAIN sent'[g] /\ sent'[g][i] = sent[g][i]
  BY <1>2, <1>3
<1>6. CatalogTypeOK'
  BY <1>1, <1>2, <1>3, <1>4 DEF IInv, CatalogTypeOK, RunType
<1>7. SaveOK'
  <2> SUFFICES ASSUME NEW h \in Handlers, handler'[h].at = "save"
               PROVE  /\ handler'[h].id \in Registries
                      /\ registry'[handler'[h].id] # "absent"
                      /\ MayBeStored(handler[h].id, handler[h].password)'
    BY DEF SaveOK
  <2>1. /\ handler' = handler
        /\ handler[h].id \in Registries
        /\ registry[handler[h].id] # "absent"
        /\ MayBeStored(handler[h].id, handler[h].password)
    BY DEF IInv, SaveOK
  <2>2. CASE handler[h].id = g
    BY <1>1, <1>4, <1>5, <2>1, <2>2 DEF MayBeStored
  <2>3. CASE handler[h].id # g
    BY <1>1, <1>3, <1>4, <2>1, <2>3 DEF MayBeStored
  <2> QED
    BY <2>2, <2>3
<1>8. PasswordWasSent'
  <2> SUFFICES ASSUME NEW h \in Registries, registry'[h] # "absent"
               PROVE  MayBeStored(h, password[h])'
    BY DEF PasswordWasSent, MayBeStored
  <2>1. CASE h = g
    BY <1>3, <1>5, <2>1 DEF MayBeStored
  <2>2. CASE h # g
    <3>1. MayBeStored(h, password[h])
      BY <1>1, <2>2 DEF IInv, PasswordWasSent, MayBeStored
    <3> QED
      BY <1>3, <1>4, <2>2, <3>1 DEF MayBeStored
  <2> QED
    BY <2>1, <2>2
<1> QED
  BY <1>1, <1>6, <1>7, <1>8 DEF IInv

\* The requests that change a registry.
LEMMA DeleteRegistryKeeps ==
  ASSUME IInv, NEW g \in Registries, DeleteRegistry(g) PROVE IInv'
<1>1. /\ registry' \in [Registries -> {"absent", "live", "deleted"}]
      /\ registry'[g] = "deleted" /\ registry[g] = "live"
      /\ \A h \in Registries \ {g} : registry'[h] = registry[h]
      /\ run' \in [Runs -> RunType]
      /\ RunsOK'
  BY RegistryKeeps DEF DeleteRegistry
<1>2. UNCHANGED <<password, sent, overtaken, row, task, channel, handler, entries>>
      /\ edits' \in 0..MaxEdits
  BY EditType DEF DeleteRegistry, secrets
<1>3. CatalogTypeOK'
  BY <1>1, <1>2 DEF IInv, CatalogTypeOK, RunType
<1>4. SaveOK' /\ PasswordWasSent'
  BY <1>1, <1>2 DEF IInv, SaveOK, MayBeStored, PasswordWasSent
<1> QED
  BY <1>1, <1>3, <1>4 DEF IInv

LEMMA SavePasswordKeeps ==
  ASSUME IInv, NEW h \in Handlers, SavePassword(h) PROVE IInv'
<1> DEFINE g == handler[h].id
<1>1. /\ g \in Registries /\ registry[g] # "absent"
      /\ MayBeStored(g, handler[h].password)
      /\ handler[h].password \in Passwords \cup {None}
  BY DEF SavePassword, IInv, SaveOK, CatalogTypeOK
<1>2. /\ registry' \in [Registries -> {"absent", "live", "deleted"}]
      /\ registry'[g] = "live"
      /\ \A k \in Registries \ {g} : registry'[k] = registry[k]
      /\ run' \in [Runs -> RunType]
      /\ RunsOK'
  BY <1>1, RegistryKeeps DEF SavePassword
<1>3. /\ UNCHANGED <<sent, overtaken, row, task, channel, edits, entries>>
      /\ password' = [password EXCEPT ![g] = handler[h].password]
  BY DEF SavePassword
<1>4. /\ handler' \in [Handlers -> HandlerType]
      /\ \A k \in Handlers : handler'[k].at = "save" => handler'[k] = handler[k]
  BY IdleType, OneHandler DEF SavePassword
<1>5. /\ password' \in [Registries -> Passwords \cup {None}]
      /\ password'[g] = handler[h].password
      /\ \A k \in Registries \ {g} : password'[k] = password[k]
  BY <1>1, <1>3 DEF IInv, CatalogTypeOK
<1> HIDE DEF g
<1>6. CatalogTypeOK'
  BY <1>2, <1>3, <1>4, <1>5 DEF IInv, CatalogTypeOK, RunType, HandlerType
<1>7. SaveOK'
  <2> SUFFICES ASSUME NEW k \in Handlers, handler'[k].at = "save"
               PROVE  /\ handler'[k].id \in Registries
                      /\ registry'[handler'[k].id] # "absent"
                      /\ MayBeStored(handler[k].id, handler[k].password)'
    BY DEF SaveOK
  <2>1. handler'[k] = handler[k]
    BY <1>4
  <2>2. /\ handler[k].id \in Registries /\ registry[handler[k].id] # "absent"
        /\ MayBeStored(handler[k].id, handler[k].password)
    BY <2>1 DEF IInv, SaveOK
  <2>3. registry'[handler[k].id] # "absent"
    BY <1>2, <2>2
  <2> QED
    BY <1>3, <2>1, <2>2, <2>3 DEF MayBeStored
<1>8. PasswordWasSent'
  BY <1>1, <1>2, <1>3, <1>5 DEF IInv, PasswordWasSent, MayBeStored
<1> QED
  BY <1>2, <1>6, <1>7, <1>8 DEF IInv

LEMMA RegistriesKeep ==
  ASSUME IInv, NEW g \in Registries,
         \/ \E pw \in Passwords \cup {None} : CreateRegistry(g, pw)
         \/ \E pw \in Passwords : UpdateRegistry(g, pw)
  PROVE  IInv'
  BY SendsKeeps DEF CreateRegistry, UpdateRegistry

-----------------------------------------------------------------------------
(* The scheduler.                                                           *)

\* A start drops the requests and loses the runs.
LEMMA StartKeeps == ASSUME IInv, Start PROVE IInv'
<1> USE DEF Start, catalog
<1>1. run \in [Runs -> RunType]
  BY DEF IInv, CatalogTypeOK, RunType
<1>2. ASSUME NEW r \in Runs
      PROVE  /\ run'[r] \in RunType
             /\ \/ run[r].at \in {"none", "done"} /\ run'[r] = run[r]
                \/ /\ run[r].at \notin {"none", "done"}
                   /\ run'[r] = [run[r] EXCEPT !.at = "lost"]
  BY <1>1 DEF RunType
<1>3. run' \in [Runs -> RunType]
  BY <1>2
<1>4. CatalogTypeOK'
  BY <1>3, IdleType DEF IInv, CatalogTypeOK, RunType, HandlerType, Scheduled, secrets
<1>5. RunsOK'
  <2> SUFFICES ASSUME NEW r \in Runs
               PROVE  (Loaded(run[r]) /\ ToldRight(run[r]))'
    BY DEF RunsOK
  <2>1. Loaded(run[r]) /\ ToldRight(run[r])
    BY DEF IInv, RunsOK
  <2>2. CASE run[r].at \in {"none", "done"} /\ run'[r] = run[r]
    BY <2>1, <2>2 DEF Loaded, ToldRight, Tells, Untold
  <2>3. CASE run[r].at # "none" /\ run'[r] = [run[r] EXCEPT !.at = "lost"]
    <3>1. LET x == run[r]
              y == run'[r]
          IN  /\ y.at = "lost" /\ y.task = x.task
              /\ y.snapshot = x.snapshot /\ y.verdict = x.verdict
              /\ y.told = x.told /\ y.alive = x.alive
      BY <1>1, <2>3 DEF RunType
    <3> QED
      BY <2>1, <2>3, <3>1 DEF Loaded, ToldRight, Tells, Untold
  <2> QED
    BY <1>2, <2>2, <2>3
<1>6. SaveOK' /\ PasswordWasSent'
  BY DEF IInv, SaveOK, Idle, PasswordWasSent, secrets
<1> QED
  BY <1>4, <1>5, <1>6 DEF IInv

-----------------------------------------------------------------------------
(* The runs.                                                                *)

\* One run takes a step, which its record survives.
LEMMA OneRunKeeps ==
  ASSUME IInv, NEW r \in Runs, NEW x \in RunType,
         run' = [run EXCEPT ![r] = x],
         UNCHANGED <<catalog, handler, edits, entries, atStart>>,
         Loaded(x), ToldRight(x)
  PROVE  IInv'
<1>1. run \in [Runs -> RunType]
  BY DEF IInv, CatalogTypeOK, RunType
<1>2. run' \in [Runs -> RunType] /\ run'[r] = x
      /\ \A q \in Runs \ {r} : run'[q] = run[q]
  BY <1>1
<1>3. CatalogTypeOK'
  BY <1>2 DEF IInv, CatalogTypeOK, RunType, catalog, secrets
<1>4. RunsOK'
  <2> SUFFICES ASSUME NEW q \in Runs
               PROVE  (Loaded(run[q]) /\ ToldRight(run[q]))'
    BY DEF RunsOK
  <2>1. Loaded(run'[q]) /\ ToldRight(run'[q])
    BY <1>2 DEF IInv, RunsOK
  <2> QED
    BY <2>1 DEF Loaded, ToldRight, Tells, Untold, catalog
<1>5. SaveOK' /\ PasswordWasSent'
  BY DEF IInv, SaveOK, MayBeStored, PasswordWasSent, catalog, secrets
<1> QED
  BY <1>3, <1>4, <1>5 DEF IInv

\* A run begins.
LEMMA ExecuteTaskKeeps ==
  ASSUME IInv, NEW r \in Runs, NEW t \in Tasks, ExecuteTask(r, t)
  PROVE  IInv'
<1> DEFINE x == [NoRun EXCEPT !.at = "source", !.task = t, !.snapshot = task[t],
                    !.alive = {g \in Registries : registry[g] = "live"}]
<1>1. /\ x.at = "source" /\ x.task = t /\ x.verdict = "none"
      /\ x.alive = {g \in Registries : registry[g] = "live"}
      /\ x.told = [c \in Channels |-> "none"]
  BY DEF NoRun
<1>2. x \in RunType
  BY DEF NoRun, RunType, IInv, CatalogTypeOK
<1>3. Loaded(x) /\ ToldRight(x)
  <2> HIDE DEF x
  <2> QED
    BY <1>1 DEF ExecuteTask, Loaded, ToldRight
<1>4. run' = [run EXCEPT ![r] = x]
  BY DEF ExecuteTask
<1> QED
  BY <1>2, <1>3, <1>4, OneRunKeeps DEF ExecuteTask

\* A run goes on to another place.
LEMMA GoesOn ==
  ASSUME IInv, NEW r \in Runs,
         NEW place \in {"target", "transfer", "done"},
         run' = [run EXCEPT ![r].at = place],
         UNCHANGED <<catalog, handler, edits, entries, atStart>>,
         run[r].at # "none",
         place = "target" => run[r].at = "source" /\ Found(run[r].snapshot.source),
         place = "transfer" => run[r].at = "target" /\ Found(run[r].snapshot.target),
         place = "done" => run[r].at = "notify" /\ Untold(run[r]) = {}
  PROVE  IInv'
<1> DEFINE x == [run[r] EXCEPT !.at = place]
<1>1. run[r] \in RunType /\ run' = [run EXCEPT ![r] = x]
  BY DEF IInv, CatalogTypeOK, RunType
<1>2. /\ x.at = place /\ x.task = run[r].task
      /\ x.verdict = run[r].verdict /\ x.alive = run[r].alive
      /\ x.told = run[r].told /\ x.snapshot = run[r].snapshot /\ x \in RunType
  BY <1>1 DEF RunType
<1>3. Loaded(run[r]) /\ ToldRight(run[r])
  BY DEF IInv, RunsOK
<1>4. run[r].snapshot.source \in Registries \cup {None}
      /\ run[r].snapshot.target \in Registries \cup {None}
  BY <1>1 DEF RunType, Body
<1>5. Loaded(x)
  BY <1>2, <1>3, <1>4 DEF Loaded, Found
<1>6. ToldRight(x)
  BY <1>2, <1>3 DEF ToldRight, Tells, Untold
<1> QED
  BY <1>1, <1>2, <1>5, <1>6, OneRunKeeps

\* A run has its verdict.
LEMMA EndsKeeps ==
  ASSUME IInv, NEW r \in Runs, NEW verdict \in {"success", "failed"},
         Ends(r, verdict),
         UNCHANGED <<catalog, handler, edits, entries, atStart>>,
         run[r].at \in {"source", "target", "transfer"},
         verdict = "success" => run[r].at = "transfer"
  PROVE  IInv'
<1> DEFINE x == [run[r] EXCEPT !.at = "notify", !.verdict = verdict]
<1>1. run[r] \in RunType /\ run' = [run EXCEPT ![r] = x]
  BY DEF Ends, IInv, CatalogTypeOK, RunType
<1>2. /\ x.at = "notify" /\ x.task = run[r].task
      /\ x.verdict = verdict /\ x.alive = run[r].alive
      /\ x.told = run[r].told /\ x.snapshot = run[r].snapshot /\ x \in RunType
  BY <1>1 DEF RunType
<1>3. Loaded(run[r]) /\ ToldRight(run[r])
  BY DEF IInv, RunsOK
<1>4. Loaded(x) /\ ToldRight(x)
  BY <1>2, <1>3 DEF Loaded, ToldRight
<1> QED
  BY <1>1, <1>2, <1>4, OneRunKeeps

\* A channel is told, or skipped.
LEMMA TellKeeps ==
  ASSUME IInv, NEW r \in Runs, NEW c \in Channels, Tell(r, c)
  PROVE  IInv'
<1>1. PICK end \in {"sent", "failed", "skipped"} :
         run' = [run EXCEPT ![r].told[c] = end]
  BY DEF Tell
<1> DEFINE x == [run[r] EXCEPT !.told = [run[r].told EXCEPT ![c] = end]]
<1>2. run[r] \in RunType /\ run' = [run EXCEPT ![r] = x]
  BY <1>1 DEF IInv, CatalogTypeOK, RunType
<1>3. /\ x.at = run[r].at /\ x.task = run[r].task
      /\ x.verdict = run[r].verdict /\ x.alive = run[r].alive
      /\ x.snapshot = run[r].snapshot /\ x \in RunType
      /\ \A d \in Channels \ {c} : x.told[d] = run[r].told[d]
  BY <1>2 DEF RunType
<1>4. Loaded(run[r]) /\ ToldRight(run[r])
  BY DEF IInv, RunsOK
<1>5. run[r].at = "notify" /\ c \in run[r].snapshot.channels /\ Tells(run[r])
  BY DEF Tell, Untold
<1>6. Loaded(x) /\ ToldRight(x)
  BY <1>3, <1>4, <1>5 DEF Loaded, ToldRight, Tells
<1> QED
  BY <1>2, <1>3, <1>6, OneRunKeeps DEF Tell

\* Every step of a run keeps the invariant.
LEMMA RunKeeps == ASSUME IInv, NEW r \in Runs, RunStep(r) PROVE IInv'
<1>1. CASE LoadSource(r)
  BY <1>1, GoesOn, EndsKeeps DEF LoadSource
<1>2. CASE LoadTarget(r)
  <2>1. CASE Found(run[r].snapshot.target) /\ run' = [run EXCEPT ![r].at = "transfer"]
    BY <1>2, <2>1, GoesOn DEF LoadTarget
  <2>2. CASE Ends(r, "failed")
    BY <1>2, <2>2, EndsKeeps DEF LoadTarget
  <2> QED
    BY <1>2, <2>1, <2>2 DEF LoadTarget
<1>3. CASE Transferred(r)
  BY <1>3, EndsKeeps DEF Transferred
<1>4. CASE AllTold(r)
  BY <1>4, GoesOn DEF AllTold
<1>5. ASSUME NEW c \in Channels, Tell(r, c) PROVE IInv'
  BY <1>5, TellKeeps
<1> QED
  BY <1>1, <1>2, <1>3, <1>4, <1>5 DEF RunStep

-----------------------------------------------------------------------------
\* Every step keeps the invariant.
LEMMA StepKeeps == IInv /\ [Next]_vars => IInv'
<1> SUFFICES ASSUME IInv, [Next]_vars PROVE IInv'
  OBVIOUS
<1>1. CASE Admin
  <2>1. ASSUME NEW h \in Handlers, Handle(h) PROVE IInv'
    BY <2>1, CreateTaskKeeps, ReadPasswordKeeps, SavePasswordKeeps DEF Handle
  <2> QED
    BY <1>1, <2>1, TaskKeeps, DeleteRegistryKeeps, RegistriesKeep, ChannelKeeps
       DEF Admin
<1>2. CASE Start
  BY <1>2, StartKeeps
<1>3. ASSUME NEW r \in Runs, RunStep(r) \/ \E t \in Tasks : ExecuteTask(r, t)
      PROVE  IInv'
  BY <1>3, RunKeeps, ExecuteTaskKeeps
<1>4. CASE UNCHANGED vars
  <2>1. CatalogTypeOK'
    BY <1>4 DEF vars, catalog, secrets, IInv, CatalogTypeOK
  <2> QED
    BY <1>4, <2>1, RowsKeep DEF vars, catalog
<1> QED
  BY <1>1, <1>2, <1>3, <1>4 DEF Next

-----------------------------------------------------------------------------
\* The inductive invariant of the rows and of who depends on them.
THEOREM Invariance == Spec => []IInv
<1> QED
  BY InitOK, StepKeeps, PTL DEF Spec

\* The variables of the catalog keep their types.
THEOREM TypeCorrect == Spec => []CatalogTypeOK
<1>1. IInv => CatalogTypeOK
  BY DEF IInv
<1> QED
  BY <1>1, Invariance, PTL

\* Whatever is deleted under a run: it transfers between registries it found.
THEOREM RegistriesFound == Spec => []TransferHasRegistries
<1> QED
  BY LoadedThen, Invariance, PTL

\* One channel's failure or absence keeps no message from another.
THEOREM ChannelsTold == Spec => []EveryChannelTold
<1> QED
  BY ToldThen, Invariance, PTL

\* However requests interleave, what is stored for a registry was sent for
\* it, and is the last unless a blank update was overtaken.
THEOREM PasswordsWereSent == Spec => []PasswordWasSent
<1>1. IInv => PasswordWasSent
  BY DEF IInv
<1> QED
  BY <1>1, Invariance, PTL
=============================================================================
