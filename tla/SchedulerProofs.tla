--------------------------- MODULE SchedulerProofs ---------------------------
(***************************************************************************)
(* Theorems about Scheduler, for any set of tasks, executions and callers: *)
(* the invariants of its safety run hold of every behaviour, and the rows  *)
(* of the executions table behave as ExecutionLedger says.                 *)
(*                                                                         *)
(* The inductive invariant adds to them what a call knows of the row it    *)
(* has created (CallersOK) and what the phase of a goroutine says of its   *)
(* row (RunsOK): without them an arbitrary state could hold a registered   *)
(* call with no row, or a second goroutine for a closed row.               *)
(***************************************************************************)
EXTENDS Scheduler, TLAPS

\* A call between CreateExecution and Register is the only one that knows its
\* row, which is open and has no goroutine yet.
CallersOK ==
    /\ \A c \in Callers : pc[c] # "idle" => arg[c] \in Tasks
    /\ \A c \in Callers : pc[c] = "created" =>
         /\ mine[c] \in Execs
         /\ status[mine[c]] = "running"
         /\ taskOf[mine[c]] = arg[c]
         /\ run[mine[c]] = "none"
         /\ mine[c] \notin lost
    /\ \A c, d \in Callers :
         pc[c] = "created" /\ pc[d] = "created" /\ mine[c] = mine[d] => c = d

\* A goroutine that has no verdict yet owns an open row that is not orphaned;
\* an id that is not used has no goroutine.
RunsOK ==
    /\ \A e \in Execs : Live(e) => taskOf[e] \in Tasks
    /\ \A e \in Execs : run[e] \in Working => status[e] = "running" /\ e \notin lost
    /\ \A e \in Execs : status[e] = "absent" => run[e] = "none" /\ e \notin lost

IInv ==
    /\ TypeOK
    /\ CallersOK
    /\ RunsOK
    /\ EntryIsLive
    /\ SerialisedRuns
    /\ RunningIsLiveOrLost

-----------------------------------------------------------------------------
\* Check preserves the invariant.
LEMMA CheckStep ==
  ASSUME NEW c \in Callers, NEW t \in Tasks, IInv, Check(c, t)
  PROVE  IInv'
<1> USE DEF IInv
<1>1. TypeOK'
  BY DEF Check, TypeOK
<1>2. CallersOK'
  BY DEF Check, TypeOK, CallersOK
<1>3. RunsOK'
  BY DEF Check, RunsOK, Live
<1>4. EntryIsLive'
  BY DEF Check, EntryIsLive, Live
<1>5. SerialisedRuns'
  BY DEF Check, InFlight, LiveOf, TypeOK, SerialisedRuns, Live
<1>6. RunningIsLiveOrLost'
  BY DEF Check, RunningIsLiveOrLost
<1> QED
  BY <1>1, <1>2, <1>3, <1>4, <1>5, <1>6

\* ExecuteFails preserves the invariant.
LEMMA ExecuteFailsStep ==
  ASSUME NEW c \in Callers, IInv, ExecuteFails(c)
  PROVE  IInv'
<1> USE DEF IInv
<1>1. TypeOK'
  BY DEF ExecuteFails, Return, TypeOK
<1>2. CallersOK'
  BY DEF ExecuteFails, Return, TypeOK, CallersOK
<1>3. RunsOK'
  BY DEF ExecuteFails, RunsOK, Live
<1>4. EntryIsLive'
  BY DEF ExecuteFails, EntryIsLive, Live
<1>5. SerialisedRuns'
  BY NoneAssumption DEF ExecuteFails, Return, SerialisedRuns, LiveOf, InFlight, Live
<1>6. RunningIsLiveOrLost'
  BY DEF ExecuteFails, Return, RunningIsLiveOrLost
<1> QED
  BY <1>1, <1>2, <1>3, <1>4, <1>5, <1>6

\* CreateExecution preserves the invariant.
LEMMA CreateExecutionStep ==
  ASSUME NEW c \in Callers, NEW e \in Execs, IInv, CreateExecution(c, e)
  PROVE  IInv'
<1> USE DEF IInv
<1>1. TypeOK'
  BY DEF CreateExecution, TypeOK
<1>2. CallersOK'
  BY DEF CreateExecution, TypeOK, CallersOK, RunsOK
<1>3. RunsOK'
  BY DEF CreateExecution, RunsOK, Live
<1>4. EntryIsLive'
  BY DEF CreateExecution, RunsOK, EntryIsLive, Live
<1>5. SerialisedRuns'
  BY DEF CreateExecution, RunsOK, SerialisedRuns, LiveOf, InFlight, Live
<1>6. RunningIsLiveOrLost'
  BY DEF CreateExecution, TypeOK, RunningIsLiveOrLost
<1> QED
  BY <1>1, <1>2, <1>3, <1>4, <1>5, <1>6

\* Register preserves the invariant.
LEMMA RegisterStep ==
  ASSUME NEW c \in Callers, IInv, Register(c)
  PROVE  IInv'
<1> USE DEF IInv
<1>1. TypeOK'
  BY DEF Register, Return, TypeOK, Phases, Working
<1>2. CallersOK'
  BY DEF Register, Return, TypeOK, CallersOK
<1>3. RunsOK'
  BY DEF Register, CallersOK, RunsOK, Live
<1>4. EntryIsLive'
  BY DEF Register, TypeOK, Working, CallersOK, EntryIsLive, Live
<1>5. SerialisedRuns'
  BY NoneAssumption DEF Register, Return, TypeOK, CallersOK, SerialisedRuns, LiveOf, InFlight, Live
<1>6. RunningIsLiveOrLost'
  BY DEF Register, Return, TypeOK, Working, RunningIsLiveOrLost
<1> QED
  BY <1>1, <1>2, <1>3, <1>4, <1>5, <1>6

\* CancelTask preserves the invariant.
LEMMA CancelTaskStep ==
  ASSUME NEW c \in Callers, NEW t \in Tasks, IInv, CancelTask(c, t)
  PROVE  IInv'
<1> USE DEF IInv
<1>1. TypeOK'
  BY DEF CancelTask, TypeOK
<1>2. CallersOK'
  BY DEF CancelTask, TypeOK, CallersOK
<1>3. RunsOK'
  BY DEF CancelTask, RunsOK, Live
<1>4. EntryIsLive'
  BY DEF CancelTask, EntryIsLive, Live
<1>5. SerialisedRuns'
  BY DEF CancelTask, SerialisedRuns, LiveOf, InFlight, Live
<1>6. RunningIsLiveOrLost'
  BY DEF CancelTask, RunningIsLiveOrLost
<1> QED
  BY <1>1, <1>2, <1>3, <1>4, <1>5, <1>6

\* DeleteEntry preserves the invariant.
LEMMA DeleteEntryStep ==
  ASSUME NEW c \in Callers, IInv, DeleteEntry(c)
  PROVE  IInv'
<1> USE DEF IInv
<1>1. TypeOK'
  BY DEF DeleteEntry, Return, TypeOK, CallersOK
<1>2. CallersOK'
  BY DEF DeleteEntry, Return, TypeOK, CallersOK
<1>3. RunsOK'
  BY DEF DeleteEntry, RunsOK, Live
<1>4. EntryIsLive'
  BY DEF DeleteEntry, EntryIsLive, Live
<1>5. SerialisedRuns'
  BY DEF DeleteEntry, Return, LiveOf, SerialisedRuns, InFlight, Live
<1>6. RunningIsLiveOrLost'
  BY DEF DeleteEntry, Return, RunningIsLiveOrLost
<1> QED
  BY <1>1, <1>2, <1>3, <1>4, <1>5, <1>6

\* PingOk preserves the invariant.
LEMMA PingOkStep ==
  ASSUME NEW e \in Execs, IInv, PingOk(e)
  PROVE  IInv'
<1> USE DEF IInv
<1>1. TypeOK'
  BY DEF PingOk, Phase, TypeOK, Phases, Working
<1>2. CallersOK'
  BY DEF PingOk, Phase, CallersOK
<1>3. RunsOK'
  BY DEF PingOk, Phase, TypeOK, Phases, RunsOK, Live
<1>4. EntryIsLive'
  BY DEF PingOk, Phase, Working, EntryIsLive, Live
<1>5. SerialisedRuns'
  BY DEF PingOk, Phase, TypeOK, Phases, SerialisedRuns, LiveOf, InFlight, Live
<1>6. RunningIsLiveOrLost'
  BY DEF PingOk, Phase, Working, RunningIsLiveOrLost
<1> QED
  BY <1>1, <1>2, <1>3, <1>4, <1>5, <1>6

\* PrepareOk preserves the invariant.
LEMMA PrepareOkStep ==
  ASSUME NEW e \in Execs, IInv, PrepareOk(e)
  PROVE  IInv'
<1> USE DEF IInv
<1>1. TypeOK'
  BY DEF PrepareOk, Phase, TypeOK, Phases, Working
<1>2. CallersOK'
  BY DEF PrepareOk, Phase, CallersOK
<1>3. RunsOK'
  BY DEF PrepareOk, Phase, TypeOK, Phases, RunsOK, Live
<1>4. EntryIsLive'
  BY DEF PrepareOk, Phase, Working, EntryIsLive, Live
<1>5. SerialisedRuns'
  BY DEF PrepareOk, Phase, TypeOK, Phases, SerialisedRuns, LiveOf, InFlight, Live
<1>6. RunningIsLiveOrLost'
  BY DEF PrepareOk, Phase, Working, RunningIsLiveOrLost
<1> QED
  BY <1>1, <1>2, <1>3, <1>4, <1>5, <1>6

\* RunFails preserves the invariant.
LEMMA RunFailsStep ==
  ASSUME NEW e \in Execs, IInv, RunFails(e)
  PROVE  IInv'
<1> USE DEF IInv
<1>1. TypeOK'
  BY DEF RunFails, Phase, TypeOK, Phases, Working
<1>2. CallersOK'
  BY DEF RunFails, Phase, TypeOK, CallersOK
<1>3. RunsOK'
  BY DEF RunFails, Phase, TypeOK, Phases, RunsOK, Live
<1>4. EntryIsLive'
  BY DEF RunFails, Phase, TypeOK, Working, EntryIsLive, Live
<1>5. SerialisedRuns'
  BY DEF RunFails, Phase, TypeOK, Phases, SerialisedRuns, LiveOf, InFlight, Live
<1>6. RunningIsLiveOrLost'
  BY DEF RunFails, Phase, TypeOK, Working, RunningIsLiveOrLost
<1> QED
  BY <1>1, <1>2, <1>3, <1>4, <1>5, <1>6

\* SyncEnds preserves the invariant.
LEMMA SyncEndsStep ==
  ASSUME NEW e \in Execs, IInv, SyncEnds(e)
  PROVE  IInv'
<1> USE DEF IInv
<1>1. TypeOK'
  BY DEF SyncEnds, Phase, TypeOK, Phases, Working
<1>2. CallersOK'
  BY DEF SyncEnds, Phase, CallersOK
<1>3. RunsOK'
  BY DEF SyncEnds, Phase, TypeOK, Phases, RunsOK, Live
<1>4. EntryIsLive'
  BY DEF SyncEnds, Phase, Working, EntryIsLive, Live
<1>5. SerialisedRuns'
  BY DEF SyncEnds, Phase, TypeOK, Phases, SerialisedRuns, LiveOf, InFlight, Live
<1>6. RunningIsLiveOrLost'
  BY DEF SyncEnds, Phase, Working, RunningIsLiveOrLost
<1> QED
  BY <1>1, <1>2, <1>3, <1>4, <1>5, <1>6

\* Save preserves the invariant.
LEMMA SaveStep ==
  ASSUME NEW e \in Execs, IInv, Save(e)
  PROVE  IInv'
<1> USE DEF IInv
<1>1. TypeOK'
  BY DEF Save, Phase, TypeOK, Phases
<1>2. CallersOK'
  BY DEF Save, Phase, TypeOK, CallersOK
<1>3. RunsOK'
  BY DEF Save, Phase, TypeOK, Working, RunsOK, Live
<1>4. EntryIsLive'
  BY DEF Save, Phase, TypeOK, EntryIsLive, Live
<1>5. SerialisedRuns'
  BY DEF Save, Phase, TypeOK, Phases, SerialisedRuns, LiveOf, InFlight, Live
<1>6. RunningIsLiveOrLost'
  BY DEF Save, Phase, TypeOK, RunningIsLiveOrLost
<1> QED
  BY <1>1, <1>2, <1>3, <1>4, <1>5, <1>6

\* SaveRefused preserves the invariant.
LEMMA SaveRefusedStep ==
  ASSUME NEW e \in Execs, IInv, SaveRefused(e)
  PROVE  IInv'
<1> USE DEF IInv
<1>1. TypeOK'
  BY DEF SaveRefused, Phase, TypeOK, Phases
<1>2. CallersOK'
  BY DEF SaveRefused, Phase, TypeOK, CallersOK
<1>3. RunsOK'
  BY DEF SaveRefused, Phase, TypeOK, Working, RunsOK, Live
<1>4. EntryIsLive'
  BY DEF SaveRefused, Phase, TypeOK, EntryIsLive, Live
<1>5. SerialisedRuns'
  BY DEF SaveRefused, Phase, TypeOK, Phases, SerialisedRuns, LiveOf, InFlight, Live
<1>6. RunningIsLiveOrLost'
  BY DEF SaveRefused, Phase, TypeOK, RunningIsLiveOrLost
<1> QED
  BY <1>1, <1>2, <1>3, <1>4, <1>5, <1>6

\* Exit preserves the invariant.
LEMMA ExitStep ==
  ASSUME NEW e \in Execs, IInv, Exit(e)
  PROVE  IInv'
<1> USE DEF IInv
<1>1. TypeOK'
  BY DEF Exit, Phase, TypeOK, Phases
<1>2. CallersOK'
  BY DEF Exit, Phase, CallersOK
<1>3. RunsOK'
  BY DEF Exit, Phase, Working, RunsOK, Live
<1>4. EntryIsLive'
  BY DEF Exit, Phase, TypeOK, EntryIsLive, Live
<1>5. SerialisedRuns'
  BY DEF Exit, Phase, TypeOK, Working, SerialisedRuns, LiveOf, InFlight, Live
<1>6. RunningIsLiveOrLost'
  BY DEF Exit, Phase, Working, RunningIsLiveOrLost
<1> QED
  BY <1>1, <1>2, <1>3, <1>4, <1>5, <1>6

\* Stop preserves the invariant.
LEMMA StopStep ==
  ASSUME IInv, Stop
  PROVE  IInv'
<1> USE DEF IInv
<1>1. TypeOK'
  BY DEF Stop, TypeOK
<1>2. CallersOK'
  BY DEF Stop, CallersOK
<1>3. RunsOK'
  BY DEF Stop, RunsOK, Live
<1>4. EntryIsLive'
  BY DEF Stop, EntryIsLive, Live
<1>5. SerialisedRuns'
  BY DEF Stop, SerialisedRuns, LiveOf, InFlight, Live
<1>6. RunningIsLiveOrLost'
  BY DEF Stop, RunningIsLiveOrLost
<1> QED
  BY <1>1, <1>2, <1>3, <1>4, <1>5, <1>6

\* Die preserves the invariant.
LEMMA DieStep ==
  ASSUME IInv, Die
  PROVE  IInv'
<1> USE DEF IInv
<1>1. TypeOK'
  BY DEF Die, TypeOK, Phases
<1>2. CallersOK'
  BY DEF Die, CallersOK
<1>3. RunsOK'
  BY DEF Die, Working, RunsOK, Live
<1>4. EntryIsLive'
  BY DEF Die, EntryIsLive
<1>5. SerialisedRuns'
  BY DEF Die, Working, SerialisedRuns, LiveOf, InFlight, Live
<1>6. RunningIsLiveOrLost'
  BY DEF Die, RunningIsLiveOrLost
<1> QED
  BY <1>1, <1>2, <1>3, <1>4, <1>5, <1>6

\* Restart preserves the invariant.
LEMMA RestartStep ==
  ASSUME IInv, Restart
  PROVE  IInv'
<1> USE DEF IInv
<1>1. TypeOK'
  BY DEF Restart, TypeOK
<1>2. CallersOK'
  BY DEF Restart, CallersOK
<1>3. RunsOK'
  BY DEF Restart, RunsOK, Live
<1>4. EntryIsLive'
  BY DEF Restart, EntryIsLive, Live
<1>5. SerialisedRuns'
  BY DEF Restart, SerialisedRuns, LiveOf, InFlight, Live
<1>6. RunningIsLiveOrLost'
  BY DEF Restart, RunningIsLiveOrLost
<1> QED
  BY <1>1, <1>2, <1>3, <1>4, <1>5, <1>6
-----------------------------------------------------------------------------
\* The invariant holds at the start: no call, no row, no goroutine.
LEMMA InitEstablishes == Init => IInv
<1> SUFFICES ASSUME Init PROVE IInv
  OBVIOUS
<1> USE NoneAssumption DEF Init
<1>1. TypeOK
  BY DEF TypeOK, Phases, Working
<1>2. CallersOK /\ RunsOK
  BY DEF CallersOK, RunsOK, Live, Working
<1>3. EntryIsLive /\ SerialisedRuns /\ RunningIsLiveOrLost
  BY DEF EntryIsLive, SerialisedRuns, RunningIsLiveOrLost, LiveOf, Live,
         InFlight, Working
<1> QED
  BY <1>1, <1>2, <1>3 DEF IInv

\* Every step, and every stutter, preserves it.
LEMMA NextPreserves == IInv /\ [Next]_vars => IInv'
<1> SUFFICES ASSUME IInv, [Next]_vars PROVE IInv'
  OBVIOUS
<1>1. CASE \E c \in Callers, t \in Tasks : Check(c, t) \/ CancelTask(c, t)
  BY <1>1, CheckStep, CancelTaskStep
<1>2. CASE \E c \in Callers : CallStep(c)
  BY <1>2, ExecuteFailsStep, CreateExecutionStep, RegisterStep,
     DeleteEntryStep DEF CallStep
<1>3. CASE \E e \in Execs : RunStep(e)
  BY <1>3, PingOkStep, PrepareOkStep, RunFailsStep, SyncEndsStep, SaveStep,
     SaveRefusedStep, ExitStep DEF RunStep
<1>4. CASE Stop \/ Die \/ Restart
  BY <1>4, StopStep, DieStep, RestartStep
<1>5. CASE UNCHANGED vars
  BY <1>5 DEF vars, IInv, TypeOK, CallersOK, RunsOK, EntryIsLive,
     SerialisedRuns, RunningIsLiveOrLost, LiveOf, Live, InFlight
<1> QED
  BY <1>1, <1>2, <1>3, <1>4, <1>5 DEF Next

\* The inductive invariant holds of every behaviour of the scheduler.
THEOREM Invariance == Spec => []IInv
<1>1. Init => IInv
  BY InitEstablishes
<1>2. IInv /\ [Next]_vars => IInv'
  BY NextPreserves
<1> QED
  BY <1>1, <1>2, PTL DEF Spec

\* The variables keep their types, whatever the callers do and whenever the
\* process dies.
THEOREM TypeCorrect == Spec => []TypeOK
<1>1. IInv => TypeOK
  BY DEF IInv
<1> QED
  BY <1>1, Invariance, PTL

\* An entry of s.running is the cancel function of a live run of its task.
THEOREM EntriesAreLive == Spec => []EntryIsLive
<1>1. IInv => EntryIsLive
  BY DEF IInv
<1> QED
  BY <1>1, Invariance, PTL

\* For a task whose calls have not overlapped, the map knows every live run.
THEOREM RunsAreSerialised == Spec => []SerialisedRuns
<1>1. IInv => SerialisedRuns
  BY DEF IInv
<1> QED
  BY <1>1, Invariance, PTL

\* A row that says "running" is being worked on or can never be corrected.
THEOREM RunningRowsExplained == Spec => []RunningIsLiveOrLost
<1>1. IInv => RunningIsLiveOrLost
  BY DEF IInv
<1> QED
  BY <1>1, Invariance, PTL

-----------------------------------------------------------------------------
(* The executions table keeps the promise of ExecutionLedger.               *)

\* Under the invariant, a step of the scheduler opens a row, closes one that
\* is open and not orphaned, orphans open rows, or leaves the table alone.
LEMMA StepSimulation ==
  ASSUME IInv, [Next]_vars
  PROVE  [Ledger!Next]_(Ledger!vars)
<1> USE DEF IInv, Ledger!Next, Ledger!vars
<1>1. CASE \E c \in Callers, e \in Execs : CreateExecution(c, e)
  <2> PICK c \in Callers, e \in Execs : CreateExecution(c, e)
    BY <1>1
  <2>1. Ledger!Open(e)
    BY DEF CreateExecution, Ledger!Open
  <2> QED
    BY <2>1
<1>2. CASE \E e \in Execs : Save(e)
  <2> PICK e \in Execs : Save(e)
    BY <1>2
  <2>1. run[e] \in Working /\ status[e] = "running" /\ e \notin lost
    BY DEF Save, Phase, RunsOK, Working
  <2>2. Ledger!Close(e)
    BY <2>1 DEF Save, Ledger!Close
  <2> QED
    BY <2>2
<1>3. CASE \E e \in Execs : SaveRefused(e)
  <2> PICK e \in Execs : SaveRefused(e)
    BY <1>3
  <2>1. run[e] \in Working /\ status[e] = "running"
    BY DEF SaveRefused, Phase, RunsOK, Working
  <2>2. Ledger!Abandon
    BY <2>1 DEF SaveRefused, Ledger!Abandon
  <2> QED
    BY <2>2
<1>4. CASE Die
  BY <1>4 DEF Die, Ledger!Abandon
<1>5. CASE UNCHANGED <<status, lost>>
  BY <1>5
<1>6. \/ \E c \in Callers, e \in Execs : CreateExecution(c, e)
      \/ \E e \in Execs : Save(e) \/ SaveRefused(e)
      \/ Die
      \/ UNCHANGED <<status, lost>>
  BY DEF Next, CallStep, RunStep, Check, ExecuteFails, Register, CancelTask,
     DeleteEntry, PingOk, PrepareOk, RunFails, SyncEnds, Exit, Stop, Restart,
     vars
<1> QED
  BY <1>1, <1>2, <1>3, <1>4, <1>5, <1>6

\* The scheduler implements ExecutionLedger: one verdict per row, given once,
\* never to an orphaned row, across crashes, restarts and overlapping runs.
THEOREM LedgerKept == Spec => KeepsLedger
<1>1. Init => Ledger!Init
  BY DEF Init, Ledger!Init
<1>2. IInv /\ [Next]_vars => [Ledger!Next]_(Ledger!vars)
  BY StepSimulation
<1> QED
  BY <1>1, <1>2, Invariance, PTL DEF Spec, KeepsLedger, Ledger!Spec
=============================================================================
