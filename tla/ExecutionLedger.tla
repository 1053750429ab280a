--------------------------- MODULE ExecutionLedger ---------------------------
(***************************************************************************)
(* What the executions table promises to the pages that read it: a row is  *)
(* opened once as "running", it is closed at most once, with one verdict,  *)
(* and otherwise it is orphaned: the process that would have closed it     *)
(* died, or the database refused the statement, and it stays "running".    *)
(***************************************************************************)
CONSTANT Execs

VARIABLES
    record,   \* the Status column of each row, "absent" before it exists
    orphans   \* the rows nobody will close

vars == <<record, orphans>>

Init ==
    /\ record = [e \in Execs |-> "absent"]
    /\ orphans = {}

Open(e) ==
    /\ record[e] = "absent"
    /\ record' = [record EXCEPT ![e] = "running"]
    /\ UNCHANGED orphans

Close(e) ==
    /\ record[e] = "running"
    /\ e \notin orphans
    /\ \E verdict \in {"success", "failed"} :
          record' = [record EXCEPT ![e] = verdict]
    /\ UNCHANGED orphans

Abandon ==
    /\ \E S \in SUBSET {e \in Execs : record[e] = "running"} :
          orphans' = orphans \cup S
    /\ UNCHANGED record

Next ==
    \/ \E e \in Execs : Open(e) \/ Close(e)
    \/ Abandon

Spec == Init /\ [][Next]_vars

\* Every open row that is not orphaned is closed some day.
FairSpec == Spec /\ \A e \in Execs : WF_vars(Close(e))
=============================================================================
