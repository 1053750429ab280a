----------------------------- MODULE AtomicCopy ------------------------------
(***************************************************************************)
(* What the copy of a blob promises to its caller, and all that SyncRun    *)
(* and the worker pool assume of it: a copy that succeeds leaves the blob  *)
(* in the target, a copy that fails may or may not, perhaps only later.    *)
(***************************************************************************)
CONSTANTS Copies, Blobs, BlobOf

VARIABLES
    present,   \* the blobs the target repository holds
    result     \* copy -> "busy", "ok" or "failed"

vars == <<present, result>>

Init ==
    /\ present \in SUBSET Blobs
    /\ result = [c \in Copies |-> "busy"]

\* The registry completes an upload of c, whoever still waits for it.
Land(c) ==
    /\ present' = present \cup {BlobOf[c]}
    /\ UNCHANGED result

Succeed(c) ==
    /\ result[c] = "busy"
    /\ present' = present \cup {BlobOf[c]}
    /\ result' = [result EXCEPT ![c] = "ok"]

Fail(c) ==
    /\ result[c] = "busy"
    /\ result' = [result EXCEPT ![c] = "failed"]
    /\ UNCHANGED present

Next == \E c \in Copies : Land(c) \/ Succeed(c) \/ Fail(c)

Spec == Init /\ [][Next]_vars
=============================================================================
