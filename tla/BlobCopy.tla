------------------------------ MODULE BlobCopy -------------------------------
(***************************************************************************)
(* Copies of blobs into one repository of a target registry: CopyBlob and  *)
(* the requests it is made of (pkg/registry/blob.go), under the existence  *)
(* check and the retry of BlobSyncTask.Execute (pkg/sync/engine.go,        *)
(* retry.go).  The server's runs copy through the same CopyBlob after the  *)
(* same check and without a retry: a copy with a single attempt.           *)
(*                                                                         *)
(* Copies of one blob run side by side: a digest listed twice in a         *)
(* manifest gives two tasks of one pool, and two runs may write to one     *)
(* repository.  A request is one step, when its answer arrives.  Requests  *)
(* fail at any time, and what they asked for may have been done, or be     *)
(* done later.                                                             *)
(***************************************************************************)
EXTENDS Naturals

CONSTANTS
    Copies,
    Blobs,
    BlobOf,        \* copy -> the blob it copies
    MaxAttempts,   \* copy -> retry.max_attempts, 1 for a run of the server
    Mounts         \* the registry mounts a blob that it has

ASSUME CopyAssumption ==
    /\ BlobOf \in [Copies -> Blobs]
    /\ MaxAttempts \in [Copies -> Nat \ {0}]
    /\ Mounts \in BOOLEAN

VARIABLES
    present,     \* the blobs the target repository holds
    open,        \* copy -> its upload sessions that the registry keeps
    late,        \* copy -> its uploads that the registry still completes
                 \* although their requests have failed
    step,        \* copy -> the request it waits for, "wait" in the backoff,
                 \* "ok" or "failed" at the end
    attempt,     \* copy -> the number of its attempt
    cancelled,   \* the copies whose context is cancelled
    lastError    \* copy -> history: the error that ended its attempt,
                 \* "other" after an earlier one, "none" when none has failed

vars == <<present, open, late, step, attempt, cancelled, lastError>>

Steps == {"look", "check", "mount", "get", "begin", "send", "close", "wait",
          "ok", "failed"}
Ended == {"ok", "failed"}

\* What isRetryableError tells apart in the errors of a request:
\*   context    the end of the context, or what Go counts as such
\*   transient  a net.Error that is a timeout or temporary, or an answer in
\*              whose text it finds one of its words or numbers
\*   final      any other answer, and any other net.Error: every error of
\*              HTTPClient.Do is one, so that retry.go:93 decides, and a
\*              refused or reset connection is neither
Errors == {"context", "transient", "final"}

TypeOK ==
    /\ present \in SUBSET Blobs
    /\ open \in [Copies -> Nat]
    /\ late \in [Copies -> Nat]
    /\ step \in [Copies -> Steps]
    /\ attempt \in [Copies -> Nat]
    /\ \A c \in Copies : attempt[c] \in 1 .. MaxAttempts[c]
    /\ cancelled \in SUBSET Copies
    /\ lastError \in [Copies -> Errors \cup {"none", "other"}]

Init ==
    /\ present \in SUBSET Blobs
    /\ open = [c \in Copies |-> 0]
    /\ late = [c \in Copies |-> 0]
    /\ step = [c \in Copies |-> "look"]
    /\ attempt = [c \in Copies |-> 1]
    /\ cancelled = {}
    /\ lastError = [c \in Copies |-> "none"]

There(c) == BlobOf[c] \in present

\* What a request for a mount of c's blob is answered: 201, otherwise 202.
CanMount(c) == Mounts /\ There(c)

\* A request of c can be answered: its context is not cancelled.
Answered(c) == c \notin cancelled

\* The registry opens an upload session for c.
Opens(c) == open' = [open EXCEPT ![c] = @ + 1]

-----------------------------------------------------------------------------
(* An attempt that fails.  RetryWithBackoff gives up on an error that       *)
(* isRetryableError rejects, and on the last attempt.                       *)

\* The errors that a request of c can end with.
ErrorsOf(c) == IF c \in cancelled THEN {"context"} ELSE Errors

\* Mutant: the end of the context is an error like others.
RetriesContext(error) == error \in {"context", "transient"}

IsRetryableError(error) == error = "transient"

\* Mutant: one attempt too many.
AfterErrorLate(c, error) ==
    IF IsRetryableError(error) /\ attempt[c] <= MaxAttempts[c] THEN "wait"
                                                              ELSE "failed"

AfterError(c, error) ==
    IF IsRetryableError(error) /\ attempt[c] < MaxAttempts[c] THEN "wait"
                                                             ELSE "failed"

\* The request c waits for fails, and with it the attempt.
AttemptFails(c, request) ==
    /\ step[c] = request
    /\ \E error \in ErrorsOf(c) :
         /\ step' = [step EXCEPT ![c] = AfterError(c, error)]
         /\ lastError' = [lastError EXCEPT ![c] = error]
    /\ UNCHANGED <<attempt, cancelled>>

\* The request c waits for is answered, and c goes on to the step next.
Advance(c, request, next) ==
    /\ step[c] = request
    /\ Answered(c)
    /\ step' = [step EXCEPT ![c] = next]
    /\ UNCHANGED <<attempt, cancelled, lastError>>

-----------------------------------------------------------------------------
(* Execute, and runTask, ask for the blob before they copy it ...           *)

Look(c) ==
    /\ Advance(c, "look", IF There(c) THEN "ok" ELSE "check")
    /\ UNCHANGED <<present, open, late>>

\* ... and do not try again when they get no answer.
LookFails(c) ==
    /\ step[c] = "look"
    /\ step' = [step EXCEPT ![c] = "failed"]
    /\ lastError' = [lastError EXCEPT ![c] = "other"]
    /\ UNCHANGED <<present, open, late, attempt, cancelled>>

(* CopyBlob: the check, once more ...                                       *)

Check(c) ==
    /\ Advance(c, "check", IF There(c) THEN "ok" ELSE "mount")
    /\ UNCHANGED <<present, open, late>>

CheckFails(c) ==
    /\ AttemptFails(c, "check")
    /\ UNCHANGED <<present, open, late>>

(* ... MountBlob, from the target repository to itself ...                  *)

Mounted(c) ==
    /\ Advance(c, "mount", "ok")
    /\ CanMount(c)
    /\ UNCHANGED <<present, open, late>>

\* Mutant: 202 is taken for a mount.
MountRefusedIsOk(c) ==
    /\ Advance(c, "mount", "ok")
    /\ ~CanMount(c)
    /\ Opens(c)
    /\ UNCHANGED <<present, late>>

\* 202: the registry has opened an upload session, whose location nobody
\* reads.
MountRefused(c) ==
    /\ Advance(c, "mount", "get")
    /\ ~CanMount(c)
    /\ Opens(c)
    /\ UNCHANGED <<present, late>>

\* Mutant: the mount is tried again until it is answered.
MountFailsAgain(c) ==
    /\ step[c] = "mount"
    /\ lastError' = [lastError EXCEPT ![c] = "other"]
    /\ Opens(c)
    /\ UNCHANGED <<present, late, step, attempt, cancelled>>

\* An error of the mount is ignored.
MountFails(c) ==
    /\ step[c] = "mount"
    /\ step' = [step EXCEPT ![c] = "get"]
    /\ lastError' = [lastError EXCEPT ![c] = "other"]
    /\ Opens(c) \/ UNCHANGED open
    /\ UNCHANGED <<present, late, attempt, cancelled>>

(* ... GetBlob from the source ...                                          *)

Get(c) ==
    /\ Advance(c, "get", "begin")
    /\ UNCHANGED <<present, open, late>>

GetFails(c) ==
    /\ AttemptFails(c, "get")
    /\ UNCHANGED <<present, open, late>>

(* ... and PutBlob: initiateUpload, which asks for a mount again ...        *)

Begin(c) ==
    /\ Advance(c, "begin", "send")
    /\ ~CanMount(c)
    /\ Opens(c)
    /\ UNCHANGED <<present, late>>

\* 201, because somebody has copied the blob: the error "blob already
\* exists", which is not retried.
BeginMounted(c) ==
    /\ Advance(c, "begin", "failed")
    /\ CanMount(c)
    /\ UNCHANGED <<present, open, late>>

BeginFails(c) ==
    /\ AttemptFails(c, "begin")
    /\ Opens(c) \/ UNCHANGED open
    /\ UNCHANGED <<present, late>>

(* ... uploadContent, which also fails when the download breaks off ...     *)

Send(c) ==
    /\ Advance(c, "send", "close")
    /\ UNCHANGED <<present, open, late>>

SendFails(c) ==
    /\ AttemptFails(c, "send")
    /\ UNCHANGED <<present, open, late>>

(* ... and completeUpload.                                                  *)

Close(c) ==
    /\ Advance(c, "close", "ok")
    /\ present' = present \cup {BlobOf[c]}
    /\ open' = [open EXCEPT ![c] = @ - 1]
    /\ UNCHANGED late

\* Mutant: the status of the last request is not looked at.
CloseFailsIsOk(c) ==
    /\ step[c] = "close"
    /\ step' = [step EXCEPT ![c] = "ok"]
    /\ lastError' = [lastError EXCEPT ![c] = "other"]
    /\ late' = [late EXCEPT ![c] = @ + 1] \/ UNCHANGED late
    /\ UNCHANGED <<present, open, attempt, cancelled>>

\* Refused, or given up while the registry is about to complete it.
CloseFails(c) ==
    /\ AttemptFails(c, "close")
    /\ late' = [late EXCEPT ![c] = @ + 1] \/ UNCHANGED late
    /\ UNCHANGED <<present, open>>

\* The registry completes an upload whose request has failed.
LateClose(c) ==
    /\ late[c] > 0
    /\ late' = [late EXCEPT ![c] = @ - 1]
    /\ present' = present \cup {BlobOf[c]}
    /\ open' = [open EXCEPT ![c] = @ - 1]
    /\ UNCHANGED <<step, attempt, cancelled, lastError>>

-----------------------------------------------------------------------------
(* Between two attempts, and the cancellation of a run.                     *)

\* Mutant: the loop does not count its attempts.
BackoffUncounted(c) ==
    /\ step[c] = "wait"
    /\ step' = [step EXCEPT ![c] = "check"]
    /\ UNCHANGED <<present, open, late, attempt, cancelled, lastError>>

Backoff(c) ==
    /\ step[c] = "wait"
    /\ step' = [step EXCEPT ![c] = "check"]
    /\ attempt' = [attempt EXCEPT ![c] = @ + 1]
    /\ lastError' = [lastError EXCEPT ![c] = "other"]
    /\ UNCHANGED <<present, open, late, cancelled>>

BackoffCancelled(c) ==
    /\ step[c] = "wait"
    /\ c \in cancelled
    /\ step' = [step EXCEPT ![c] = "failed"]
    /\ lastError' = [lastError EXCEPT ![c] = "context"]
    /\ UNCHANGED <<present, open, late, attempt, cancelled>>

Cancel(c) ==
    /\ step[c] \notin Ended
    /\ cancelled' = cancelled \cup {c}
    /\ UNCHANGED <<present, open, late, step, attempt, lastError>>

CopyStep(c) ==
    \/ Look(c) \/ LookFails(c)
    \/ Check(c) \/ CheckFails(c)
    \/ Mounted(c) \/ MountRefused(c) \/ MountFails(c)
    \/ Get(c) \/ GetFails(c)
    \/ Begin(c) \/ BeginMounted(c) \/ BeginFails(c)
    \/ Send(c) \/ SendFails(c)
    \/ Close(c) \/ CloseFails(c)
    \/ Backoff(c) \/ BackoffCancelled(c)

Next == \E c \in Copies : CopyStep(c) \/ LateClose(c) \/ Cancel(c)

Spec == Init /\ [][Next]_vars

\* Every request ends (the client's timeout is 300 s) and every backoff too.
\* The registry owes nothing to an upload whose request has failed.
FairSpec == Spec /\ \A c \in Copies : WF_vars(CopyStep(c))

-----------------------------------------------------------------------------
(* Properties                                                               *)

\* The copies a request of which has failed.
troubled == {c \in Copies : lastError[c] # "none"}

\* The blob is there when a copy succeeds; it is there too when a copy fails
\* although each of its requests was answered (blob.go:99), so that the next
\* run skips it.
EndedMeansThere ==
    \A c \in Copies :
        \/ step[c] = "ok"
        \/ step[c] = "failed" /\ c \notin troubled \cup cancelled
        => There(c)

\* A copy leaves at most two sessions an attempt in the registry, and a copy
\* that succeeds at most one in its last attempt: an upload that succeeds
\* closes its own, the one of the refused mount is left (blob.go:218).
LeakBounded ==
    \A c \in Copies :
        open[c] <= 2 * attempt[c] - (IF step[c] = "ok" THEN 1 ELSE 0)

\* To its caller a copy is one step, which leaves the blob in the target if
\* it succeeds.
Atomic == INSTANCE AtomicCopy WITH
    result <- [c \in Copies |-> IF step[c] \in Ended THEN step[c] ELSE "busy"]
CopiesAtomically == Atomic!Spec

\* A copy ends, however often its requests fail and whatever the others do.
CopyEnds == \A c \in Copies : <>(step[c] \in Ended)

\* A stop reaches a copy in the middle of its retries: it begins at most one
\* more attempt, when it was in the backoff, and never waits again.
StopEndsRetries == [][\A c \in cancelled :
    step[c] # "wait" => attempt'[c] = attempt[c] /\ step'[c] # "wait"]_vars

\* "Incremental sync: check whether the blob exists, skip the layers that do"
\* (PROJECT_STRUCTURE.md:126): a copy whose requests are all answered does
\* not fail because somebody else has copied the blob meanwhile.
AlreadyThereIsSkipped ==
    \A c \in Copies : step[c] = "failed" => c \in troubled \cup cancelled
=============================================================================
