--------------------------- MODULE BlobCopyProofs ----------------------------
(***************************************************************************)
(* Theorems about BlobCopy, for any number of copies, of blobs and of      *)
(* attempts, whether the registry mounts or not: its invariants, and that  *)
(* it implements AtomicCopy.                                               *)
(*                                                                         *)
(* The bound on the sessions is not inductive: it has to say how many of   *)
(* its two sessions an attempt has opened when it is at a given request,   *)
(* and TypeOK that no copy waits for an attempt that it does not have.     *)
(***************************************************************************)
EXTENDS BlobCopy, TLAPS

\* The sessions that the current attempt can still open, or has closed.
Unused(s) == IF s \in {"look", "check", "mount"} THEN 2
             ELSE IF s \in {"get", "begin", "ok"} THEN 1 ELSE 0

\* The session that an upload writes to.
Writing(s) == IF s \in {"send", "close"} THEN 1 ELSE 0

\* The uploads under way have a session each, and an attempt opens two.
SessionsOK ==
    \A c \in Copies :
        /\ late[c] + Writing(step[c]) <= open[c]
        /\ open[c] + Unused(step[c]) <= 2 * attempt[c]

\* A copy waits only for an attempt that it still has.
WaitOK ==
    \A c \in Copies : step[c] = "wait" => attempt[c] < MaxAttempts[c]

IInv == TypeOK /\ SessionsOK /\ WaitOK /\ EndedMeansThere

-----------------------------------------------------------------------------
\* The variables keep their types; an attempt is never one too many.
LEMMA TypeStep ==
  ASSUME IInv, NEW c \in Copies,
         CopyStep(c) \/ LateClose(c) \/ Cancel(c)
  PROVE  TypeOK'
<1> USE CopyAssumption DEF IInv, TypeOK, Steps, Errors
<1>1. CASE Look(c) \/ Check(c)
  BY <1>1 DEF Look, Check, Advance
<1>2. CASE LookFails(c)
  BY <1>2 DEF LookFails
<1>3. CASE CheckFails(c) \/ GetFails(c) \/ SendFails(c)
  BY <1>3 DEF CheckFails, GetFails, SendFails, AttemptFails, AfterError, ErrorsOf
<1>4. CASE Mounted(c) \/ Get(c) \/ BeginMounted(c) \/ Send(c)
  BY <1>4 DEF Mounted, Get, BeginMounted, Send, Advance
<1>5. CASE MountRefused(c) \/ Begin(c)
  BY <1>5 DEF MountRefused, Begin, Advance, Opens
<1>6. CASE MountFails(c)
  BY <1>6 DEF MountFails, Opens
<1>7. CASE BeginFails(c)
  BY <1>7 DEF BeginFails, AttemptFails, AfterError, ErrorsOf, Opens
<1>8. CASE Close(c)
  <2>1. step[c] = "close" /\ late[c] \in Nat /\ open[c] \in Nat
    BY <1>8 DEF Close, Advance
  <2>2. late[c] + 1 <= open[c]
    BY <2>1 DEF SessionsOK, Writing
  <2>3. open[c] - 1 \in Nat
    BY <2>1, <2>2
  <2> QED
    BY <1>8, <2>3 DEF Close, Advance
<1>9. CASE CloseFails(c)
  BY <1>9 DEF CloseFails, AttemptFails, AfterError, ErrorsOf
<1>10. CASE LateClose(c)
  <2>1. open[c] - 1 \in Nat /\ late[c] - 1 \in Nat
    BY <1>10 DEF LateClose, SessionsOK, Writing
  <2> QED
    BY <1>10, <2>1 DEF LateClose
<1>11. CASE Backoff(c)
  BY <1>11 DEF Backoff, WaitOK
<1>12. CASE BackoffCancelled(c)
  BY <1>12 DEF BackoffCancelled
<1>13. CASE Cancel(c)
  BY <1>13 DEF Cancel
<1> QED
  BY <1>1, <1>2, <1>3, <1>4, <1>5, <1>6, <1>7, <1>8, <1>9, <1>10, <1>11,
     <1>12, <1>13 DEF CopyStep

\* The uploads keep their sessions and the attempts their bound.
LEMMA SessionsStep ==
  ASSUME IInv, NEW c \in Copies,
         CopyStep(c) \/ LateClose(c) \/ Cancel(c)
  PROVE  SessionsOK'
<1> USE DEF IInv, TypeOK, SessionsOK, Writing, Unused
<1>1. CASE Look(c) \/ Check(c)
  BY <1>1 DEF Look, Check, Advance
<1>2. CASE LookFails(c)
  BY <1>2 DEF LookFails
<1>3. CASE CheckFails(c) \/ GetFails(c) \/ SendFails(c)
  BY <1>3 DEF CheckFails, GetFails, SendFails, AttemptFails, AfterError, ErrorsOf
<1>4. CASE Mounted(c) \/ Get(c) \/ BeginMounted(c) \/ Send(c)
  BY <1>4 DEF Mounted, Get, BeginMounted, Send, Advance
<1>5. CASE MountRefused(c) \/ Begin(c)
  BY <1>5 DEF MountRefused, Begin, Advance, Opens
<1>6. CASE MountFails(c)
  BY <1>6 DEF MountFails, Opens
<1>7. CASE BeginFails(c)
  BY <1>7 DEF BeginFails, AttemptFails, AfterError, ErrorsOf, Opens
<1>8. CASE Close(c)
  BY <1>8 DEF Close, Advance
<1>9. CASE CloseFails(c)
  BY <1>9 DEF CloseFails, AttemptFails, AfterError, ErrorsOf
<1>10. CASE LateClose(c)
  BY <1>10 DEF LateClose
<1>11. CASE Backoff(c)
  BY <1>11 DEF Backoff
<1>12. CASE BackoffCancelled(c)
  BY <1>12 DEF BackoffCancelled
<1>13. CASE Cancel(c)
  BY <1>13 DEF Cancel
<1> QED
  BY <1>1, <1>2, <1>3, <1>4, <1>5, <1>6, <1>7, <1>8, <1>9, <1>10, <1>11,
     <1>12, <1>13 DEF CopyStep

\* A copy goes into the backoff only when it has an attempt left.
LEMMA WaitStep ==
  ASSUME IInv, NEW c \in Copies,
         CopyStep(c) \/ LateClose(c) \/ Cancel(c)
  PROVE  WaitOK'
<1> USE DEF IInv, TypeOK, WaitOK
<1>1. CASE CheckFails(c) \/ GetFails(c) \/ BeginFails(c) \/ SendFails(c)
           \/ CloseFails(c)
  BY <1>1 DEF CheckFails, GetFails, BeginFails, SendFails, CloseFails,
     AttemptFails, AfterError, ErrorsOf
<1>2. CASE Look(c) \/ Check(c) \/ Mounted(c) \/ MountRefused(c) \/ Get(c)
           \/ Begin(c) \/ BeginMounted(c) \/ Send(c) \/ Close(c)
  BY <1>2 DEF Look, Check, Mounted, MountRefused, Get, Begin, BeginMounted,
     Send, Close, Advance
<1>3. CASE LookFails(c) \/ MountFails(c) \/ BackoffCancelled(c)
  BY <1>3 DEF LookFails, MountFails, BackoffCancelled
<1>4. CASE Backoff(c)
  BY <1>4 DEF Backoff
<1>5. CASE LateClose(c) \/ Cancel(c)
  BY <1>5 DEF LateClose, Cancel
<1> QED
  BY <1>1, <1>2, <1>3, <1>4, <1>5 DEF CopyStep

\* A copy ends where its blob is there, or after a request that failed.
LEMMA ThereStep ==
  ASSUME IInv, NEW c \in Copies,
         CopyStep(c) \/ LateClose(c) \/ Cancel(c)
  PROVE  EndedMeansThere'
<1> USE DEF IInv, TypeOK, EndedMeansThere, There, troubled, Errors
<1>1. CASE Look(c) \/ Check(c)
  BY <1>1 DEF Look, Check, Advance
<1>2. CASE LookFails(c)
  BY <1>2 DEF LookFails
<1>3. CASE CheckFails(c) \/ GetFails(c) \/ SendFails(c) \/ BeginFails(c)
  BY <1>3 DEF CheckFails, GetFails, SendFails, BeginFails, AttemptFails,
     AfterError, ErrorsOf
<1>4. CASE Mounted(c) \/ BeginMounted(c)
  BY <1>4 DEF Mounted, BeginMounted, CanMount, Advance
<1>5. CASE MountRefused(c) \/ Get(c) \/ Begin(c) \/ Send(c)
  BY <1>5 DEF MountRefused, Get, Begin, Send, Advance
<1>6. CASE MountFails(c)
  BY <1>6 DEF MountFails
<1>7. CASE Close(c)
  BY <1>7 DEF Close, Advance
<1>8. CASE CloseFails(c)
  BY <1>8 DEF CloseFails, AttemptFails, AfterError, ErrorsOf
<1>9. CASE LateClose(c)
  BY <1>9 DEF LateClose
<1>10. CASE Backoff(c)
  BY <1>10 DEF Backoff
<1>11. CASE BackoffCancelled(c)
  BY <1>11 DEF BackoffCancelled
<1>12. CASE Cancel(c)
  BY <1>12 DEF Cancel, Ended
<1> QED
  BY <1>1, <1>2, <1>3, <1>4, <1>5, <1>6, <1>7, <1>8, <1>9, <1>10, <1>11,
     <1>12 DEF CopyStep

\* Every reachable state satisfies the inductive invariant.
THEOREM Invariance == Spec => []IInv
<1>1. Init => IInv
  <2> SUFFICES ASSUME Init PROVE IInv
    OBVIOUS
  <2>1. TypeOK
    BY CopyAssumption DEF Init, TypeOK, Steps
  <2>2. SessionsOK
    <3> SUFFICES ASSUME NEW c \in Copies
                 PROVE  /\ late[c] + Writing(step[c]) <= open[c]
                        /\ open[c] + Unused(step[c]) <= 2 * attempt[c]
      BY DEF SessionsOK
    <3>1. late[c] = 0 /\ open[c] = 0 /\ attempt[c] = 1 /\ step[c] = "look"
      BY DEF Init
    <3>2. Writing(step[c]) = 0 /\ Unused(step[c]) = 2
      BY <3>1 DEF Writing, Unused
    <3> QED
      BY <3>1, <3>2
  <2>3. WaitOK /\ EndedMeansThere
    BY DEF Init, WaitOK, EndedMeansThere
  <2> QED
    BY <2>1, <2>2, <2>3 DEF IInv
<1>2. IInv /\ [Next]_vars => IInv'
  <2> SUFFICES ASSUME IInv, [Next]_vars PROVE IInv'
    OBVIOUS
  <2>1. CASE Next
    <3>1. PICK c \in Copies : CopyStep(c) \/ LateClose(c) \/ Cancel(c)
      BY <2>1 DEF Next
    <3> QED
      BY <3>1, TypeStep, SessionsStep, WaitStep, ThereStep DEF IInv
  <2>2. CASE UNCHANGED vars
    BY <2>2 DEF vars, IInv, TypeOK, SessionsOK, WaitOK, EndedMeansThere,
       There, troubled
  <2> QED
    BY <2>1, <2>2
<1> QED
  BY <1>1, <1>2, PTL DEF Spec

\* Types, and no more attempts than the configuration allows.
THEOREM TypeCorrect == Spec => []TypeOK
<1>1. IInv => TypeOK
  BY DEF IInv
<1> QED
  BY <1>1, Invariance, PTL

\* A copy that succeeds, or that fails with each request answered, leaves
\* the blob in the target, whoever has put it there.
THEOREM EndedThere == Spec => []EndedMeansThere
<1>1. IInv => EndedMeansThere
  BY DEF IInv
<1> QED
  BY <1>1, Invariance, PTL

\* The upload sessions a copy leaves behind are at most two an attempt.
THEOREM LeaksBounded == Spec => []LeakBounded
<1>1. IInv => LeakBounded
  <2> SUFFICES ASSUME IInv, NEW c \in Copies
               PROVE  open[c] <= 2 * attempt[c]
                                   - (IF step[c] = "ok" THEN 1 ELSE 0)
    BY DEF LeakBounded
  <2>1. open[c] \in Nat /\ attempt[c] \in Nat
    BY DEF IInv, TypeOK
  <2>2. open[c] + Unused(step[c]) <= 2 * attempt[c]
    BY DEF IInv, SessionsOK
  <2> QED
    BY <2>1, <2>2 DEF Unused
<1> QED
  BY <1>1, Invariance, PTL

\* A step of a copy that was stopped is not into the backoff, and not into
\* another attempt unless it was there.
LEMMA StopStep ==
  ASSUME TypeOK, NEW d \in Copies, NEW c \in cancelled, step[c] # "wait",
         CopyStep(d) \/ LateClose(d) \/ Cancel(d)
  PROVE  attempt'[c] = attempt[c] /\ step'[c] # "wait"
<1>1. c \in Copies
  BY DEF TypeOK
<1>2. CASE c # d
  BY <1>1, <1>2 DEF TypeOK, CopyStep, Look, LookFails, Check, CheckFails,
     Mounted, MountRefused, MountFails, Get, GetFails, Begin, BeginMounted,
     BeginFails, Send, SendFails, Close, CloseFails, Backoff,
     BackoffCancelled, LateClose, Cancel, Advance, AttemptFails
<1>3. CASE c = d
  <2>1. CASE CheckFails(d) \/ GetFails(d) \/ BeginFails(d) \/ SendFails(d)
             \/ CloseFails(d)
    <3>1. PICK error \in ErrorsOf(d) :
             step' = [step EXCEPT ![d] = AfterError(d, error)]
      BY <2>1 DEF CheckFails, GetFails, BeginFails, SendFails, CloseFails,
         AttemptFails
    <3>2. AfterError(d, error) = "failed"
      BY <1>3 DEF ErrorsOf, AfterError, IsRetryableError
    <3> QED
      BY <1>1, <1>3, <2>1, <3>1, <3>2 DEF TypeOK, CheckFails, GetFails,
         BeginFails, SendFails, CloseFails, AttemptFails
  <2>2. CASE ~(CheckFails(d) \/ GetFails(d) \/ BeginFails(d) \/ SendFails(d)
               \/ CloseFails(d))
    BY <1>1, <1>3, <2>2 DEF TypeOK, CopyStep, Look, LookFails, Check, Mounted,
       MountRefused, MountFails, Get, Begin, BeginMounted, Send, Close,
       Backoff, BackoffCancelled, LateClose, Cancel, Advance
  <2> QED
    BY <2>1, <2>2
<1> QED
  BY <1>2, <1>3

\* A stop ends the retries of a copy, whatever its requests end with.
THEOREM StopsRetrying == Spec => StopEndsRetries
<1> DEFINE Stopped == \A c \in cancelled :
             step[c] # "wait" => attempt'[c] = attempt[c] /\ step'[c] # "wait"
<1>1. IInv /\ [Next]_vars => [Stopped]_vars
  <2> SUFFICES ASSUME IInv, Next PROVE Stopped
    OBVIOUS
  <2>1. PICK d \in Copies : CopyStep(d) \/ LateClose(d) \/ Cancel(d)
    BY DEF Next
  <2> QED
    BY <2>1, StopStep DEF IInv
<1> QED
  BY <1>1, Invariance, PTL DEF Spec, StopEndsRetries

-----------------------------------------------------------------------------
\* Each step of a copy lands its blob, ends it, or is invisible to its caller.
LEMMA StepSimulation ==
  ASSUME IInv, IInv', [Next]_vars
  PROVE  [Atomic!Next]_(Atomic!vars)
<1> DEFINE result == [c \in Copies |-> IF step[c] \in Ended THEN step[c]
                                                             ELSE "busy"]
<1> USE DEF Atomic!Next, Atomic!vars, Ended
<1>1. CASE UNCHANGED vars
  BY <1>1 DEF vars
<1>2. CASE Next
  <2>1. PICK c \in Copies : CopyStep(c) \/ LateClose(c) \/ Cancel(c)
    BY <1>2 DEF Next
  <2>2. CASE LateClose(c)
    <3>1. Atomic!Land(c)
      BY <2>2 DEF LateClose, Atomic!Land
    <3> QED
      BY <3>1
  <2>3. CASE Cancel(c)
    BY <2>3 DEF Cancel
  <2>4. CASE CopyStep(c)
    <3>1. step[c] \notin Ended
      BY <2>4 DEF CopyStep, Look, LookFails, Check, CheckFails, Mounted,
         MountRefused, MountFails, Get, GetFails, Begin, BeginMounted,
         BeginFails, Send, SendFails, Close, CloseFails, Backoff,
         BackoffCancelled, Advance, AttemptFails
    <3>2. /\ \A d \in Copies \ {c} : step'[d] = step[d]
          /\ \/ present' = present
             \/ step'[c] = "ok" /\ present' = present \cup {BlobOf[c]}
      BY <2>4 DEF IInv, TypeOK, CopyStep, Look, LookFails, Check, CheckFails,
         Mounted, MountRefused, MountFails, Get, GetFails, Begin,
         BeginMounted, BeginFails, Send, SendFails, Close, CloseFails, Backoff,
         BackoffCancelled, Advance, AttemptFails
    <3>3. CASE step'[c] = "ok"
      <4>1. BlobOf[c] \in present'
        BY <3>3 DEF IInv, EndedMeansThere, There
      <4>2. present' = present \cup {BlobOf[c]}
        BY <3>2, <4>1
      <4>3. Atomic!Succeed(c)
        BY <3>1, <3>2, <3>3, <4>2 DEF Atomic!Succeed
      <4> QED
        BY <4>3
    <3>4. CASE step'[c] = "failed"
      <4>1. Atomic!Fail(c)
        BY <3>1, <3>2, <3>4 DEF Atomic!Fail
      <4> QED
        BY <4>1
    <3>5. CASE step'[c] \notin Ended
      <4>1. present' = present /\ result' = result
        BY <3>1, <3>2, <3>5
      <4> QED
        BY <4>1
    <3> QED
      BY <3>3, <3>4, <3>5
  <2> QED
    BY <2>1, <2>2, <2>3, <2>4
<1> QED
  BY <1>1, <1>2

\* The protocol of requests, retries and late answers implements AtomicCopy.
THEOREM CopyRefines == Spec => CopiesAtomically
<1>1. Init => Atomic!Init
  BY DEF Init, Atomic!Init, Ended
<1>2. IInv /\ IInv' /\ [Next]_vars => [Atomic!Next]_(Atomic!vars)
  BY StepSimulation
<1> QED
  BY <1>1, <1>2, Invariance, PTL DEF Spec, CopiesAtomically, Atomic!Spec
-----------------------------------------------------------------------------
(* That a copy ends.  The prover knows no fairness, but that every step of *)
(* a copy uses up one of finitely many can be said without it.             *)

\* The requests that an attempt has before it, and the backoff.
Ahead(s) == CASE s = "look" -> 9 [] s = "check" -> 8 [] s = "mount" -> 7
              [] s = "get" -> 6 [] s = "begin" -> 5 [] s = "send" -> 4
              [] s = "close" -> 3 [] s = "wait" -> 2
              [] s = "ok" -> 0 [] s = "failed" -> 0

StepsLeft(c) == 10 * (MaxAttempts[c] - attempt[c]) + Ahead(step[c])

\* A step of a copy that stays in the attempt goes on in it.
LEMMA AttemptGoesOn ==
  ASSUME IInv, NEW c \in Copies, CopyStep(c), ~Backoff(c)
  PROVE  /\ attempt' = attempt /\ \A d \in Copies \ {c} : step'[d] = step[d]
         /\ step'[c] \in Steps /\ Ahead(step'[c]) < Ahead(step[c])
<1> USE DEF IInv, TypeOK, Steps
<1>1. CASE Look(c) \/ Check(c) \/ Mounted(c) \/ MountRefused(c) \/ Get(c)
           \/ Begin(c) \/ BeginMounted(c) \/ Send(c) \/ Close(c)
  BY <1>1 DEF Look, Check, Mounted, MountRefused, Get, Begin, BeginMounted, Send,
     Close, Advance, Ahead
<1>2. CASE CheckFails(c) \/ GetFails(c) \/ BeginFails(c) \/ SendFails(c)
           \/ CloseFails(c)
  BY <1>2 DEF CheckFails, GetFails, BeginFails, SendFails, CloseFails,
     AttemptFails, AfterError, Ahead
<1>3. CASE LookFails(c) \/ MountFails(c) \/ BackoffCancelled(c)
  BY <1>3 DEF LookFails, MountFails, BackoffCancelled, Ahead
<1> QED
  BY <1>1, <1>2, <1>3 DEF CopyStep

\* Every step of a copy leaves it fewer, and the other steps not more.
LEMMA FewerStep ==
  ASSUME IInv, Next, NEW c \in Copies
  PROVE  /\ StepsLeft(c) \in Nat
         /\ StepsLeft(c)' <= StepsLeft(c)
         /\ CopyStep(c) => StepsLeft(c)' < StepsLeft(c)
<1>1. /\ attempt[c] \in 1..MaxAttempts[c] /\ MaxAttempts[c] \in Nat
      /\ step[c] \in Steps /\ step \in [Copies -> Steps] /\ attempt \in [Copies -> Nat]
  BY CopyAssumption DEF IInv, TypeOK
<1>2. \A s \in Steps : Ahead(s) \in Nat
  BY DEF Steps, Ahead
<1>3. StepsLeft(c) \in Nat
  BY <1>1, <1>2 DEF StepsLeft
<1>4. ASSUME CopyStep(c) PROVE StepsLeft(c)' < StepsLeft(c)
  <2>1. CASE Backoff(c)
    <3>1. step[c] = "wait" /\ step'[c] = "check" /\ attempt'[c] = attempt[c] + 1
      BY <1>1, <2>1 DEF Backoff
    <3>2. Ahead("wait") = 2 /\ Ahead("check") = 8
      BY DEF Ahead
    <3> QED
      BY <1>1, <3>1, <3>2 DEF StepsLeft
  <2>2. CASE ~Backoff(c)
    <3>1. /\ attempt' = attempt /\ step'[c] \in Steps
          /\ Ahead(step'[c]) < Ahead(step[c])
      BY <1>4, <2>2, AttemptGoesOn
    <3> QED
      BY <1>1, <1>2, <3>1 DEF StepsLeft
  <2> QED
    BY <2>1, <2>2
<1>5. ASSUME ~CopyStep(c) PROVE StepsLeft(c)' = StepsLeft(c)
  <2>1. step'[c] = step[c] /\ attempt'[c] = attempt[c]
    <3>1. PICK d \in Copies : CopyStep(d) \/ LateClose(d) \/ Cancel(d)
      BY DEF Next
    <3>2. CASE LateClose(d) \/ Cancel(d)
      BY <3>2 DEF LateClose, Cancel
    <3>3. CASE CopyStep(d) /\ Backoff(d)
      BY <1>1, <1>5, <3>3 DEF Backoff
    <3>4. CASE CopyStep(d) /\ ~Backoff(d)
      BY <1>5, <3>4, AttemptGoesOn
    <3> QED
      BY <3>1, <3>2, <3>3, <3>4
  <2> QED
    BY <2>1 DEF StepsLeft
<1>6. StepsLeft(c)' <= StepsLeft(c)
  <2>1. CASE CopyStep(c)
    <3>1. PICK d \in Copies : CopyStep(d) \/ LateClose(d) \/ Cancel(d)
      BY DEF Next
    <3>2. TypeOK'
      BY <3>1, TypeStep
    <3>3. attempt'[c] \in 1..MaxAttempts[c] /\ step'[c] \in Steps
      BY <3>2 DEF TypeOK
    <3>4. StepsLeft(c)' \in Nat
      BY <1>1, <1>2, <3>3 DEF StepsLeft
    <3> QED
      BY <1>3, <1>4, <2>1, <3>4
  <2> QED
    BY <1>3, <1>5, <2>1
<1> QED
  BY <1>3, <1>4, <1>6

\* A copy has at most ten steps an attempt, whatever is answered and whatever
\* other copies and late uploads do: each of its steps uses up one.
THEOREM StepsRunOut ==
  Spec => [][\A c \in Copies :
                /\ StepsLeft(c) \in Nat
                /\ StepsLeft(c)' <= StepsLeft(c)
                /\ CopyStep(c) => StepsLeft(c)' < StepsLeft(c)]_vars
<1>1. ASSUME IInv, [Next]_vars
      PROVE  [\A c \in Copies :
                /\ StepsLeft(c) \in Nat
                /\ StepsLeft(c)' <= StepsLeft(c)
                /\ CopyStep(c) => StepsLeft(c)' < StepsLeft(c)]_vars
  BY <1>1, FewerStep
<1> QED
  BY <1>1, Invariance, PTL DEF Spec
=============================================================================
