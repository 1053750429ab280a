------------------------------- MODULE SyncRun -------------------------------
(***************************************************************************)
(* The "sync" phase of a run: the analysis and the transfer loop of        *)
(* runTask, internal/scheduler/scheduler.go 347-684.  Several runs, of one *)
(* task or of several, write to one target registry without any            *)
(* coordination; each may be cancelled, and each may die with the process. *)
(*                                                                         *)
(* A request of the code is one step here, at the moment the registry      *)
(* answers it.  It may fail at any time, it fails when the context is      *)
(* cancelled, and a write that fails may have been carried out all the     *)
(* same.  The requests of CopyBlob are one step.  The three nested loops   *)
(* keep an index each, counted from 1.                                     *)
(***************************************************************************)
EXTENDS Naturals, Sequences

CONSTANTS
    Repos, Tags, Blobs, Images, Lists, BlobsOf, EntriesOf, None,
             \* the content of the registries, see ClosedRegistry
    Runs,
    Source   \* run -> the tags its filters keep, repository by repository

Items == [repo : Repos, tag : Tags, manifest : Images \cup Lists]

ASSUME ContentAssumption ==
    /\ BlobsOf \in [Images -> Seq(Blobs)]
    /\ EntriesOf \in [Lists -> Seq(Images)]
    /\ Images \cap Lists = {}
    /\ None \notin Images \cup Lists

ASSUME SourceAssumption == Source \in [Runs -> Seq(Items)]

VARIABLES
    blobs, manifests, tags,   \* the target registry, see ClosedRegistry
    at,                       \* where each run is: its loops and flags
    count,                    \* the four counters of its execution row
    cancelled                 \* the runs whose context is cancelled

target == <<blobs, manifests, tags>>
vars == <<blobs, manifests, tags, at, count, cancelled>>

\* scheduler.go:423, the guess for the blobs of one platform.
Estimate == 10

Init ==
    /\ blobs \in SUBSET (Repos \X Blobs)
    /\ manifests = {}
    /\ tags = [x \in Repos \X Tags |-> None]
    /\ at = [r \in Runs |-> [step |-> "analyse", next |-> 1, plan |-> <<>>,
                             tag |-> 1, entry |-> 1, blob |-> 1,
                             tagFailed |-> FALSE, subFailed |-> FALSE]]
    /\ count = [r \in Runs |-> [total |-> 0, synced |-> 0, skipped |-> 0,
                                failed |-> 0]]
    /\ cancelled = {}

Item(r) == at[r].plan[at[r].tag]
IsList(r) == Item(r).manifest \in Lists
Entries(r) == EntriesOf[Item(r).manifest]
Image(r) == IF IsList(r) THEN Entries(r)[at[r].entry] ELSE Item(r).manifest
BlobsHere(r) == BlobsOf[Image(r)]
Blob(r) == BlobsHere(r)[at[r].blob]

Here(r, x) == <<Item(r).repo, x>>

\* The answer to a request of r can be a success.
Answered(r) == r \notin cancelled

-----------------------------------------------------------------------------
(* First pass: list the tags, filter them, fetch the manifests, estimate.   *)

BlobCount(m) ==
    IF m \in Lists THEN Len(EntriesOf[m]) * (1 + Estimate)
                   ELSE Len(BlobsOf[m])

Analyse(r) ==
    /\ at[r].step = "analyse" /\ at[r].next <= Len(Source[r])
    /\ Answered(r)
    /\ LET item == Source[r][at[r].next] IN
         /\ at' = [at EXCEPT ![r].next = @ + 1, ![r].plan = Append(@, item)]
         /\ count' = [count EXCEPT ![r].total = @ + BlobCount(item.manifest)]
    /\ UNCHANGED <<blobs, manifests, tags, cancelled>>

\* Mutant: a tag whose analysis fails is tried again.
AnalyseFailsRetries(r) ==
    /\ at[r].step = "analyse" /\ at[r].next <= Len(Source[r])
    /\ at' = at
    /\ UNCHANGED <<blobs, manifests, tags, count, cancelled>>

\* ListTags, NewFilter or GetManifest fails: logged, and the tag is left out
\* (a repository that cannot be listed leaves out each of its tags).
AnalyseFails(r) ==
    /\ at[r].step = "analyse" /\ at[r].next <= Len(Source[r])
    /\ at' = [at EXCEPT ![r].next = @ + 1]
    /\ UNCHANGED <<blobs, manifests, tags, count, cancelled>>

AnalysisDone(r) ==
    /\ at[r].step = "analyse" /\ at[r].next > Len(Source[r])
    /\ at' = [at EXCEPT ![r].step = "tag"]
    /\ UNCHANGED <<blobs, manifests, tags, count, cancelled>>

-----------------------------------------------------------------------------
(* Second pass: the loop over the tags of the plan ...                      *)

NextTag(r) ==
    /\ at[r].step = "tag" /\ at[r].tag <= Len(at[r].plan)
    /\ at' = [at EXCEPT ![r].step = IF IsList(r) THEN "entry" ELSE "blob",
                        ![r].entry = 1, ![r].blob = 1,
                        ![r].tagFailed = FALSE, ![r].subFailed = FALSE]
    /\ UNCHANGED <<blobs, manifests, tags, count, cancelled>>

Finish(r) ==
    /\ at[r].step = "tag" /\ at[r].tag > Len(at[r].plan)
    /\ at' = [at EXCEPT ![r].step = "done"]
    /\ UNCHANGED <<blobs, manifests, tags, count, cancelled>>

(* ... over the platforms of a manifest list, which task.Architectures does *)
(* not restrict ...                                                         *)

FetchEntry(r) ==
    /\ at[r].step = "entry" /\ at[r].entry <= Len(Entries(r))
    /\ Answered(r)
    /\ at' = [at EXCEPT ![r].step = "blob", ![r].blob = 1,
                        ![r].subFailed = FALSE]
    /\ UNCHANGED <<blobs, manifests, tags, count, cancelled>>

\* Mutant: the platform is given up without being counted.
FetchEntryFailsSilently(r) ==
    /\ at[r].step = "entry" /\ at[r].entry <= Len(Entries(r))
    /\ at' = [at EXCEPT ![r].entry = @ + 1, ![r].tagFailed = TRUE]
    /\ UNCHANGED <<blobs, manifests, tags, count, cancelled>>

FetchEntryFails(r) ==
    /\ at[r].step = "entry" /\ at[r].entry <= Len(Entries(r))
    /\ at' = [at EXCEPT ![r].entry = @ + 1, ![r].tagFailed = TRUE]
    /\ count' = [count EXCEPT ![r].failed = @ + 1]
    /\ UNCHANGED <<blobs, manifests, tags, cancelled>>

EntriesDone(r) ==
    /\ at[r].step = "entry" /\ at[r].entry > Len(Entries(r))
    /\ at' = [at EXCEPT ![r].step = "puttag"]
    /\ UNCHANGED <<blobs, manifests, tags, count, cancelled>>

(* ... and over the blobs of an image.                                      *)

\* Mutant: a blob that is there counts as skipped but not as synced.
BlobPresentNotSynced(r) ==
    /\ at[r].step = "blob" /\ at[r].blob <= Len(BlobsHere(r))
    /\ Answered(r)
    /\ Here(r, Blob(r)) \in blobs
    /\ at' = [at EXCEPT ![r].blob = @ + 1]
    /\ count' = [count EXCEPT ![r].skipped = @ + 1]
    /\ UNCHANGED <<blobs, manifests, tags, cancelled>>

BlobPresent(r) ==
    /\ at[r].step = "blob" /\ at[r].blob <= Len(BlobsHere(r))
    /\ Answered(r)
    /\ Here(r, Blob(r)) \in blobs
    /\ at' = [at EXCEPT ![r].blob = @ + 1]
    /\ count' = [count EXCEPT ![r].skipped = @ + 1, ![r].synced = @ + 1]
    /\ UNCHANGED <<blobs, manifests, tags, cancelled>>

BlobMissing(r) ==
    /\ at[r].step = "blob" /\ at[r].blob <= Len(BlobsHere(r))
    /\ Answered(r)
    /\ Here(r, Blob(r)) \notin blobs
    /\ at' = [at EXCEPT ![r].step = "copy"]
    /\ UNCHANGED <<blobs, manifests, tags, count, cancelled>>

CopyBlob(r) ==
    /\ at[r].step = "copy"
    /\ Answered(r)
    /\ blobs' = blobs \cup {Here(r, Blob(r))}
    /\ at' = [at EXCEPT ![r].step = "blob", ![r].blob = @ + 1]
    /\ count' = [count EXCEPT ![r].synced = @ + 1]
    /\ UNCHANGED <<manifests, tags, cancelled>>

\* Mutant: subPlatformFailed is not increased.
BlobFailsTagOnly(r) ==
    /\ \/ at[r].step = "blob" /\ at[r].blob <= Len(BlobsHere(r))
       \/ at[r].step = "copy"
    /\ at' = [at EXCEPT ![r].step = "blob", ![r].blob = @ + 1,
                        ![r].tagFailed = TRUE]
    /\ count' = [count EXCEPT ![r].failed = @ + 1]
    /\ UNCHANGED <<blobs, manifests, tags, cancelled>>

\* The check or the copy fails; a copy may have been completed all the same.
\* (A plain image has no subPlatformFailed; subFailed is not read there.)
BlobFails(r) ==
    /\ \/ at[r].step = "blob" /\ at[r].blob <= Len(BlobsHere(r))
       \/ at[r].step = "copy"
    /\ \/ blobs' = blobs
       \/ at[r].step = "copy" /\ blobs' = blobs \cup {Here(r, Blob(r))}
    /\ at' = [at EXCEPT ![r].step = "blob", ![r].blob = @ + 1,
                        ![r].tagFailed = TRUE, ![r].subFailed = TRUE]
    /\ count' = [count EXCEPT ![r].failed = @ + 1]
    /\ UNCHANGED <<manifests, tags, cancelled>>

BlobsDone(r) ==
    /\ at[r].step = "blob" /\ at[r].blob > Len(BlobsHere(r))
    /\ at' = [at EXCEPT ![r].step = IF IsList(r) THEN "putsub" ELSE "puttag"]
    /\ UNCHANGED <<blobs, manifests, tags, count, cancelled>>

-----------------------------------------------------------------------------
(* PutManifest, for a platform by digest and for the tag.                   *)

PutSub(r) ==
    /\ at[r].step = "putsub" /\ ~at[r].subFailed
    /\ Answered(r)
    /\ manifests' = manifests \cup {Here(r, Image(r))}
    /\ at' = [at EXCEPT ![r].step = "entry", ![r].entry = @ + 1]
    /\ UNCHANGED <<blobs, tags, count, cancelled>>

\* The tag is given up but nothing is counted (570).
PutSubFails(r) ==
    /\ at[r].step = "putsub" /\ ~at[r].subFailed
    /\ \/ manifests' = manifests
       \/ manifests' = manifests \cup {Here(r, Image(r))}
    /\ at' = [at EXCEPT ![r].step = "entry", ![r].entry = @ + 1,
                        ![r].tagFailed = TRUE]
    /\ UNCHANGED <<blobs, tags, count, cancelled>>

SkipSub(r) ==
    /\ at[r].step = "putsub" /\ at[r].subFailed
    /\ at' = [at EXCEPT ![r].step = "entry", ![r].entry = @ + 1]
    /\ UNCHANGED <<blobs, manifests, tags, count, cancelled>>

Publish(r) ==
    /\ manifests' = manifests \cup {Here(r, Item(r).manifest)}
    /\ tags' = [tags EXCEPT ![Here(r, Item(r).tag)] = Item(r).manifest]

PutTag(r) ==
    /\ at[r].step = "puttag" /\ ~at[r].tagFailed
    /\ Answered(r)
    /\ Publish(r)
    /\ at' = [at EXCEPT ![r].step = "tag", ![r].tag = @ + 1]
    /\ UNCHANGED <<blobs, count, cancelled>>

\* Logged only (659-667).
PutTagFails(r) ==
    /\ at[r].step = "puttag" /\ ~at[r].tagFailed
    /\ Publish(r) \/ UNCHANGED <<manifests, tags>>
    /\ at' = [at EXCEPT ![r].step = "tag", ![r].tag = @ + 1]
    /\ UNCHANGED <<blobs, count, cancelled>>

SkipTag(r) ==
    /\ at[r].step = "puttag" /\ at[r].tagFailed
    /\ at' = [at EXCEPT ![r].step = "tag", ![r].tag = @ + 1]
    /\ UNCHANGED <<blobs, manifests, tags, count, cancelled>>

-----------------------------------------------------------------------------
(* The rest of the server: a stop, and the end of the process.              *)

Cancel(r) ==
    /\ at[r].step \notin {"done", "dead"}
    /\ cancelled' = cancelled \cup {r}
    /\ UNCHANGED <<blobs, manifests, tags, at, count>>

Die(r) ==
    /\ at[r].step \notin {"done", "dead"}
    /\ at' = [at EXCEPT ![r].step = "dead"]
    /\ UNCHANGED <<blobs, manifests, tags, count, cancelled>>

AnalyseStep(r) == Analyse(r) \/ AnalyseFails(r) \/ AnalysisDone(r)
EntryStep(r) == FetchEntry(r) \/ FetchEntryFails(r) \/ EntriesDone(r)
BlobStep(r) == BlobPresent(r) \/ BlobMissing(r) \/ CopyBlob(r)
                 \/ BlobFails(r) \/ BlobsDone(r)
PutStep(r) == PutSub(r) \/ PutSubFails(r) \/ SkipSub(r)
                \/ PutTag(r) \/ PutTagFails(r) \/ SkipTag(r)

RunStep(r) == AnalyseStep(r) \/ NextTag(r) \/ Finish(r) \/ EntryStep(r)
                \/ BlobStep(r) \/ PutStep(r)

Next == \E r \in Runs : RunStep(r) \/ Cancel(r) \/ Die(r)

Spec == Init /\ [][Next]_vars

\* Every request of a run ends: answer, error, or the client's timeout.
FairSpec == Spec /\ \A r \in Runs : WF_vars(RunStep(r))

-----------------------------------------------------------------------------
(* Properties.                                                              *)

Steps == {"analyse", "tag", "entry", "blob", "copy", "putsub", "puttag",
          "done", "dead"}
Places == [step : Steps, next : Nat, plan : Seq(Items),
           tag : Nat, entry : Nat, blob : Nat,
           tagFailed : BOOLEAN, subFailed : BOOLEAN]
Counts == [total : Nat, synced : Nat, skipped : Nat, failed : Nat]

\* The variables keep their types.
TypeOK ==
    /\ blobs \subseteq Repos \X Blobs
    /\ manifests \subseteq Repos \X (Images \cup Lists)
    /\ tags \in [Repos \X Tags -> Images \cup Lists \cup {None}]
    /\ at \in [Runs -> Places]
    /\ count \in [Runs -> Counts]
    /\ cancelled \subseteq Runs

\* Whatever fails, in whatever order the runs interleave, wherever one is
\* cut off: the target only ever grows bottom up, so every tag that exists
\* can be pulled completely.
Registry == INSTANCE ClosedRegistry
KeepsClosed == Registry!Spec

\* The images whose blobs an item needs.
ImagesOf(m) == IF m \in Lists THEN {EntriesOf[m][i] : i \in DOMAIN EntriesOf[m]}
                              ELSE {m}

\* A run that ends with FailedBlobs = 0 has left no blob of its plan behind,
\* although it skips tags and platforms in the middle of three loops.
NoFailureMeansBlobs ==
    \A r \in Runs : at[r].step = "done" /\ count[r].failed = 0 =>
        \A i \in DOMAIN at[r].plan : \A m \in ImagesOf(at[r].plan[i].manifest) :
            \A k \in DOMAIN BlobsOf[m] :
                <<at[r].plan[i].repo, BlobsOf[m][k]>> \in blobs

\* The plan of r holds no manifest list.
Flat(r) == \A i \in DOMAIN at[r].plan : at[r].plan[i].manifest \in Images

\* Without manifest lists the counters of a finished run add up: each blob
\* of the total is synced or failed, also one that several tags share, and
\* the progress of a run without failures ends at 100 percent.
CountersAddUp ==
    \A r \in Runs :
        /\ count[r].skipped <= count[r].synced
        /\ at[r].step = "done" /\ Flat(r) =>
             count[r].synced + count[r].failed = count[r].total

\* A run ends, cancelled or not.
RunsEnd == \A r \in Runs : <>(at[r].step \in {"done", "dead"})

-----------------------------------------------------------------------------
(* What the log of the code says, and the code does not do.                 *)

\* scheduler.go:680 "all done, ... N failed", 151 "completed successfully": a
\* run that ends and counts no failure has published every tag of its plan
\* (or another run has published something under that name).
NoFailureMeansTags ==
    \A r \in Runs : at[r].step = "done" /\ count[r].failed = 0 =>
        \A i \in DOMAIN at[r].plan :
            tags[<<at[r].plan[i].repo, at[r].plan[i].tag>>] # None
=============================================================================
