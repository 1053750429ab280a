---------------------------- MODULE SyncRunProofs ----------------------------
(***************************************************************************)
(* Theorems about SyncRun, for any content and any number of runs: the     *)
(* target registry grows bottom up, so that every tag can be pulled, and   *)
(* the counters of a run mean what its row says.                           *)
(*                                                                         *)
(* The code has no such condition to look at: PutManifest is guarded by    *)
(* two failure counts only.  RunOK says what those counts stand for at     *)
(* each place of the three loops.  It mentions no other run, and the       *)
(* registry only as something that grows, which is why runs that know      *)
(* nothing of each other do no harm.                                       *)
(***************************************************************************)
EXTENDS SyncRun, TLAPS

InTag == {"entry", "blob", "copy", "putsub", "puttag"}
InImage == {"blob", "copy", "putsub"}

\* The first blobs of the image, or the first platforms of the list, up to
\* the loop's index, are in the target.
BlobsThere(r) ==
    \A k \in 1..Len(BlobsHere(r)) :
        k < at[r].blob => Here(r, BlobsHere(r)[k]) \in blobs
EntriesThere(r) ==
    \A j \in 1..Len(Entries(r)) :
        j < at[r].entry => Here(r, Entries(r)[j]) \in manifests

\* The failure count that guards the manifest of the image at hand.
Failed(r) == IF IsList(r) THEN at[r].subFailed ELSE at[r].tagFailed

\* The blobs of an image are all behind the run.
PastBlobs(r) ==
    \/ at[r].step = "putsub"
    \/ at[r].step = "puttag" /\ ~IsList(r)

\* The indices are in range where they are used ...
IndicesOK(r) ==
    /\ at[r].next >= 1 /\ at[r].tag >= 1
    /\ at[r].entry >= 1 /\ at[r].blob >= 1
    /\ at[r].step \in InTag => at[r].tag \in 1..Len(at[r].plan)
    /\ at[r].step \in {"entry", "putsub"} => IsList(r)
    /\ at[r].step \in InImage /\ IsList(r) => at[r].entry \in 1..Len(Entries(r))
    /\ at[r].step = "copy" => at[r].blob \in 1..Len(BlobsHere(r))
    /\ PastBlobs(r) => at[r].blob > Len(BlobsHere(r))
    /\ at[r].step = "puttag" /\ IsList(r) => at[r].entry > Len(Entries(r))

\* ... and what is behind them is in the target or counted as a failure.
LoopsOK(r) ==
    /\ at[r].subFailed => at[r].tagFailed
    /\ at[r].step \in InImage \/ PastBlobs(r) => Failed(r) \/ BlobsThere(r)
    /\ at[r].step \in InTag /\ IsList(r) => at[r].tagFailed \/ EntriesThere(r)

RunOK(r) == IndicesOK(r) /\ LoopsOK(r)

IInv == TypeOK /\ \A r \in Runs : RunOK(r)

\* A step of run r alone: the others stay where they are, and the target
\* loses nothing.
StepOf(r) ==
    /\ \A s \in Runs \ {r} : at'[s] = at[s]
    /\ blobs \subseteq blobs'
    /\ manifests \subseteq manifests'

-----------------------------------------------------------------------------
\* What one run knows survives the steps of the others.
LEMMA OthersKeep ==
  ASSUME NEW r \in Runs, NEW s \in Runs, at'[s] = at[s], RunOK(s),
         blobs \subseteq blobs', manifests \subseteq manifests'
  PROVE  RunOK(s)'
BY DEF RunOK, IndicesOK, LoopsOK, PastBlobs, Failed, BlobsThere,
   EntriesThere, IsList, Entries, BlobsHere, Image, Item, Here

\* The types of what a run looks at.
LEMMA ItemTypes ==
  ASSUME NEW r \in Runs, TypeOK, at[r].tag \in 1..Len(at[r].plan)
  PROVE  /\ Item(r) \in Items
         /\ Item(r).repo \in Repos /\ Item(r).tag \in Tags
         /\ IsList(r) => Entries(r) \in Seq(Images)
         /\ IsList(r) /\ at[r].entry \in 1..Len(Entries(r)) => Image(r) \in Images
         /\ ~IsList(r) => Image(r) \in Images
         /\ Image(r) \in Images => BlobsHere(r) \in Seq(Blobs)
<1>1. at[r].plan \in Seq(Items)
  BY DEF TypeOK, Places
<1>2. Item(r) \in Items
  BY <1>1 DEF Item
<1> QED
  BY <1>2, ContentAssumption DEF Items, IsList, Entries, Image, BlobsHere
\* What a run uploads has the types of the registry.
LEMMA CopyTypes ==
  ASSUME NEW r \in Runs, IInv, at[r].step = "copy"
  PROVE  Here(r, Blob(r)) \in Repos \X Blobs
<1>1. at[r].tag \in 1..Len(at[r].plan) /\ at[r].blob \in 1..Len(BlobsHere(r))
  BY DEF IInv, RunOK, IndicesOK, InTag
<1>2. Image(r) \in Images /\ Item(r).repo \in Repos
  BY <1>1, ItemTypes DEF IInv, RunOK, IndicesOK, InImage
<1> QED
  BY <1>1, <1>2, ItemTypes DEF IInv, Blob, Here

\* The manifest of a platform is an image of the list.
LEMMA PutSubTypes ==
  ASSUME NEW r \in Runs, IInv, at[r].step = "putsub"
  PROVE  Image(r) \in Images /\ Here(r, Image(r)) \in Repos \X Images
<1>1. at[r].tag \in 1..Len(at[r].plan) /\ at[r].entry \in 1..Len(Entries(r))
  BY DEF IInv, RunOK, IndicesOK, InTag, InImage
<1>2. IsList(r)
  BY DEF IInv, RunOK, IndicesOK
<1> QED
  BY <1>1, ItemTypes DEF IInv, Here

\* The manifest of a tag is that of an item of the plan.
LEMMA PutTagTypes ==
  ASSUME NEW r \in Runs, IInv, at[r].step = "puttag"
  PROVE  /\ Item(r).repo \in Repos /\ Item(r).tag \in Tags
         /\ Item(r).manifest \in Images \cup Lists
         /\ Here(r, Item(r).manifest) \in Repos \X (Images \cup Lists)
<1>1. at[r].tag \in 1..Len(at[r].plan)
  BY DEF IInv, RunOK, IndicesOK, InTag
<1> QED
  BY <1>1, ItemTypes DEF IInv, Items, Here

\* The analysis counts a natural number of blobs.
LEMMA BlobCounts ==
  ASSUME NEW m \in Images \cup Lists
  PROVE  BlobCount(m) \in Nat
BY DEF BlobCount, Estimate

-----------------------------------------------------------------------------
(* The steps of a run.                                                      *)

\* A step that stays in the tag looks at the same item, and at the same image
\* unless it goes on to the next platform.
LEMMA SameItem ==
  ASSUME NEW r \in Runs, at'[r].plan = at[r].plan, at'[r].tag = at[r].tag
  PROVE  /\ Item(r)' = Item(r)
         /\ IsList(r)' <=> IsList(r)
         /\ Entries(r)' = Entries(r)
         /\ at'[r].entry = at[r].entry \/ ~IsList(r)
              => Image(r)' = Image(r) /\ BlobsHere(r)' = BlobsHere(r)
BY DEF Item, IsList, Entries, Image, BlobsHere

\* The place of a run is a record of the type.
LEMMA PlaceTypes ==
  ASSUME NEW r \in Runs, TypeOK
  PROVE  /\ at[r] \in Places /\ count[r] \in Counts
         /\ at[r].step \in Steps /\ at[r].next \in Nat
         /\ at[r].plan \in Seq(Items) /\ at[r].tag \in Nat
         /\ at[r].entry \in Nat /\ at[r].blob \in Nat
         /\ at[r].tagFailed \in BOOLEAN /\ at[r].subFailed \in BOOLEAN
<1>1. at[r] \in Places /\ count[r] \in Counts
  BY DEF TypeOK
<1> QED
  BY <1>1 DEF Places

\* The record that a step of a run leaves behind, field by field.
Place(step, next, plan, tag, entry, blob, tagFailed, subFailed) ==
    [step |-> step, next |-> next, plan |-> plan, tag |-> tag,
     entry |-> entry, blob |-> blob,
     tagFailed |-> tagFailed, subFailed |-> subFailed]
Count(total, synced, skipped, failed) ==
    [total |-> total, synced |-> synced, skipped |-> skipped,
     failed |-> failed]

\* The blob at hand has arrived and the loop goes on to the next one.
LEMMA OneMoreBlob ==
  ASSUME NEW r \in Runs, IInv, BlobsThere(r), blobs \subseteq blobs',
         Here(r, Blob(r)) \in blobs \/ Here(r, Blob(r)) \in blobs',
         at'[r].plan = at[r].plan, at'[r].tag = at[r].tag,
         at'[r].entry = at[r].entry, at'[r].blob = at[r].blob + 1
  PROVE  BlobsThere(r)'
<1>1. BlobsHere(r)' = BlobsHere(r) /\ Item(r)' = Item(r)
  BY SameItem
<1>2. ASSUME NEW k \in 1..Len(BlobsHere(r)), k < at[r].blob + 1
      PROVE  Here(r, BlobsHere(r)[k]) \in blobs'
  <2>1. at[r].blob \in Nat /\ (k < at[r].blob \/ k = at[r].blob)
    BY <1>2, PlaceTypes DEF IInv
  <2>2. CASE k < at[r].blob
    BY <2>2 DEF BlobsThere
  <2>3. CASE k = at[r].blob
    BY <2>3 DEF Blob
  <2> QED
    BY <2>1, <2>2, <2>3
<1> QED
  BY <1>1, <1>2 DEF BlobsThere, Here

\* The platform at hand has arrived and the loop goes on to the next one.
LEMMA OneMoreEntry ==
  ASSUME NEW r \in Runs, IInv, EntriesThere(r), IsList(r),
         manifests \subseteq manifests', Here(r, Image(r)) \in manifests',
         at'[r].plan = at[r].plan, at'[r].tag = at[r].tag,
         at'[r].entry = at[r].entry + 1
  PROVE  EntriesThere(r)'
<1>1. Entries(r)' = Entries(r) /\ Item(r)' = Item(r)
  BY SameItem
<1>2. ASSUME NEW j \in 1..Len(Entries(r)), j < at[r].entry + 1
      PROVE  Here(r, Entries(r)[j]) \in manifests'
  <2>1. at[r].entry \in Nat /\ (j < at[r].entry \/ j = at[r].entry)
    BY <1>2, PlaceTypes DEF IInv
  <2>2. CASE j < at[r].entry
    BY <2>2 DEF EntriesThere
  <2>3. CASE j = at[r].entry
    BY <2>3 DEF Image
  <2> QED
    BY <2>1, <2>2, <2>3
<1> QED
  BY <1>1, <1>2 DEF EntriesThere, Here

\* A tag is begun: the five fields that NextTag sets.
LEMMA TagStarts ==
  ASSUME NEW r \in Runs, NEW s \in Steps, TypeOK,
         at' = [at EXCEPT ![r].step = s, ![r].entry = 1, ![r].blob = 1,
                          ![r].tagFailed = FALSE, ![r].subFailed = FALSE]
  PROVE  at'[r] \in Places
BY ZenonT(60) DEF TypeOK, Places

\* Analyse preserves the invariant.
LEMMA AnalysePreserves ==
  ASSUME NEW r \in Runs, IInv, Analyse(r)
  PROVE  TypeOK' /\ StepOf(r) /\ RunOK(r)'
<1> USE DEF IInv
<1>1. at[r].next \in 1..Len(Source[r])
  BY PlaceTypes DEF Analyse, RunOK, IndicesOK
<1>2. Source[r][at[r].next] \in Items
  BY SourceAssumption, <1>1
<1>3. BlobCount(Source[r][at[r].next].manifest) \in Nat
  BY <1>2, BlobCounts DEF Items
<1>4. at[r].step = "analyse"
  BY DEF Analyse
<1>5. at'[r] =
        Place(at[r].step, at[r].next + 1,
              Append(at[r].plan, Source[r][at[r].next]), at[r].tag,
              at[r].entry, at[r].blob, at[r].tagFailed, at[r].subFailed)
  BY ZenonT(60) DEF Analyse, TypeOK, Places, Place
<1>6. at'[r] \in Places
  BY <1>2, <1>5, PlaceTypes DEF Place, Places
<1>7. count'[r] \in Counts
  <2>1. count'[r] =
          Count(count[r].total + BlobCount(Source[r][at[r].next].manifest),
                count[r].synced, count[r].skipped, count[r].failed)
    BY DEF Analyse, TypeOK, Counts, Count
  <2> QED
    BY <1>3, <2>1, PlaceTypes DEF Count, Counts
<1>8. TypeOK'
  BY <1>6, <1>7 DEF Analyse, TypeOK
<1>9. StepOf(r)
  BY DEF Analyse, StepOf, TypeOK
<1>10. /\ at'[r].step = at[r].step /\ at'[r].next = at[r].next + 1
      /\ at'[r].plan \in Seq(Items) /\ at'[r].tag = at[r].tag
      /\ at'[r].entry = at[r].entry /\ at'[r].blob = at[r].blob
      /\ at'[r].tagFailed = at[r].tagFailed
      /\ at'[r].subFailed = at[r].subFailed
  BY <1>2, <1>5, PlaceTypes DEF Place
<1>11. blobs \subseteq blobs' /\ manifests \subseteq manifests'
  BY <1>9 DEF StepOf
<1>12. IndicesOK(r)'
  BY <1>4, <1>10, PlaceTypes DEF RunOK, IndicesOK, PastBlobs, InTag, InImage
<1>13. LoopsOK(r)'
  BY <1>4, <1>10 DEF RunOK, LoopsOK, PastBlobs, InTag, InImage
<1> QED
  BY <1>8, <1>9, <1>12, <1>13 DEF RunOK

\* AnalyseFails preserves the invariant.
LEMMA AnalyseFailsPreserves ==
  ASSUME NEW r \in Runs, IInv, AnalyseFails(r)
  PROVE  TypeOK' /\ StepOf(r) /\ RunOK(r)'
<1> USE DEF IInv
<1>1. at[r].step = "analyse"
  BY DEF AnalyseFails
<1>2. at'[r] =
        Place(at[r].step, at[r].next + 1, at[r].plan, at[r].tag, at[r].entry,
              at[r].blob, at[r].tagFailed, at[r].subFailed)
  BY DEF AnalyseFails, TypeOK, Places, Place
<1>3. at'[r] \in Places
  BY <1>2, PlaceTypes DEF Place, Places
<1>4. TypeOK'
  BY <1>3 DEF AnalyseFails, TypeOK
<1>5. StepOf(r)
  BY DEF AnalyseFails, StepOf
<1>6. /\ at'[r].step = at[r].step /\ at'[r].next = at[r].next + 1
      /\ at'[r].plan = at[r].plan /\ at'[r].tag = at[r].tag
      /\ at'[r].entry = at[r].entry /\ at'[r].blob = at[r].blob
      /\ at'[r].tagFailed = at[r].tagFailed
      /\ at'[r].subFailed = at[r].subFailed
  BY <1>2 DEF Place
<1>7. blobs \subseteq blobs' /\ manifests \subseteq manifests'
  BY <1>5 DEF StepOf
<1>8. IndicesOK(r)'
  BY <1>6, PlaceTypes, SameItem DEF RunOK, IndicesOK, PastBlobs
<1>9. LoopsOK(r)'
  BY <1>1, <1>6 DEF RunOK, LoopsOK, PastBlobs, InTag, InImage
<1> QED
  BY <1>4, <1>5, <1>8, <1>9 DEF RunOK

\* AnalysisDone preserves the invariant.
LEMMA AnalysisDonePreserves ==
  ASSUME NEW r \in Runs, IInv, AnalysisDone(r)
  PROVE  TypeOK' /\ StepOf(r) /\ RunOK(r)'
<1> USE DEF IInv
<1>1. at[r].step = "analyse"
  BY DEF AnalysisDone
<1>2. at'[r] =
        Place("tag", at[r].next, at[r].plan, at[r].tag, at[r].entry,
              at[r].blob, at[r].tagFailed, at[r].subFailed)
  BY DEF AnalysisDone, TypeOK, Places, Place
<1>3. at'[r] \in Places
  BY <1>2, PlaceTypes DEF Place, Places, Steps
<1>4. TypeOK'
  BY <1>3 DEF AnalysisDone, TypeOK
<1>5. StepOf(r)
  BY DEF AnalysisDone, StepOf
<1>6. /\ at'[r].step = "tag" /\ at'[r].next = at[r].next
      /\ at'[r].plan = at[r].plan /\ at'[r].tag = at[r].tag
      /\ at'[r].entry = at[r].entry /\ at'[r].blob = at[r].blob
      /\ at'[r].tagFailed = at[r].tagFailed
      /\ at'[r].subFailed = at[r].subFailed
  BY <1>2 DEF Place
<1>7. blobs \subseteq blobs' /\ manifests \subseteq manifests'
  BY <1>5 DEF StepOf
<1>8. IndicesOK(r)'
  BY <1>6 DEF RunOK, IndicesOK, PastBlobs, InTag, InImage
<1>9. LoopsOK(r)'
  BY <1>6 DEF RunOK, LoopsOK, PastBlobs, InTag, InImage
<1> QED
  BY <1>4, <1>5, <1>8, <1>9 DEF RunOK

\* NextTag preserves the invariant.
LEMMA NextTagPreserves ==
  ASSUME NEW r \in Runs, IInv, NextTag(r)
  PROVE  TypeOK' /\ StepOf(r) /\ RunOK(r)'
<1> USE DEF IInv
<1>1. /\ at[r].step = "tag"
      /\ at[r].tag <= Len(at[r].plan)
  BY DEF NextTag
<1>2. PICK s \in {"entry", "blob"} :
        /\ s = IF IsList(r) THEN "entry" ELSE "blob"
        /\ at' = [at EXCEPT ![r].step = s, ![r].entry = 1, ![r].blob = 1,
                            ![r].tagFailed = FALSE, ![r].subFailed = FALSE]
  BY DEF NextTag
<1>3. s \in Steps
  BY DEF Steps
<1>4. at'[r] \in Places
  BY <1>2, <1>3, TagStarts
<1>5. TypeOK'
  BY <1>4 DEF NextTag, TypeOK
<1>6. StepOf(r)
  BY DEF NextTag, StepOf, TypeOK
<1>7. /\ at'[r].step = IF IsList(r) THEN "entry" ELSE "blob"
      /\ at'[r].next = at[r].next
      /\ at'[r].plan = at[r].plan /\ at'[r].tag = at[r].tag
      /\ at'[r].entry = 1 /\ at'[r].blob = 1
      /\ at'[r].tagFailed = FALSE /\ at'[r].subFailed = FALSE
  BY <1>2 DEF TypeOK
<1>8. blobs \subseteq blobs' /\ manifests \subseteq manifests'
  BY <1>6 DEF StepOf
<1>9. IndicesOK(r)'
  BY <1>1, <1>7, PlaceTypes, SameItem DEF RunOK, IndicesOK, PastBlobs,
     InImage
<1>10. LoopsOK(r)'
  BY <1>7 DEF LoopsOK, BlobsThere, EntriesThere
<1> QED
  BY <1>5, <1>6, <1>9, <1>10 DEF RunOK

\* Finish preserves the invariant.
LEMMA FinishPreserves ==
  ASSUME NEW r \in Runs, IInv, Finish(r)
  PROVE  TypeOK' /\ StepOf(r) /\ RunOK(r)'
<1> USE DEF IInv
<1>1. at[r].step = "tag"
  BY DEF Finish
<1>2. at'[r] =
        Place("done", at[r].next, at[r].plan, at[r].tag, at[r].entry,
              at[r].blob, at[r].tagFailed, at[r].subFailed)
  BY DEF Finish, TypeOK, Places, Place
<1>3. at'[r] \in Places
  BY <1>2, PlaceTypes DEF Place, Places, Steps
<1>4. TypeOK'
  BY <1>3 DEF Finish, TypeOK
<1>5. StepOf(r)
  BY DEF Finish, StepOf
<1>6. /\ at'[r].step = "done" /\ at'[r].next = at[r].next
      /\ at'[r].plan = at[r].plan /\ at'[r].tag = at[r].tag
      /\ at'[r].entry = at[r].entry /\ at'[r].blob = at[r].blob
      /\ at'[r].tagFailed = at[r].tagFailed
      /\ at'[r].subFailed = at[r].subFailed
  BY <1>2 DEF Place
<1>7. blobs \subseteq blobs' /\ manifests \subseteq manifests'
  BY <1>5 DEF StepOf
<1>8. IndicesOK(r)'
  BY <1>6 DEF RunOK, IndicesOK, PastBlobs, InTag, InImage
<1>9. LoopsOK(r)'
  BY <1>6 DEF RunOK, LoopsOK, PastBlobs, InTag, InImage
<1> QED
  BY <1>4, <1>5, <1>8, <1>9 DEF RunOK

\* FetchEntry preserves the invariant.
LEMMA FetchEntryPreserves ==
  ASSUME NEW r \in Runs, IInv, FetchEntry(r)
  PROVE  TypeOK' /\ StepOf(r) /\ RunOK(r)'
<1> USE DEF IInv
<1>1. /\ at[r].step = "entry"
      /\ at[r].entry <= Len(Entries(r))
  BY DEF FetchEntry
<1>2. at'[r] =
        Place("blob", at[r].next, at[r].plan, at[r].tag, at[r].entry, 1,
              at[r].tagFailed, FALSE)
  BY ZenonT(60) DEF FetchEntry, TypeOK, Places, Place
<1>3. at'[r] \in Places
  BY <1>2, PlaceTypes DEF Place, Places, Steps
<1>4. TypeOK'
  BY <1>3 DEF FetchEntry, TypeOK
<1>5. StepOf(r)
  BY DEF FetchEntry, StepOf, TypeOK
<1>6. /\ at'[r].step = "blob" /\ at'[r].next = at[r].next
      /\ at'[r].plan = at[r].plan /\ at'[r].tag = at[r].tag
      /\ at'[r].entry = at[r].entry /\ at'[r].blob = 1
      /\ at'[r].tagFailed = at[r].tagFailed /\ at'[r].subFailed = FALSE
  BY <1>2 DEF Place
<1>7. blobs \subseteq blobs' /\ manifests \subseteq manifests'
  BY <1>5 DEF StepOf
<1>8. IndicesOK(r)'
  BY <1>1, <1>6, PlaceTypes, SameItem DEF RunOK, IndicesOK, PastBlobs, InTag
<1>9. LoopsOK(r)'
  BY <1>1, <1>7, <1>6, SameItem DEF RunOK, LoopsOK, Failed, BlobsThere,
     EntriesThere, InTag, Here
<1> QED
  BY <1>4, <1>5, <1>8, <1>9 DEF RunOK

\* FetchEntryFails preserves the invariant.
LEMMA FetchEntryFailsPreserves ==
  ASSUME NEW r \in Runs, IInv, FetchEntryFails(r)
  PROVE  TypeOK' /\ StepOf(r) /\ RunOK(r)'
<1> USE DEF IInv
<1>1. at[r].step = "entry"
  BY DEF FetchEntryFails
<1>2. at'[r] =
        Place(at[r].step, at[r].next, at[r].plan, at[r].tag, at[r].entry + 1,
              at[r].blob, TRUE, at[r].subFailed)
  BY ZenonT(60) DEF FetchEntryFails, TypeOK, Places, Place
<1>3. at'[r] \in Places
  BY <1>2, PlaceTypes DEF Place, Places
<1>4. count'[r] \in Counts
  <2>1. count'[r] =
          Count(count[r].total, count[r].synced, count[r].skipped,
                count[r].failed + 1)
    BY DEF FetchEntryFails, TypeOK, Counts, Count
  <2> QED
    BY <2>1, PlaceTypes DEF Count, Counts
<1>5. TypeOK'
  BY <1>3, <1>4 DEF FetchEntryFails, TypeOK
<1>6. StepOf(r)
  BY DEF FetchEntryFails, StepOf, TypeOK
<1>7. /\ at'[r].step = at[r].step /\ at'[r].next = at[r].next
      /\ at'[r].plan = at[r].plan /\ at'[r].tag = at[r].tag
      /\ at'[r].entry = at[r].entry + 1 /\ at'[r].blob = at[r].blob
      /\ at'[r].tagFailed = TRUE /\ at'[r].subFailed = at[r].subFailed
  BY <1>2 DEF Place
<1>8. blobs \subseteq blobs' /\ manifests \subseteq manifests'
  BY <1>6 DEF StepOf
<1>9. IndicesOK(r)'
  BY <1>1, <1>7, PlaceTypes, SameItem DEF RunOK, IndicesOK, PastBlobs,
     InImage
<1>10. LoopsOK(r)'
  BY <1>1, <1>7 DEF LoopsOK, PastBlobs, InImage
<1> QED
  BY <1>5, <1>6, <1>9, <1>10 DEF RunOK

\* EntriesDone preserves the invariant.
LEMMA EntriesDonePreserves ==
  ASSUME NEW r \in Runs, IInv, EntriesDone(r)
  PROVE  TypeOK' /\ StepOf(r) /\ RunOK(r)'
<1> USE DEF IInv
<1>1. /\ at[r].step = "entry"
      /\ at[r].entry > Len(Entries(r))
  BY DEF EntriesDone
<1>2. at'[r] =
        Place("puttag", at[r].next, at[r].plan, at[r].tag, at[r].entry,
              at[r].blob, at[r].tagFailed, at[r].subFailed)
  BY DEF EntriesDone, TypeOK, Places, Place
<1>3. at'[r] \in Places
  BY <1>2, PlaceTypes DEF Place, Places, Steps
<1>4. TypeOK'
  BY <1>3 DEF EntriesDone, TypeOK
<1>5. StepOf(r)
  BY DEF EntriesDone, StepOf
<1>6. /\ at'[r].step = "puttag" /\ at'[r].next = at[r].next
      /\ at'[r].plan = at[r].plan /\ at'[r].tag = at[r].tag
      /\ at'[r].entry = at[r].entry /\ at'[r].blob = at[r].blob
      /\ at'[r].tagFailed = at[r].tagFailed
      /\ at'[r].subFailed = at[r].subFailed
  BY <1>2 DEF Place
<1>7. blobs \subseteq blobs' /\ manifests \subseteq manifests'
  BY <1>5 DEF StepOf
<1>8. IndicesOK(r)'
  BY <1>1, <1>6, SameItem DEF RunOK, IndicesOK, PastBlobs, InTag, InImage
<1>9. LoopsOK(r)'
  BY <1>1, <1>7, <1>6, SameItem DEF RunOK, LoopsOK, IndicesOK, PastBlobs,
     EntriesThere, InTag, InImage, Here
<1> QED
  BY <1>4, <1>5, <1>8, <1>9 DEF RunOK

\* BlobPresent preserves the invariant.
LEMMA BlobPresentPreserves ==
  ASSUME NEW r \in Runs, IInv, BlobPresent(r)
  PROVE  TypeOK' /\ StepOf(r) /\ RunOK(r)'
<1> USE DEF IInv
<1>1. /\ at[r].step = "blob"
      /\ Here(r, Blob(r)) \in blobs
  BY DEF BlobPresent
<1>2. at'[r] =
        Place(at[r].step, at[r].next, at[r].plan, at[r].tag, at[r].entry,
              at[r].blob + 1, at[r].tagFailed, at[r].subFailed)
  BY DEF BlobPresent, TypeOK, Places, Place
<1>3. at'[r] \in Places
  BY <1>2, PlaceTypes DEF Place, Places
<1>4. count'[r] \in Counts
  <2>1. count'[r] =
          Count(count[r].total, count[r].synced + 1, count[r].skipped + 1,
                count[r].failed)
    BY DEF BlobPresent, TypeOK, Counts, Count
  <2> QED
    BY <2>1, PlaceTypes DEF Count, Counts
<1>5. TypeOK'
  BY <1>3, <1>4 DEF BlobPresent, TypeOK
<1>6. StepOf(r)
  BY DEF BlobPresent, StepOf
<1>7. /\ at'[r].step = at[r].step /\ at'[r].next = at[r].next
      /\ at'[r].plan = at[r].plan /\ at'[r].tag = at[r].tag
      /\ at'[r].entry = at[r].entry /\ at'[r].blob = at[r].blob + 1
      /\ at'[r].tagFailed = at[r].tagFailed
      /\ at'[r].subFailed = at[r].subFailed
  BY <1>2 DEF Place
<1>8. blobs \subseteq blobs' /\ manifests \subseteq manifests'
  BY <1>6 DEF StepOf
<1>9. BlobsThere(r) => BlobsThere(r)'
  BY <1>1, <1>7, <1>8, OneMoreBlob
<1>10. IndicesOK(r)'
  BY <1>1, <1>7, PlaceTypes, SameItem DEF RunOK, IndicesOK, PastBlobs
<1>11. LoopsOK(r)'
  BY <1>8, <1>7, <1>9, SameItem DEF RunOK, LoopsOK, PastBlobs, Failed,
     EntriesThere, Here
<1> QED
  BY <1>5, <1>6, <1>10, <1>11 DEF RunOK

\* BlobMissing preserves the invariant.
LEMMA BlobMissingPreserves ==
  ASSUME NEW r \in Runs, IInv, BlobMissing(r)
  PROVE  TypeOK' /\ StepOf(r) /\ RunOK(r)'
<1> USE DEF IInv
<1>1. /\ at[r].step = "blob"
      /\ at[r].blob <= Len(BlobsHere(r))
  BY DEF BlobMissing
<1>2. at'[r] =
        Place("copy", at[r].next, at[r].plan, at[r].tag, at[r].entry,
              at[r].blob, at[r].tagFailed, at[r].subFailed)
  BY DEF BlobMissing, TypeOK, Places, Place
<1>3. at'[r] \in Places
  BY <1>2, PlaceTypes DEF Place, Places, Steps
<1>4. TypeOK'
  BY <1>3 DEF BlobMissing, TypeOK
<1>5. StepOf(r)
  BY DEF BlobMissing, StepOf
<1>6. /\ at'[r].step = "copy" /\ at'[r].next = at[r].next
      /\ at'[r].plan = at[r].plan /\ at'[r].tag = at[r].tag
      /\ at'[r].entry = at[r].entry /\ at'[r].blob = at[r].blob
      /\ at'[r].tagFailed = at[r].tagFailed
      /\ at'[r].subFailed = at[r].subFailed
  BY <1>2 DEF Place
<1>7. blobs \subseteq blobs' /\ manifests \subseteq manifests'
  BY <1>5 DEF StepOf
<1>8. IndicesOK(r)'
  BY <1>1, <1>6, PlaceTypes, SameItem DEF RunOK, IndicesOK, PastBlobs, InTag,
     InImage
<1>9. LoopsOK(r)'
  BY <1>1, <1>7, <1>6, SameItem DEF RunOK, LoopsOK, Failed, BlobsThere,
     EntriesThere, InTag, InImage, Here
<1> QED
  BY <1>4, <1>5, <1>8, <1>9 DEF RunOK

\* CopyBlob preserves the invariant.
LEMMA CopyBlobPreserves ==
  ASSUME NEW r \in Runs, IInv, CopyBlob(r)
  PROVE  TypeOK' /\ StepOf(r) /\ RunOK(r)'
<1> USE DEF IInv
<1>1. /\ at[r].step = "copy"
      /\ Here(r, Blob(r)) \in blobs'
  BY DEF CopyBlob
<1>2. at'[r] =
        Place("blob", at[r].next, at[r].plan, at[r].tag, at[r].entry,
              at[r].blob + 1, at[r].tagFailed, at[r].subFailed)
  BY DEF CopyBlob, TypeOK, Places, Place
<1>3. at'[r] \in Places
  BY <1>2, PlaceTypes DEF Place, Places, Steps
<1>4. count'[r] \in Counts
  <2>1. count'[r] =
          Count(count[r].total, count[r].synced + 1, count[r].skipped,
                count[r].failed)
    BY DEF CopyBlob, TypeOK, Counts, Count
  <2> QED
    BY <2>1, PlaceTypes DEF Count, Counts
<1>5. TypeOK'
  BY <1>3, <1>4, CopyTypes DEF CopyBlob, TypeOK
<1>6. StepOf(r)
  BY DEF CopyBlob, StepOf, TypeOK
<1>7. /\ at'[r].step = "blob" /\ at'[r].next = at[r].next
      /\ at'[r].plan = at[r].plan /\ at'[r].tag = at[r].tag
      /\ at'[r].entry = at[r].entry /\ at'[r].blob = at[r].blob + 1
      /\ at'[r].tagFailed = at[r].tagFailed
      /\ at'[r].subFailed = at[r].subFailed
  BY <1>2 DEF Place
<1>8. blobs \subseteq blobs' /\ manifests \subseteq manifests'
  BY <1>6 DEF StepOf
<1>9. BlobsThere(r) => BlobsThere(r)'
  BY <1>1, <1>7, <1>8, OneMoreBlob
<1>10. IndicesOK(r)'
  BY <1>1, <1>7, SameItem DEF RunOK, IndicesOK, PastBlobs, InTag, InImage
<1>11. LoopsOK(r)'
  BY <1>1, <1>8, <1>7, <1>9, SameItem DEF RunOK, LoopsOK, Failed,
     EntriesThere, InTag, InImage, Here
<1> QED
  BY <1>5, <1>6, <1>10, <1>11 DEF RunOK

\* BlobFails preserves the invariant.
LEMMA BlobFailsPreserves ==
  ASSUME NEW r \in Runs, IInv, BlobFails(r)
  PROVE  TypeOK' /\ StepOf(r) /\ RunOK(r)'
<1> USE DEF IInv
<1>1. at[r].step \in {"blob", "copy"}
  BY DEF BlobFails
<1>2. at'[r] =
        Place("blob", at[r].next, at[r].plan, at[r].tag, at[r].entry,
              at[r].blob + 1, TRUE, TRUE)
  BY ZenonT(60) DEF BlobFails, TypeOK, Places, Place
<1>3. at'[r] \in Places
  BY <1>2, PlaceTypes DEF Place, Places, Steps
<1>4. count'[r] \in Counts
  <2>1. count'[r] =
          Count(count[r].total, count[r].synced, count[r].skipped,
                count[r].failed + 1)
    BY DEF BlobFails, TypeOK, Counts, Count
  <2> QED
    BY <2>1, PlaceTypes DEF Count, Counts
<1>5. TypeOK'
  BY <1>3, <1>4, CopyTypes DEF BlobFails, TypeOK
<1>6. StepOf(r)
  BY DEF BlobFails, StepOf, TypeOK
<1>7. /\ at'[r].step = "blob" /\ at'[r].next = at[r].next
      /\ at'[r].plan = at[r].plan /\ at'[r].tag = at[r].tag
      /\ at'[r].entry = at[r].entry /\ at'[r].blob = at[r].blob + 1
      /\ at'[r].tagFailed = TRUE /\ at'[r].subFailed = TRUE
  BY <1>2 DEF Place
<1>8. blobs \subseteq blobs' /\ manifests \subseteq manifests'
  BY <1>6 DEF StepOf
<1>9. IndicesOK(r)'
  BY <1>1, <1>7, PlaceTypes, SameItem DEF RunOK, IndicesOK, PastBlobs, InTag,
     InImage
<1>10. LoopsOK(r)'
  BY <1>7 DEF LoopsOK, Failed
<1> QED
  BY <1>5, <1>6, <1>9, <1>10 DEF RunOK

\* BlobsDone preserves the invariant.
LEMMA BlobsDonePreserves ==
  ASSUME NEW r \in Runs, IInv, BlobsDone(r)
  PROVE  TypeOK' /\ StepOf(r) /\ RunOK(r)'
<1> USE DEF IInv
<1>1. /\ at[r].step = "blob"
      /\ at[r].blob > Len(BlobsHere(r))
  BY DEF BlobsDone
<1>2. at'[r] =
        Place(IF IsList(r) THEN "putsub" ELSE "puttag", at[r].next,
              at[r].plan, at[r].tag, at[r].entry, at[r].blob,
              at[r].tagFailed, at[r].subFailed)
  BY ZenonT(60) DEF BlobsDone, IsList, TypeOK, Places, Place
<1>3. at'[r] \in Places
  BY <1>2, PlaceTypes DEF Place, Places, Steps
<1>4. TypeOK'
  BY <1>3 DEF BlobsDone, TypeOK
<1>5. StepOf(r)
  BY DEF BlobsDone, StepOf
<1>6. /\ at'[r].step = IF IsList(r) THEN "putsub" ELSE "puttag"
      /\ at'[r].next = at[r].next
      /\ at'[r].plan = at[r].plan /\ at'[r].tag = at[r].tag
      /\ at'[r].entry = at[r].entry /\ at'[r].blob = at[r].blob
      /\ at'[r].tagFailed = at[r].tagFailed
      /\ at'[r].subFailed = at[r].subFailed
  BY <1>2 DEF Place
<1>7. blobs \subseteq blobs' /\ manifests \subseteq manifests'
  BY <1>5 DEF StepOf
<1>8. IndicesOK(r)'
  BY <1>1, <1>6, SameItem DEF RunOK, IndicesOK, InTag, InImage
<1>9. LoopsOK(r)'
  BY <1>1, <1>7, <1>6, SameItem DEF RunOK, LoopsOK, Failed, BlobsThere,
     EntriesThere, InTag, InImage, Here
<1> QED
  BY <1>4, <1>5, <1>8, <1>9 DEF RunOK

\* PutSub preserves the invariant.
LEMMA PutSubPreserves ==
  ASSUME NEW r \in Runs, IInv, PutSub(r)
  PROVE  TypeOK' /\ StepOf(r) /\ RunOK(r)'
<1> USE DEF IInv
<1>1. /\ at[r].step = "putsub"
      /\ Here(r, Image(r)) \in manifests'
  BY DEF PutSub
<1>2. at'[r] =
        Place("entry", at[r].next, at[r].plan, at[r].tag, at[r].entry + 1,
              at[r].blob, at[r].tagFailed, at[r].subFailed)
  BY ZenonT(60) DEF PutSub, TypeOK, Places, Place
<1>3. at'[r] \in Places
  BY <1>2, PlaceTypes DEF Place, Places, Steps
<1>4. TypeOK'
  BY <1>3, PutSubTypes DEF PutSub, TypeOK
<1>5. StepOf(r)
  BY DEF PutSub, StepOf, TypeOK
<1>6. /\ at'[r].step = "entry" /\ at'[r].next = at[r].next
      /\ at'[r].plan = at[r].plan /\ at'[r].tag = at[r].tag
      /\ at'[r].entry = at[r].entry + 1 /\ at'[r].blob = at[r].blob
      /\ at'[r].tagFailed = at[r].tagFailed
      /\ at'[r].subFailed = at[r].subFailed
  BY <1>2 DEF Place
<1>7. blobs \subseteq blobs' /\ manifests \subseteq manifests'
  BY <1>5 DEF StepOf
<1>8. EntriesThere(r) => EntriesThere(r)'
  BY <1>1, <1>6, <1>7, OneMoreEntry DEF RunOK, IndicesOK
<1>9. IndicesOK(r)'
  BY <1>1, <1>6, SameItem DEF RunOK, IndicesOK, PastBlobs, InTag, InImage
<1>10. LoopsOK(r)'
  BY <1>1, <1>6, <1>8, SameItem DEF RunOK, LoopsOK, PastBlobs, InTag, InImage
<1> QED
  BY <1>4, <1>5, <1>9, <1>10 DEF RunOK

\* PutSubFails preserves the invariant.
LEMMA PutSubFailsPreserves ==
  ASSUME NEW r \in Runs, IInv, PutSubFails(r)
  PROVE  TypeOK' /\ StepOf(r) /\ RunOK(r)'
<1> USE DEF IInv
<1>1. at[r].step = "putsub"
  BY DEF PutSubFails
<1>2. at'[r] =
        Place("entry", at[r].next, at[r].plan, at[r].tag, at[r].entry + 1,
              at[r].blob, TRUE, at[r].subFailed)
  BY ZenonT(60) DEF PutSubFails, TypeOK, Places, Place
<1>3. at'[r] \in Places
  BY <1>2, PlaceTypes DEF Place, Places, Steps
<1>4. TypeOK'
  BY <1>3, PutSubTypes DEF PutSubFails, TypeOK
<1>5. StepOf(r)
  BY DEF PutSubFails, StepOf, TypeOK
<1>6. /\ at'[r].step = "entry" /\ at'[r].next = at[r].next
      /\ at'[r].plan = at[r].plan /\ at'[r].tag = at[r].tag
      /\ at'[r].entry = at[r].entry + 1 /\ at'[r].blob = at[r].blob
      /\ at'[r].tagFailed = TRUE /\ at'[r].subFailed = at[r].subFailed
  BY <1>2 DEF Place
<1>7. blobs \subseteq blobs' /\ manifests \subseteq manifests'
  BY <1>5 DEF StepOf
<1>8. IndicesOK(r)'
  BY <1>1, <1>6, SameItem DEF RunOK, IndicesOK, PastBlobs, InTag, InImage
<1>9. LoopsOK(r)'
  BY <1>6 DEF LoopsOK, PastBlobs, InImage
<1> QED
  BY <1>4, <1>5, <1>8, <1>9 DEF RunOK

\* SkipSub preserves the invariant.
LEMMA SkipSubPreserves ==
  ASSUME NEW r \in Runs, IInv, SkipSub(r)
  PROVE  TypeOK' /\ StepOf(r) /\ RunOK(r)'
<1> USE DEF IInv
<1>1. /\ at[r].step = "putsub"
      /\ at[r].subFailed
  BY DEF SkipSub
<1>2. at'[r] =
        Place("entry", at[r].next, at[r].plan, at[r].tag, at[r].entry + 1,
              at[r].blob, at[r].tagFailed, at[r].subFailed)
  BY DEF SkipSub, TypeOK, Places, Place
<1>3. at'[r] \in Places
  BY <1>2, PlaceTypes DEF Place, Places, Steps
<1>4. TypeOK'
  BY <1>3 DEF SkipSub, TypeOK
<1>5. StepOf(r)
  BY DEF SkipSub, StepOf, TypeOK
<1>6. /\ at'[r].step = "entry" /\ at'[r].next = at[r].next
      /\ at'[r].plan = at[r].plan /\ at'[r].tag = at[r].tag
      /\ at'[r].entry = at[r].entry + 1 /\ at'[r].blob = at[r].blob
      /\ at'[r].tagFailed = at[r].tagFailed
      /\ at'[r].subFailed = at[r].subFailed
  BY <1>2 DEF Place
<1>7. blobs \subseteq blobs' /\ manifests \subseteq manifests'
  BY <1>5 DEF StepOf
<1>8. IndicesOK(r)'
  BY <1>1, <1>6, SameItem DEF RunOK, IndicesOK, PastBlobs, InTag, InImage
<1>9. LoopsOK(r)'
  BY <1>1, <1>6 DEF RunOK, LoopsOK, Failed
<1> QED
  BY <1>4, <1>5, <1>8, <1>9 DEF RunOK

\* PutTag preserves the invariant.
LEMMA PutTagPreserves ==
  ASSUME NEW r \in Runs, IInv, PutTag(r)
  PROVE  TypeOK' /\ StepOf(r) /\ RunOK(r)'
<1> USE DEF IInv
<1>1. at[r].step = "puttag"
  BY DEF PutTag
<1>2. at'[r] =
        Place("tag", at[r].next, at[r].plan, at[r].tag + 1, at[r].entry,
              at[r].blob, at[r].tagFailed, at[r].subFailed)
  BY ZenonT(60) DEF PutTag, TypeOK, Places, Place
<1>3. at'[r] \in Places
  BY <1>2, PlaceTypes DEF Place, Places, Steps
<1>4. TypeOK'
  BY <1>3, PutTagTypes DEF PutTag, Publish, TypeOK
<1>5. StepOf(r)
  BY DEF PutTag, Publish, StepOf, TypeOK
<1>6. /\ at'[r].step = "tag" /\ at'[r].next = at[r].next
      /\ at'[r].plan = at[r].plan /\ at'[r].tag = at[r].tag + 1
      /\ at'[r].entry = at[r].entry /\ at'[r].blob = at[r].blob
      /\ at'[r].tagFailed = at[r].tagFailed
      /\ at'[r].subFailed = at[r].subFailed
  BY <1>2 DEF Place
<1>7. blobs \subseteq blobs' /\ manifests \subseteq manifests'
  BY <1>5 DEF StepOf
<1>8. IndicesOK(r)'
  BY <1>1, <1>6 DEF RunOK, IndicesOK, PastBlobs, InTag, InImage
<1>9. LoopsOK(r)'
  BY <1>6 DEF RunOK, LoopsOK, PastBlobs, InTag, InImage
<1> QED
  BY <1>4, <1>5, <1>8, <1>9 DEF RunOK

\* PutTagFails preserves the invariant.
LEMMA PutTagFailsPreserves ==
  ASSUME NEW r \in Runs, IInv, PutTagFails(r)
  PROVE  TypeOK' /\ StepOf(r) /\ RunOK(r)'
<1> USE DEF IInv
<1>1. at[r].step = "puttag"
  BY DEF PutTagFails
<1>2. at'[r] =
        Place("tag", at[r].next, at[r].plan, at[r].tag + 1, at[r].entry,
              at[r].blob, at[r].tagFailed, at[r].subFailed)
  BY ZenonT(60) DEF PutTagFails, TypeOK, Places, Place
<1>3. at'[r] \in Places
  BY <1>2, PlaceTypes DEF Place, Places, Steps
<1>4. TypeOK'
  BY <1>3, PutTagTypes DEF PutTagFails, Publish, TypeOK
<1>5. StepOf(r)
  BY DEF PutTagFails, Publish, StepOf, TypeOK
<1>6. /\ at'[r].step = "tag" /\ at'[r].next = at[r].next
      /\ at'[r].plan = at[r].plan /\ at'[r].tag = at[r].tag + 1
      /\ at'[r].entry = at[r].entry /\ at'[r].blob = at[r].blob
      /\ at'[r].tagFailed = at[r].tagFailed
      /\ at'[r].subFailed = at[r].subFailed
  BY <1>2 DEF Place
<1>7. blobs \subseteq blobs' /\ manifests \subseteq manifests'
  BY <1>5 DEF StepOf
<1>8. IndicesOK(r)'
  BY <1>1, <1>6 DEF RunOK, IndicesOK, PastBlobs, InTag, InImage
<1>9. LoopsOK(r)'
  BY <1>6 DEF RunOK, LoopsOK, PastBlobs, InTag, InImage
<1> QED
  BY <1>4, <1>5, <1>8, <1>9 DEF RunOK

\* SkipTag preserves the invariant.
LEMMA SkipTagPreserves ==
  ASSUME NEW r \in Runs, IInv, SkipTag(r)
  PROVE  TypeOK' /\ StepOf(r) /\ RunOK(r)'
<1> USE DEF IInv
<1>1. at[r].step = "puttag"
  BY DEF SkipTag
<1>2. at'[r] =
        Place("tag", at[r].next, at[r].plan, at[r].tag + 1, at[r].entry,
              at[r].blob, at[r].tagFailed, at[r].subFailed)
  BY DEF SkipTag, TypeOK, Places
<1>3. at'[r] \in Places
  BY <1>2, PlaceTypes DEF Place, Places, Steps
<1>4. TypeOK'
  BY <1>3 DEF SkipTag, TypeOK
<1>5. StepOf(r)
  BY DEF SkipTag, StepOf, TypeOK
<1>6. /\ at'[r].step = "tag" /\ at'[r].next = at[r].next
      /\ at'[r].plan = at[r].plan /\ at'[r].tag = at[r].tag + 1
      /\ at'[r].entry = at[r].entry /\ at'[r].blob = at[r].blob
      /\ at'[r].tagFailed = at[r].tagFailed
      /\ at'[r].subFailed = at[r].subFailed
  BY <1>2 DEF Place
<1>7. blobs \subseteq blobs' /\ manifests \subseteq manifests'
  BY <1>5 DEF StepOf
<1>8. IndicesOK(r)'
  BY <1>1, <1>6 DEF RunOK, IndicesOK, PastBlobs, InTag, InImage
<1>9. LoopsOK(r)'
  BY <1>6 DEF RunOK, LoopsOK, PastBlobs, InTag, InImage
<1> QED
  BY <1>4, <1>5, <1>8, <1>9 DEF RunOK

\* Cancel preserves the invariant.
LEMMA CancelPreserves ==
  ASSUME NEW r \in Runs, IInv, Cancel(r)
  PROVE  TypeOK' /\ StepOf(r) /\ RunOK(r)'
<1> USE DEF IInv
<1>1. at'[r] =
        Place(at[r].step, at[r].next, at[r].plan, at[r].tag, at[r].entry,
              at[r].blob, at[r].tagFailed, at[r].subFailed)
  BY DEF Cancel, TypeOK, Places, Place
<1>2. at'[r] \in Places
  BY <1>1, PlaceTypes DEF Place, Places
<1>3. TypeOK'
  BY DEF Cancel, TypeOK
<1>4. StepOf(r)
  BY DEF Cancel, StepOf
<1>5. /\ at'[r].step = at[r].step /\ at'[r].next = at[r].next
      /\ at'[r].plan = at[r].plan /\ at'[r].tag = at[r].tag
      /\ at'[r].entry = at[r].entry /\ at'[r].blob = at[r].blob
      /\ at'[r].tagFailed = at[r].tagFailed
      /\ at'[r].subFailed = at[r].subFailed
  BY <1>1 DEF Place
<1>6. blobs \subseteq blobs' /\ manifests \subseteq manifests'
  BY <1>4 DEF StepOf
<1>7. IndicesOK(r)'
  BY <1>5, SameItem DEF RunOK, IndicesOK, PastBlobs
<1>8. LoopsOK(r)'
  BY <1>6, <1>5, SameItem DEF RunOK, LoopsOK, PastBlobs, Failed, BlobsThere,
     EntriesThere, Here
<1> QED
  BY <1>3, <1>4, <1>7, <1>8 DEF RunOK

\* Die preserves the invariant.
LEMMA DiePreserves ==
  ASSUME NEW r \in Runs, IInv, Die(r)
  PROVE  TypeOK' /\ StepOf(r) /\ RunOK(r)'
<1> USE DEF IInv
<1>1. at'[r] =
        Place("dead", at[r].next, at[r].plan, at[r].tag, at[r].entry,
              at[r].blob, at[r].tagFailed, at[r].subFailed)
  BY DEF Die, TypeOK, Places, Place
<1>2. at'[r] \in Places
  BY <1>1, PlaceTypes DEF Place, Places, Steps
<1>3. TypeOK'
  BY <1>2 DEF Die, TypeOK
<1>4. StepOf(r)
  BY DEF Die, StepOf
<1>5. /\ at'[r].step = "dead" /\ at'[r].next = at[r].next
      /\ at'[r].plan = at[r].plan /\ at'[r].tag = at[r].tag
      /\ at'[r].entry = at[r].entry /\ at'[r].blob = at[r].blob
      /\ at'[r].tagFailed = at[r].tagFailed
      /\ at'[r].subFailed = at[r].subFailed
  BY <1>1 DEF Place
<1>6. blobs \subseteq blobs' /\ manifests \subseteq manifests'
  BY <1>4 DEF StepOf
<1>7. IndicesOK(r)'
  BY <1>5 DEF RunOK, IndicesOK, PastBlobs, InTag, InImage
<1>8. LoopsOK(r)'
  BY <1>5 DEF RunOK, LoopsOK, PastBlobs, InTag, InImage
<1> QED
  BY <1>3, <1>4, <1>7, <1>8 DEF RunOK

-----------------------------------------------------------------------------
(* The invariant.                                                           *)

\* The invariant holds at first: no run is inside a loop.
LEMMA InitEstablishes ==
  Init => IInv
<1> SUFFICES ASSUME Init PROVE IInv
  OBVIOUS
<1>1. TypeOK
  BY DEF Init, TypeOK, Places, Counts, Steps
<1>2. ASSUME NEW r \in Runs PROVE RunOK(r)
  BY DEF Init, RunOK, IndicesOK, LoopsOK, PastBlobs, InTag, InImage
<1> QED
  BY <1>1, <1>2 DEF IInv

\* A step of one run preserves it: its own part by the lemmas above, the
\* parts of the others because the target only grows.
LEMMA NextPreserves ==
  IInv /\ [Next]_vars => IInv'
<1> SUFFICES ASSUME IInv, [Next]_vars PROVE IInv'
  OBVIOUS
<1>1. ASSUME NEW r \in Runs, RunStep(r) \/ Cancel(r) \/ Die(r)
      PROVE  TypeOK' /\ StepOf(r) /\ RunOK(r)'
  BY <1>1, AnalysePreserves, AnalyseFailsPreserves, AnalysisDonePreserves,
     NextTagPreserves, FinishPreserves, FetchEntryPreserves,
     FetchEntryFailsPreserves, EntriesDonePreserves, BlobPresentPreserves,
     BlobMissingPreserves, CopyBlobPreserves, BlobFailsPreserves,
     BlobsDonePreserves, PutSubPreserves, PutSubFailsPreserves,
     SkipSubPreserves, PutTagPreserves, PutTagFailsPreserves,
     SkipTagPreserves, CancelPreserves, DiePreserves DEF RunStep,
     AnalyseStep, EntryStep, BlobStep, PutStep
<1>2. CASE Next
  <2>1. PICK r \in Runs : RunStep(r) \/ Cancel(r) \/ Die(r)
    BY <1>2 DEF Next
  <2>2. TypeOK' /\ StepOf(r) /\ RunOK(r)'
    BY <1>1, <2>1
  <2>3. ASSUME NEW s \in Runs PROVE RunOK(s)'
    BY <2>2, OthersKeep DEF StepOf, IInv
  <2> QED
    BY <2>2, <2>3 DEF IInv
<1>3. CASE UNCHANGED vars
  <2>1. TypeOK'
    BY <1>3 DEF IInv, TypeOK, vars
  <2>2. ASSUME NEW s \in Runs PROVE RunOK(s)'
    BY <1>3, OthersKeep DEF IInv, vars
  <2> QED
    BY <2>1, <2>2 DEF IInv
<1> QED
  BY <1>2, <1>3

\* What each run knows of the target holds at every moment.
THEOREM Invariance == Spec => []IInv
<1> QED
  BY InitEstablishes, NextPreserves, PTL DEF Spec

\* The variables keep their types.
THEOREM TypeCorrect == Spec => []TypeOK
<1>1. IInv => TypeOK
  BY DEF IInv
<1> QED
  BY <1>1, Invariance, PTL

-----------------------------------------------------------------------------
(* The target registry keeps the promise of ClosedRegistry.                 *)

\* A blob is uploaded.
LEMMA CopySimulation ==
  ASSUME IInv, NEW r \in Runs, at[r].step = "copy",
         blobs' = blobs \cup {Here(r, Blob(r))}, UNCHANGED <<manifests, tags>>
  PROVE  Registry!Next
<1>1. at[r].tag \in 1..Len(at[r].plan) /\ at[r].blob \in 1..Len(BlobsHere(r))
  BY DEF IInv, RunOK, IndicesOK, InTag
<1>2. Image(r) \in Images /\ Item(r).repo \in Repos
  BY <1>1, ItemTypes DEF IInv, RunOK, IndicesOK, InImage
<1>3. Blob(r) \in Blobs
  BY <1>1, <1>2, ItemTypes DEF IInv, Blob
<1>4. Registry!Upload(Item(r).repo, Blob(r))
  BY DEF Registry!Upload, Here
<1> QED
  BY <1>2, <1>3, <1>4 DEF Registry!Next

\* The manifest of a platform is uploaded: all its blobs are there.
LEMMA PutSubSimulation ==
  ASSUME IInv, NEW r \in Runs, at[r].step = "putsub", ~at[r].subFailed,
         manifests' = manifests \cup {Here(r, Image(r))},
         UNCHANGED <<blobs, tags>>
  PROVE  Registry!Next
<1>1. at[r].tag \in 1..Len(at[r].plan) /\ IsList(r)
  BY DEF IInv, RunOK, IndicesOK, InTag
<1>2. Image(r) \in Images /\ Item(r).repo \in Repos
  BY <1>1, PutSubTypes, ItemTypes DEF IInv
<1>3. BlobsHere(r) \in Seq(Blobs)
  BY <1>1, <1>2, ItemTypes DEF IInv
<1>4. BlobsThere(r) /\ at[r].blob > Len(BlobsHere(r)) /\ at[r].blob \in Nat
  BY PlaceTypes DEF IInv, RunOK, IndicesOK, LoopsOK, PastBlobs, Failed
<1>5. \A k \in DOMAIN BlobsHere(r) : Here(r, BlobsHere(r)[k]) \in blobs
  BY <1>4 DEF BlobsThere
<1>6. Registry!Complete(Item(r).repo, Image(r))
  BY <1>2, <1>5, ContentAssumption DEF Registry!Complete, BlobsHere, Here
<1>7. Registry!Push(Item(r).repo, Image(r))
  BY <1>6 DEF Registry!Push, Here
<1> QED
  BY <1>2, <1>7 DEF Registry!Next

\* The manifest of a tag is uploaded: its blobs, or its platforms, are there.
LEMMA PutTagSimulation ==
  ASSUME IInv, NEW r \in Runs, at[r].step = "puttag", ~at[r].tagFailed,
         Publish(r), UNCHANGED blobs
  PROVE  Registry!Next
<1>1. at[r].tag \in 1..Len(at[r].plan)
  BY DEF IInv, RunOK, IndicesOK, InTag
<1>2. /\ Item(r).repo \in Repos /\ Item(r).tag \in Tags
      /\ Item(r).manifest \in Images \cup Lists
  BY PutTagTypes
<1>3. Registry!Complete(Item(r).repo, Item(r).manifest)
  <2>1. CASE IsList(r)
    <3>1. Entries(r) \in Seq(Images)
      BY <1>1, <2>1, ItemTypes DEF IInv
    <3>2. EntriesThere(r) /\ at[r].entry > Len(Entries(r))
      BY <2>1 DEF IInv, RunOK, IndicesOK, LoopsOK, InTag
    <3>3. \A j \in DOMAIN Entries(r) : Here(r, Entries(r)[j]) \in manifests
      BY <3>2, PlaceTypes DEF IInv, EntriesThere
    <3> QED
      BY <2>1, <3>3, ContentAssumption DEF Registry!Complete, IsList,
         Entries, Here
  <2>2. CASE ~IsList(r)
    <3>1. Image(r) = Item(r).manifest /\ Image(r) \in Images
      BY <1>1, <2>2, ItemTypes DEF IInv, Image
    <3>2. BlobsHere(r) \in Seq(Blobs)
      BY <1>1, <3>1, ItemTypes DEF IInv
    <3>3. BlobsThere(r) /\ at[r].blob > Len(BlobsHere(r))
      BY <2>2 DEF IInv, RunOK, IndicesOK, LoopsOK, PastBlobs, Failed
    <3>4. \A k \in DOMAIN BlobsHere(r) : Here(r, BlobsHere(r)[k]) \in blobs
      BY <3>3, PlaceTypes DEF IInv, BlobsThere
    <3> QED
      BY <2>2, <3>1, <3>4 DEF Registry!Complete, IsList, BlobsHere, Here
  <2> QED
    BY <2>1, <2>2
<1>4. Registry!PushTag(Item(r).repo, Item(r).tag, Item(r).manifest)
  BY <1>3 DEF Registry!PushTag, Publish, Here
<1> QED
  BY <1>2, <1>4 DEF Registry!Next

\* Every step of a run uploads something that is complete, or nothing.
LEMMA StepSimulation ==
  ASSUME IInv, [Next]_vars
  PROVE  [Registry!Next]_(Registry!vars)
<1> USE DEF Registry!vars
<1>1. ASSUME NEW r \in Runs, CopyBlob(r)
      PROVE  Registry!Next
  BY <1>1, CopySimulation DEF CopyBlob
<1>2. ASSUME NEW r \in Runs, BlobFails(r)
      PROVE  [Registry!Next]_(Registry!vars)
  BY <1>2, CopySimulation DEF BlobFails
<1>3. ASSUME NEW r \in Runs, PutSub(r)
      PROVE  Registry!Next
  BY <1>3, PutSubSimulation DEF PutSub
<1>4. ASSUME NEW r \in Runs, PutSubFails(r)
      PROVE  [Registry!Next]_(Registry!vars)
  BY <1>4, PutSubSimulation DEF PutSubFails
<1>5. ASSUME NEW r \in Runs, PutTag(r)
      PROVE  Registry!Next
  BY <1>5, PutTagSimulation DEF PutTag
<1>6. ASSUME NEW r \in Runs, PutTagFails(r)
      PROVE  [Registry!Next]_(Registry!vars)
  BY <1>6, PutTagSimulation DEF PutTagFails
<1>7. ASSUME NEW r \in Runs,
             \/ AnalyseStep(r) \/ NextTag(r) \/ Finish(r) \/ EntryStep(r)
             \/ BlobPresent(r) \/ BlobMissing(r) \/ BlobsDone(r)
             \/ SkipSub(r) \/ SkipTag(r) \/ Cancel(r) \/ Die(r)
      PROVE  UNCHANGED <<blobs, manifests, tags>>
  BY <1>7 DEF AnalyseStep, EntryStep, Analyse, AnalyseFails, AnalysisDone,
     NextTag, Finish, FetchEntry, FetchEntryFails, EntriesDone, BlobPresent,
     BlobMissing, BlobsDone, SkipSub, SkipTag, Cancel, Die
<1>8. CASE Next
  BY <1>1, <1>2, <1>3, <1>4, <1>5, <1>6, <1>7, <1>8 DEF Next, RunStep,
     BlobStep, PutStep
<1>9. CASE UNCHANGED vars
  BY <1>9 DEF vars
<1> QED
  BY <1>8, <1>9

\* Any number of runs that share a target, failing, cancelled and cut off at
\* any point, fill it as ClosedRegistry says: bottom up.
THEOREM RegistryClosed == Spec => KeepsClosed
<1>1. Init => Registry!Init
  BY DEF Init, Registry!Init
<1>2. IInv /\ [Next]_vars => [Registry!Next]_(Registry!vars)
  BY StepSimulation
<1> QED
  BY <1>1, <1>2, Invariance, PTL DEF Spec, KeepsClosed, Registry!Spec

\* The tags of the target are a map from places to manifests.
TagsOK == tags \in [Repos \X Tags -> Images \cup Lists \cup {None}]

\* ClosedRegistry deserves its name: what is complete stays complete.
LEMMA PullablePreserved ==
  ASSUME TagsOK, Registry!Pullable, [Registry!Next]_(Registry!vars)
  PROVE  Registry!Pullable'
<1>1. blobs \subseteq blobs' /\ manifests \subseteq manifests'
  BY DEF Registry!Next, Registry!vars, Registry!Upload, Registry!Push,
     Registry!PushTag
<1>2. ASSUME NEW repo, NEW m, Registry!Complete(repo, m)
      PROVE  Registry!Complete(repo, m)'
  BY <1>1, <1>2 DEF Registry!Complete
<1>3. \/ manifests' = manifests /\ tags' = tags
      \/ \E repo \in Repos, m \in Images \cup Lists :
           /\ Registry!Complete(repo, m)
           /\ manifests' = manifests \cup {<<repo, m>>}
           /\ \/ tags' = tags
              \/ \E tag \in Tags : tags' = [tags EXCEPT ![<<repo, tag>>] = m]
  BY DEF Registry!Next, Registry!vars, Registry!Upload, Registry!Push,
     Registry!PushTag
<1>4. CASE manifests' = manifests /\ tags' = tags
  BY <1>2, <1>4 DEF Registry!Pullable
<1>5. CASE manifests' # manifests \/ tags' # tags
  <2>1. PICK repo \in Repos, m \in Images \cup Lists :
           /\ Registry!Complete(repo, m)
           /\ manifests' = manifests \cup {<<repo, m>>}
           /\ \/ tags' = tags
              \/ \E tag \in Tags : tags' = [tags EXCEPT ![<<repo, tag>>] = m]
    BY <1>3, <1>5
  <2>2. ASSUME NEW x \in manifests'
        PROVE  Registry!Complete(x[1], x[2])'
    <3>1. x \in manifests \/ (x[1] = repo /\ x[2] = m)
      BY <2>1
    <3> QED
      BY <1>2, <2>1 DEF Registry!Pullable
  <2>3. ASSUME NEW x \in Repos \X Tags, tags'[x] # None
        PROVE  <<x[1], tags'[x]>> \in manifests'
    <3>1. CASE tags'[x] = tags[x]
      BY <1>1, <2>3, <3>1 DEF Registry!Pullable
    <3>2. CASE tags'[x] # tags[x]
      <4>1. PICK tag \in Tags : tags' = [tags EXCEPT ![<<repo, tag>>] = m]
        BY <2>1, <3>2
      <4>2. x = <<repo, tag>> /\ tags'[x] = m
        BY <3>2, <4>1
      <4> QED
        BY <2>1, <4>2
    <3> QED
      BY <3>1, <3>2
  <2> QED
    BY <2>2, <2>3 DEF Registry!Pullable
<1> QED
  BY <1>4, <1>5

\* Whatever exists in the target, under a tag or by digest, can be pulled
\* completely at every moment of every sync.
THEOREM AlwaysPullable == Spec => []Registry!Pullable
<1>1. Init => Registry!Pullable
  BY DEF Init, Registry!Pullable
<1>2. IInv /\ [Next]_vars /\ Registry!Pullable => Registry!Pullable'
  BY StepSimulation, PullablePreserved DEF IInv, TypeOK, TagsOK
<1> QED
  BY <1>1, <1>2, Invariance, PTL DEF Spec

-----------------------------------------------------------------------------
(* What a run without failures has left in the target.  The flags do not    *)
(* tell: PutManifest of a platform sets one and counts nothing.  What every *)
(* skipped blob or platform has in common is that it was counted.           *)

ImageThere(repo, m) ==
    \A k \in 1..Len(BlobsOf[m]) : <<repo, BlobsOf[m][k]>> \in blobs
ItemThere(item) ==
    \A m \in ImagesOf(item.manifest) : ImageThere(item.repo, m)

\* While nothing is counted as failed, all that is behind the loops is there.
CleanOK(r) == count[r].failed = 0 =>
    /\ \A i \in 1..Len(at[r].plan) : i < at[r].tag => ItemThere(at[r].plan[i])
    /\ at[r].step \in InTag /\ IsList(r) =>
         \A j \in 1..Len(Entries(r)) :
            j < at[r].entry => ImageThere(Item(r).repo, Entries(r)[j])
    /\ at[r].step \in InImage \/ PastBlobs(r) => BlobsThere(r)

\* The plan is complete before the first tag, and over after the last.
TurnsOK(r) ==
    /\ at[r].step = "analyse" => at[r].tag = 1
    /\ at[r].step = "done" => at[r].tag > Len(at[r].plan)

\* The target grows, and so does what is there.
LEMMA ThereStays ==
  ASSUME blobs \subseteq blobs'
  PROVE  /\ \A repo, m : ImageThere(repo, m) => ImageThere(repo, m)'
         /\ \A item : ItemThere(item) => ItemThere(item)'
<1>1. \A repo, m : ImageThere(repo, m) => ImageThere(repo, m)'
  BY DEF ImageThere
<1> QED
  BY <1>1 DEF ItemThere

\* The steps of the others, and a cancellation, change nothing about it.
LEMMA OthersClean ==
  ASSUME NEW s \in Runs, at'[s] = at[s], count'[s] = count[s],
         blobs \subseteq blobs', CleanOK(s), TurnsOK(s)
  PROVE  CleanOK(s)' /\ TurnsOK(s)'
<1>1. /\ Item(s)' = Item(s) /\ (IsList(s)' <=> IsList(s)) /\ Entries(s)' = Entries(s)
      /\ BlobsHere(s)' = BlobsHere(s) /\ (PastBlobs(s)' <=> PastBlobs(s))
  BY DEF Item, IsList, Entries, Image, BlobsHere, PastBlobs
<1>2. BlobsThere(s) => BlobsThere(s)'
  BY <1>1 DEF BlobsThere, Here
<1> QED
  BY <1>1, <1>2, ThereStays DEF CleanOK, TurnsOK

\* A step that leaves the tag loop, or has not entered it.
LEMMA OutsideClean ==
  ASSUME NEW r \in Runs, CleanOK(r), blobs \subseteq blobs',
         at'[r].plan = at[r].plan, at'[r].tag = at[r].tag,
         at'[r].step \notin InTag, count'[r].failed = count[r].failed
  PROVE  CleanOK(r)'
<1>1. ~PastBlobs(r)' /\ at'[r].step \notin InImage
  BY DEF PastBlobs, InTag, InImage
<1> QED
  BY <1>1, ThereStays DEF CleanOK

\* A step within an item that goes on to no other platform.
LEMMA InsideClean ==
  ASSUME NEW r \in Runs, CleanOK(r), blobs \subseteq blobs',
         at'[r].plan = at[r].plan, at'[r].tag = at[r].tag,
         at'[r].entry = at[r].entry, at[r].step \in InTag,
         count'[r].failed = count[r].failed,
         count[r].failed = 0 /\ (at'[r].step \in InImage \/ PastBlobs(r)')
           => BlobsThere(r)'
  PROVE  CleanOK(r)'
<1>1. Item(r)' = Item(r) /\ (IsList(r)' <=> IsList(r)) /\ Entries(r)' = Entries(r)
  BY SameItem
<1> QED
  BY <1>1, ThereStays DEF CleanOK

\* The blobs of an image that is behind the loop are there.
LEMMA WholeImage ==
  ASSUME NEW r \in Runs, IInv, PastBlobs(r), BlobsThere(r)
  PROVE  ImageThere(Item(r).repo, Image(r))
<1>1. at[r].blob > Len(BlobsHere(r)) /\ at[r].tag \in 1..Len(at[r].plan)
  BY DEF IInv, RunOK, IndicesOK, PastBlobs, InTag
<1>2. Image(r) \in Images
  BY <1>1, ItemTypes DEF IInv, RunOK, IndicesOK, PastBlobs, InImage
<1>3. Len(BlobsHere(r)) \in Nat /\ at[r].blob \in Nat
  BY <1>1, <1>2, ItemTypes, PlaceTypes DEF IInv
<1>4. \A k \in 1..Len(BlobsHere(r)) : k < at[r].blob
  BY <1>1, <1>3
<1> QED
  BY <1>4 DEF BlobsThere, BlobsHere, Here, ImageThere

\* The loop goes on to the next platform.
LEMMA EntryClean ==
  ASSUME NEW r \in Runs, IInv, CleanOK(r), UNCHANGED <<blobs, count>>,
         at[r].step = "putsub", at'[r].step = "entry",
         at'[r].plan = at[r].plan, at'[r].tag = at[r].tag,
         at'[r].entry = at[r].entry + 1
  PROVE  CleanOK(r)'
<1>1. Item(r)' = Item(r) /\ (IsList(r)' <=> IsList(r)) /\ Entries(r)' = Entries(r)
  BY SameItem
<1>2. IsList(r) /\ PastBlobs(r) /\ at[r].entry \in Nat
  BY PlaceTypes DEF IInv, RunOK, IndicesOK, PastBlobs
<1>3. ~PastBlobs(r)'
  BY <1>1, <1>2 DEF PastBlobs
<1>4. ASSUME count[r].failed = 0, NEW j \in 1..Len(Entries(r)), j < at[r].entry + 1
      PROVE  ImageThere(Item(r).repo, Entries(r)[j])
  <2>1. CASE j < at[r].entry
    BY <1>2, <1>4, <2>1 DEF CleanOK, InTag
  <2>2. CASE j = at[r].entry
    <3>1. BlobsThere(r)
      BY <1>2, <1>4 DEF CleanOK
    <3> QED
      BY <1>2, <2>2, <3>1, WholeImage DEF Image
  <2> QED
    BY <1>2, <1>4, <2>1, <2>2
<1> QED
  BY <1>1, <1>3, <1>4, ThereStays DEF CleanOK, InImage

\* The loop goes on to the next tag.
LEMMA TagClean ==
  ASSUME NEW r \in Runs, IInv, CleanOK(r), UNCHANGED <<blobs, count>>,
         at[r].step = "puttag", at'[r].step = "tag",
         at'[r].plan = at[r].plan, at'[r].tag = at[r].tag + 1
  PROVE  CleanOK(r)'
<1>1. at[r].tag \in 1..Len(at[r].plan) /\ at[r].tag \in Nat
  BY PlaceTypes DEF IInv, RunOK, IndicesOK, InTag
<1>2. ASSUME count[r].failed = 0 PROVE ItemThere(Item(r))
  <2>1. CASE IsList(r)
    <3>1. Entries(r) \in Seq(Images) /\ at[r].entry > Len(Entries(r))
          /\ at[r].entry \in Nat
      BY <1>1, <2>1, ItemTypes, PlaceTypes DEF IInv, RunOK, IndicesOK
    <3>2. \A j \in 1..Len(Entries(r)) : ImageThere(Item(r).repo, Entries(r)[j])
      BY <1>2, <2>1, <3>1 DEF CleanOK, InTag
    <3>3. ImagesOf(Item(r).manifest) = {Entries(r)[j] : j \in 1..Len(Entries(r))}
      BY <2>1, <3>1 DEF ImagesOf, IsList, Entries
    <3> QED
      BY <3>2, <3>3 DEF ItemThere
  <2>2. CASE ~IsList(r)
    <3>1. ImageThere(Item(r).repo, Image(r))
      BY <1>2, <2>2, WholeImage DEF CleanOK, PastBlobs
    <3> QED
      BY <2>2, <3>1 DEF ItemThere, ImagesOf, Image, IsList
  <2> QED
    BY <2>1, <2>2
<1>3. ASSUME count[r].failed = 0, NEW i \in 1..Len(at[r].plan), i < at[r].tag + 1
      PROVE  ItemThere(at[r].plan[i])
  <2>1. CASE i < at[r].tag
    BY <1>3, <2>1 DEF CleanOK
  <2>2. CASE i = at[r].tag
    BY <1>2, <1>3, <2>2 DEF Item
  <2> QED
    BY <1>1, <1>3, <2>1, <2>2
<1> QED
  BY <1>3, ThereStays DEF CleanOK, PastBlobs, InTag, InImage

\* A step of the run itself.
LEMMA OwnClean ==
  ASSUME NEW r \in Runs, IInv, CleanOK(r), TurnsOK(r), RunStep(r) \/ Die(r),
         blobs \subseteq blobs'
  PROVE  CleanOK(r)' /\ TurnsOK(r)'
<1>1. /\ at \in [Runs -> Places] /\ count \in [Runs -> Counts]
      /\ count[r].failed \in Nat /\ at[r].tag \in Nat
  BY PlaceTypes DEF IInv, TypeOK, Counts
<1>2. CASE Analyse(r)
  <2>1. /\ at[r].step = "analyse" /\ at'[r].step = "analyse" /\ at'[r].tag = at[r].tag
    BY <1>1, <1>2 DEF Analyse
  <2>2. at'[r].tag = 1 /\ ~PastBlobs(r)'
    BY <2>1 DEF TurnsOK, PastBlobs
  <2>3. \A i \in 1..Len(at'[r].plan) : ~(i < 1)
    OBVIOUS
  <2> QED
    BY <2>1, <2>2, <2>3 DEF CleanOK, TurnsOK, InTag, InImage
<1>3. CASE AnalyseFails(r) \/ AnalysisDone(r) \/ Finish(r) \/ Die(r)
  <2>1. /\ at'[r].plan = at[r].plan /\ at'[r].tag = at[r].tag
        /\ at'[r].step \notin InTag /\ count'[r].failed = count[r].failed
        /\ at'[r].step = "analyse" => at[r].step = "analyse"
        /\ at'[r].step = "done" => at[r].tag > Len(at[r].plan)
    <3>1. CASE AnalyseFails(r)
      BY <1>1, <3>1 DEF AnalyseFails, InTag
    <3>2. CASE AnalysisDone(r)
      BY <1>1, <3>2 DEF AnalysisDone, InTag
    <3>3. CASE Finish(r)
      BY <1>1, <3>3 DEF Finish, InTag
    <3>4. CASE Die(r)
      BY <1>1, <3>4 DEF Die, InTag
    <3> QED
      BY <1>3, <3>1, <3>2, <3>3, <3>4
  <2> QED
    BY <2>1, OutsideClean DEF TurnsOK
<1>4. CASE NextTag(r)
  <2>1. /\ at'[r].plan = at[r].plan /\ at'[r].tag = at[r].tag
        /\ at'[r].entry = 1 /\ at'[r].blob = 1 /\ count' = count
        /\ at'[r].step \in {"entry", "blob"}
    BY <1>1, <1>4 DEF NextTag
  <2>2. \A k \in Nat : k >= 1 => ~(k < 1)
    OBVIOUS
  <2>3. BlobsThere(r)' /\ ~PastBlobs(r)'
    BY <2>1 DEF BlobsThere, PastBlobs
  <2>4. \A j \in 1..Len(Entries(r)') : ~(j < at'[r].entry)
    BY <2>1
  <2> QED
    BY <2>1, <2>3, <2>4, ThereStays DEF CleanOK, TurnsOK
<1>5. CASE FetchEntryFails(r) \/ BlobFails(r)
  <2>1. count'[r].failed = count[r].failed + 1
        /\ at'[r].step \in {"entry", "blob"}
    <3>1. CASE FetchEntryFails(r)
      BY <1>1, <3>1 DEF FetchEntryFails
    <3>2. CASE BlobFails(r)
      BY <1>1, <3>2 DEF BlobFails
    <3> QED
      BY <1>5, <3>1, <3>2
  <2> QED
    BY <1>1, <2>1 DEF CleanOK, TurnsOK
<1>6. CASE FetchEntry(r)
  <2>1. /\ at'[r].plan = at[r].plan /\ at'[r].tag = at[r].tag
        /\ at'[r].entry = at[r].entry /\ at'[r].blob = 1
        /\ at[r].step \in InTag /\ at'[r].step = "blob" /\ count' = count
    BY <1>1, <1>6 DEF FetchEntry, InTag
  <2>2. BlobsThere(r)'
    BY <2>1 DEF BlobsThere
  <2> QED
    BY <2>1, <2>2, InsideClean DEF TurnsOK
<1>7. CASE EntriesDone(r)
  <2>1. /\ at'[r].plan = at[r].plan /\ at'[r].tag = at[r].tag
        /\ at'[r].entry = at[r].entry
        /\ at[r].step = "entry" /\ at'[r].step = "puttag" /\ count' = count
    BY <1>1, <1>7 DEF EntriesDone
  <2>2. ~PastBlobs(r)'
    BY <2>1, SameItem DEF PastBlobs, IInv, RunOK, IndicesOK
  <2> QED
    BY <2>1, <2>2, InsideClean DEF TurnsOK, InTag, InImage
<1>8. CASE BlobPresent(r) \/ CopyBlob(r)
  <2>1. /\ at'[r].plan = at[r].plan /\ at'[r].tag = at[r].tag
        /\ at'[r].entry = at[r].entry /\ at'[r].blob = at[r].blob + 1
        /\ at[r].step \in {"blob", "copy"} /\ at'[r].step = "blob"
        /\ count'[r].failed = count[r].failed
        /\ Here(r, Blob(r)) \in blobs'
    <3>1. CASE BlobPresent(r)
      BY <1>1, <3>1 DEF BlobPresent, Counts
    <3>2. CASE CopyBlob(r)
      BY <1>1, <3>2 DEF CopyBlob, Counts
    <3> QED
      BY <1>8, <3>1, <3>2
  <2>2. ASSUME count[r].failed = 0 PROVE BlobsThere(r)'
    <3>1. BlobsThere(r)
      BY <2>1, <2>2 DEF CleanOK, InImage
    <3> QED
      BY <2>1, <3>1, OneMoreBlob
  <2> QED
    BY <2>1, <2>2, InsideClean DEF TurnsOK, InTag
<1>9. CASE BlobMissing(r) \/ BlobsDone(r)
  <2>1. /\ at'[r].plan = at[r].plan /\ at'[r].tag = at[r].tag
        /\ at'[r].entry = at[r].entry /\ at'[r].blob = at[r].blob
        /\ at[r].step = "blob" /\ at'[r].step \in {"copy", "putsub", "puttag"}
        /\ count' = count
    <3>1. CASE BlobMissing(r)
      BY <1>1, <3>1 DEF BlobMissing
    <3>2. CASE BlobsDone(r)
      BY <1>1, <3>2 DEF BlobsDone
    <3> QED
      BY <1>9, <3>1, <3>2
  <2>2. ASSUME count[r].failed = 0 PROVE BlobsThere(r)'
    <3>1. BlobsThere(r)
      BY <2>1, <2>2 DEF CleanOK, InImage
    <3> QED
      BY <2>1, <3>1, SameItem DEF BlobsThere, Here
  <2> QED
    BY <2>1, <2>2, InsideClean DEF TurnsOK, InTag
<1>10. CASE PutSub(r) \/ PutSubFails(r) \/ SkipSub(r)
  <2>1. /\ at'[r].plan = at[r].plan /\ at'[r].tag = at[r].tag
        /\ at'[r].entry = at[r].entry + 1
        /\ at[r].step = "putsub" /\ at'[r].step = "entry"
        /\ UNCHANGED <<blobs, count>>
    <3>1. CASE PutSub(r)
      BY <1>1, <3>1 DEF PutSub
    <3>2. CASE PutSubFails(r)
      BY <1>1, <3>2 DEF PutSubFails
    <3>3. CASE SkipSub(r)
      BY <1>1, <3>3 DEF SkipSub
    <3> QED
      BY <1>10, <3>1, <3>2, <3>3
  <2> QED
    BY <2>1, EntryClean DEF TurnsOK
<1>11. CASE PutTag(r) \/ PutTagFails(r) \/ SkipTag(r)
  <2>1. /\ at'[r].plan = at[r].plan /\ at'[r].tag = at[r].tag + 1
        /\ at[r].step = "puttag" /\ at'[r].step = "tag"
        /\ UNCHANGED <<blobs, count>>
    <3>1. CASE PutTag(r)
      BY <1>1, <3>1 DEF PutTag
    <3>2. CASE PutTagFails(r)
      BY <1>1, <3>2 DEF PutTagFails
    <3>3. CASE SkipTag(r)
      BY <1>1, <3>3 DEF SkipTag
    <3> QED
      BY <1>11, <3>1, <3>2, <3>3
  <2> QED
    BY <2>1, TagClean DEF TurnsOK
<1> QED
  BY <1>2, <1>3, <1>4, <1>5, <1>6, <1>7, <1>8, <1>9, <1>10, <1>11
     DEF RunStep, AnalyseStep, EntryStep, BlobStep, PutStep

\* Every step keeps what the runs without failures have left there.
LEMMA NextClean ==
  ASSUME IInv, [Next]_vars, \A s \in Runs : CleanOK(s) /\ TurnsOK(s)
  PROVE  \A s \in Runs : CleanOK(s)' /\ TurnsOK(s)'
<1>1. ASSUME NEW r \in Runs, RunStep(r) \/ Cancel(r) \/ Die(r), NEW s \in Runs
      PROVE  CleanOK(s)' /\ TurnsOK(s)'
  <2>1. blobs \subseteq blobs'
    BY <1>1 DEF RunStep, AnalyseStep, EntryStep, BlobStep, PutStep, Analyse,
       AnalyseFails, AnalysisDone, NextTag, Finish, FetchEntry, FetchEntryFails,
       EntriesDone, BlobPresent, BlobMissing, CopyBlob, BlobFails, BlobsDone,
       PutSub, PutSubFails, SkipSub, PutTag, PutTagFails, SkipTag, Cancel, Die
  <2>2. CASE Cancel(r)
    BY <2>1, <2>2, OthersClean DEF Cancel
  <2>3. CASE s = r /\ ~Cancel(r)
    BY <1>1, <2>1, <2>3, OwnClean
  <2>4. CASE s # r /\ ~Cancel(r)
    <3>1. at'[s] = at[s] /\ count'[s] = count[s]
      BY <1>1, <2>4 DEF IInv, TypeOK, RunStep, AnalyseStep, EntryStep, BlobStep,
         PutStep, Analyse, AnalyseFails, AnalysisDone, NextTag, Finish, FetchEntry,
         FetchEntryFails, EntriesDone, BlobPresent, BlobMissing, CopyBlob,
         BlobFails, BlobsDone, PutSub, PutSubFails, SkipSub, PutTag, PutTagFails,
         SkipTag, Die
    <3> QED
      BY <2>1, <3>1, OthersClean
  <2> QED
    BY <2>2, <2>3, <2>4
<1>2. ASSUME UNCHANGED vars, NEW s \in Runs PROVE CleanOK(s)' /\ TurnsOK(s)'
  BY <1>2, OthersClean DEF vars
<1> QED
  BY <1>1, <1>2 DEF Next

\* A run that ends and counts no failure has left no blob of its plan behind,
\* although the flags of the code are reset in the middle of its loops.
THEOREM CleanRunsCopiedAll == Spec => []NoFailureMeansBlobs
<1> DEFINE Clean == \A s \in Runs : CleanOK(s) /\ TurnsOK(s)
<1>1. Init => Clean
  BY DEF Init, CleanOK, TurnsOK, InTag, InImage, PastBlobs
<1>2. IInv /\ Clean /\ [Next]_vars => Clean'
  BY NextClean
<1>3. IInv /\ Clean => NoFailureMeansBlobs
  <2> SUFFICES ASSUME IInv, Clean, NEW r \in Runs, at[r].step = "done",
                      count[r].failed = 0, NEW i \in DOMAIN at[r].plan,
                      NEW m \in ImagesOf(at[r].plan[i].manifest),
                      NEW k \in DOMAIN BlobsOf[m]
               PROVE  <<at[r].plan[i].repo, BlobsOf[m][k]>> \in blobs
    BY DEF NoFailureMeansBlobs
  <2>1. at[r].plan \in Seq(Items) /\ at[r].tag \in Nat
    BY PlaceTypes DEF IInv
  <2>2. i \in 1..Len(at[r].plan) /\ i < at[r].tag
    BY <2>1 DEF TurnsOK
  <2>3. ImageThere(at[r].plan[i].repo, m)
    BY <2>2 DEF CleanOK, ItemThere
  <2>4. at[r].plan[i].manifest \in Images \cup Lists
    <3>1. at[r].plan[i] \in Items
      BY <2>1
    <3> QED
      BY <3>1 DEF Items
  <2>5. m \in Images
    BY <2>4, ContentAssumption DEF ImagesOf
  <2>6. DOMAIN BlobsOf[m] = 1..Len(BlobsOf[m])
    BY <2>5, ContentAssumption
  <2> QED
    BY <2>3, <2>6 DEF ImageThere
<1> QED
  BY <1>1, <1>2, <1>3, Invariance, PTL DEF Spec

-----------------------------------------------------------------------------
(* The counters of a run without manifest lists.  A sum over the plan has   *)
(* no closed form to prove about: the invariant says instead that there are *)
(* partial sums, which each analysed item extends by one, and how far into  *)
(* them the transfer is.                                                    *)

\* sum[i] blobs are in the first i items of r's plan.
PartialSums(r, sum) ==
    /\ sum \in [0..Len(at[r].plan) -> Nat]
    /\ sum[0] = 0
    /\ \A i \in 1..Len(at[r].plan) :
          sum[i] = sum[i - 1] + BlobCount(at[r].plan[i].manifest)

\* What has been synced or failed, by the place in the loops.
Counted(r, sum) ==
    LET counted == count[r].synced + count[r].failed IN
    /\ at[r].step \in {"analyse", "tag", "done"} => counted = sum[at[r].tag - 1]
    /\ at[r].step \in {"blob", "copy"} =>
         counted = sum[at[r].tag - 1] + at[r].blob - 1
    /\ at[r].step = "puttag" => counted = sum[at[r].tag]

SumsOK(r) == \E sum \in [0..Len(at[r].plan) -> Nat] :
    /\ PartialSums(r, sum)
    /\ count[r].total = sum[Len(at[r].plan)]
    /\ Flat(r) => Counted(r, sum)

\* The loops stop right behind the last item and the last blob.
BoundsOK(r) ==
    /\ at[r].tag <= Len(at[r].plan) + 1
    /\ at[r].step = "blob" => at[r].blob <= Len(BlobsHere(r)) + 1
    /\ at[r].step = "puttag" /\ ~IsList(r) => at[r].blob <= Len(BlobsHere(r)) + 1

CountOK(r) ==
    /\ BoundsOK(r) /\ SumsOK(r)
    /\ count[r].skipped <= count[r].synced

\* The steps of the others, and a cancellation, change nothing about it.
LEMMA OthersCount ==
  ASSUME NEW s \in Runs, at'[s] = at[s], count'[s] = count[s], CountOK(s)
  PROVE  CountOK(s)'
<1>1. count'[s].skipped <= count'[s].synced
  BY DEF CountOK
<1>2. BoundsOK(s)'
  BY SameItem DEF CountOK, BoundsOK
<1>3. SumsOK(s)'
  BY DEF CountOK, SumsOK, PartialSums, Counted, Flat
<1> QED
  BY <1>1, <1>2, <1>3 DEF CountOK

\* In a plan without lists the item at hand is an image.
LEMMA FlatItem ==
  ASSUME NEW r \in Runs, IInv, Flat(r), at[r].tag \in 1..Len(at[r].plan)
  PROVE  /\ ~IsList(r) /\ BlobsHere(r) \in Seq(Blobs)
         /\ BlobCount(Item(r).manifest) = Len(BlobsHere(r))
<1>1. at[r].plan \in Seq(Items)
  BY PlaceTypes DEF IInv
<1>2. Item(r).manifest \in Images
  BY <1>1 DEF Flat, Item
<1>3. ~IsList(r)
  BY <1>2, ContentAssumption DEF IsList
<1> QED
  BY <1>2, <1>3, ContentAssumption DEF Image, BlobsHere, BlobCount, IsList

\* A step that leaves the plan and the total as they are.
LEMMA SamePlan ==
  ASSUME NEW r \in Runs, SumsOK(r), at'[r].plan = at[r].plan,
         count'[r].total = count[r].total,
         ASSUME NEW sum \in [0..Len(at[r].plan) -> Nat], PartialSums(r, sum),
                Flat(r), Counted(r, sum)
         PROVE  Counted(r, sum)'
  PROVE  SumsOK(r)'
<1>1. PICK sum \in [0..Len(at[r].plan) -> Nat] :
        /\ PartialSums(r, sum)
        /\ count[r].total = sum[Len(at[r].plan)]
        /\ Flat(r) => Counted(r, sum)
  BY DEF SumsOK
<1>2. PartialSums(r, sum)'
  BY <1>1 DEF PartialSums
<1>3. Flat(r)' => Flat(r)
  BY DEF Flat
<1>4. Flat(r)' => Counted(r, sum)'
  BY <1>1, <1>3
<1>5. count'[r].total = sum[Len(at'[r].plan)]
  BY <1>1
<1> QED
  BY <1>2, <1>4, <1>5 DEF SumsOK

\* The types of what is counted.
LEMMA CountTypes ==
  ASSUME NEW r \in Runs, IInv
  PROVE  /\ count[r].total \in Nat /\ count[r].synced \in Nat
         /\ count[r].skipped \in Nat /\ count[r].failed \in Nat
         /\ at[r].tag \in Nat /\ at[r].tag >= 1 /\ at[r].blob \in Nat
         /\ Len(at[r].plan) \in Nat
<1>1. count[r] \in Counts
  BY PlaceTypes DEF IInv
<1>2. at[r].tag >= 1
  BY DEF IInv, RunOK, IndicesOK
<1> QED
  BY <1>1, <1>2, PlaceTypes DEF IInv, Counts

\* A step of the run itself: the sums of its plan.
LEMMA OwnSums ==
  ASSUME NEW r \in Runs, IInv, CountOK(r), TurnsOK(r), RunStep(r) \/ Die(r)
  PROVE  SumsOK(r)'
<1>1. at \in [Runs -> Places] /\ count \in [Runs -> Counts]
  BY DEF IInv, TypeOK
<1> DEFINE n == Len(at[r].plan)
<1>2. /\ SumsOK(r) /\ at[r].tag \in 1..(n + 1) /\ n \in Nat
      /\ at[r].step \in InTag => at[r].tag \in 1..n
  BY CountTypes DEF CountOK, BoundsOK, IInv, RunOK, IndicesOK
<1>3. ASSUME NEW sum \in [0..n -> Nat]
      PROVE  sum[at[r].tag - 1] \in Nat
  BY <1>2
<1> HIDE DEF n
<1>4. CASE Analyse(r)
  <2> DEFINE item == Source[r][at[r].next]
             m == item.manifest
  <2>1. /\ at[r].step = "analyse" /\ at'[r].step = "analyse" /\ at[r].tag = 1
        /\ at'[r].plan = Append(at[r].plan, item) /\ at'[r].tag = at[r].tag
        /\ count'[r].synced = count[r].synced /\ count'[r].failed = count[r].failed
        /\ count'[r].total = count[r].total + BlobCount(m)
    BY <1>1, <1>4 DEF Analyse, Counts, TurnsOK
  <2>2. at[r].next \in 1..Len(Source[r])
    BY <1>4, PlaceTypes DEF Analyse, IInv, RunOK, IndicesOK
  <2>3. item \in Items /\ BlobCount(m) \in Nat
    <3>1. item \in Items
      BY <2>2, SourceAssumption
    <3> QED
      BY <3>1, BlobCounts DEF Items
  <2> HIDE DEF item, m
  <2>4. /\ at[r].plan \in Seq(Items) /\ Len(at'[r].plan) = n + 1
        /\ \A i \in 1..n : at'[r].plan[i] = at[r].plan[i]
        /\ at'[r].plan[n + 1] = item
    BY <2>1, <2>3, PlaceTypes DEF IInv, n
  <2>5. PICK sum \in [0..n -> Nat] :
          /\ PartialSums(r, sum)
          /\ count[r].total = sum[n]
          /\ Flat(r) => Counted(r, sum)
    BY <1>2 DEF SumsOK, n
  <2>6. PICK more \in [0..(n + 1) -> Nat] :
          more[n + 1] = sum[n] + BlobCount(m) /\ \A i \in 0..n : more[i] = sum[i]
    <3> DEFINE f == [i \in 0..(n + 1) |->
                        IF i = n + 1 THEN sum[n] + BlobCount(m) ELSE sum[i]]
    <3>1. f \in [0..(n + 1) -> Nat]
      BY <1>2, <2>3
    <3>2. f[n + 1] = sum[n] + BlobCount(m) /\ \A i \in 0..n : f[i] = sum[i]
      BY <1>2, <2>3
    <3> QED
      BY <3>1, <3>2
  <2>7. PartialSums(r, more)'
    <3>1. \A i \in 1..n : i - 1 \in 0..n /\ i \in 0..n
      BY <1>2
    <3>2. \A i \in 1..n : sum[i] = sum[i - 1] + BlobCount(at[r].plan[i].manifest)
      BY <2>5 DEF PartialSums, n
    <3>3. \A i \in 1..n : more[i] = more[i - 1] + BlobCount(at'[r].plan[i].manifest)
      BY <2>4, <2>6, <3>1, <3>2
    <3>4. more[n + 1] = more[(n + 1) - 1] + BlobCount(at'[r].plan[n + 1].manifest)
      BY <1>2, <2>4, <2>6 DEF m
    <3>5. more[0] = 0
      BY <1>2, <2>5, <2>6 DEF PartialSums
    <3>6. \A i \in 1..(n + 1) : i \in 1..n \/ i = n + 1
      BY <1>2
    <3> QED
      BY <2>4, <2>6, <3>3, <3>4, <3>5, <3>6 DEF PartialSums
  <2>8. Flat(r)' => Counted(r, more)'
    <3>1. Flat(r)' => Flat(r)
      <4>1. DOMAIN at[r].plan = 1..n /\ DOMAIN at'[r].plan = 1..(n + 1)
        BY <2>1, <2>3, <2>4 DEF n
      <4>2. \A i \in 1..n : i \in 1..(n + 1)
        BY <1>2
      <4> QED
        BY <2>4, <4>1, <4>2 DEF Flat
    <3>2. Counted(r, sum) => count[r].synced + count[r].failed = sum[0]
      BY <2>1 DEF Counted
    <3>3. more[0] = sum[0]
      BY <1>2, <2>6
    <3> QED
      BY <2>1, <2>5, <3>1, <3>2, <3>3 DEF Counted
  <2>9. count'[r].total = more[Len(at'[r].plan)]
    BY <2>1, <2>4, <2>5, <2>6
  <2> QED
    BY <2>4, <2>6, <2>7, <2>8, <2>9 DEF SumsOK
<1>5. CASE AnalyseFails(r) \/ AnalysisDone(r) \/ Finish(r) \/ Die(r)
  <2>1. /\ at'[r].plan = at[r].plan /\ at'[r].tag = at[r].tag
        /\ count'[r] = count[r]
        /\ \/ /\ at[r].step \in {"analyse", "tag"}
              /\ at'[r].step \in {"analyse", "tag", "done"}
           \/ at'[r].step = "dead"
    <3>1. CASE AnalyseFails(r)
      BY <1>1, <3>1 DEF AnalyseFails
    <3>2. CASE AnalysisDone(r)
      BY <1>1, <3>2 DEF AnalysisDone
    <3>3. CASE Finish(r)
      BY <1>1, <3>3 DEF Finish
    <3>4. CASE Die(r)
      BY <1>1, <3>4 DEF Die
    <3> QED
      BY <1>5, <3>1, <3>2, <3>3, <3>4
  <2>2. ASSUME NEW sum \in [0..Len(at[r].plan) -> Nat], PartialSums(r, sum),
               Flat(r), Counted(r, sum)
        PROVE  Counted(r, sum)'
    BY <2>1, <2>2 DEF Counted
  <2> QED
    BY <1>2, <2>1, <2>2, SamePlan
<1>6. CASE NextTag(r)
  <2>1. /\ at'[r].plan = at[r].plan /\ at'[r].tag = at[r].tag
        /\ count'[r] = count[r] /\ at[r].step = "tag" /\ at'[r].blob = 1
        /\ at'[r].step \in {"entry", "blob"}
    BY <1>1, <1>6 DEF NextTag
  <2>2. ASSUME NEW sum \in [0..Len(at[r].plan) -> Nat], PartialSums(r, sum),
               Flat(r), Counted(r, sum)
        PROVE  Counted(r, sum)'
    <3>1. sum[at[r].tag - 1] \in Nat
      BY <1>3 DEF n
    <3> QED
      BY <2>1, <2>2, <3>1 DEF Counted
  <2> QED
    BY <1>2, <2>1, <2>2, SamePlan
<1>7. CASE EntryStep(r) \/ PutSub(r) \/ PutSubFails(r) \/ SkipSub(r)
  <2>1. /\ at'[r].plan = at[r].plan /\ at[r].step \in {"entry", "putsub"}
        /\ count'[r].total = count[r].total
    <3>1. CASE EntryStep(r)
      <4>1. CASE FetchEntry(r)
        BY <1>1, <4>1 DEF FetchEntry
      <4>2. CASE FetchEntryFails(r)
        BY <1>1, <4>2 DEF FetchEntryFails, Counts
      <4>3. CASE EntriesDone(r)
        BY <1>1, <4>3 DEF EntriesDone
      <4> QED
        BY <3>1, <4>1, <4>2, <4>3 DEF EntryStep
    <3>2. CASE PutSub(r)
      BY <1>1, <3>2 DEF PutSub
    <3>3. CASE PutSubFails(r)
      BY <1>1, <3>3 DEF PutSubFails
    <3>4. CASE SkipSub(r)
      BY <1>1, <3>4 DEF SkipSub
    <3> QED
      BY <1>7, <3>1, <3>2, <3>3, <3>4
  <2>2. IsList(r) /\ at[r].tag \in 1..n
    BY <1>2, <2>1 DEF IInv, RunOK, IndicesOK, InTag
  <2>3. ~Flat(r)
    BY <2>2, FlatItem DEF n
  <2> QED
    BY <1>2, <2>1, <2>3, SamePlan
<1>8. CASE BlobPresent(r) \/ CopyBlob(r) \/ BlobFails(r)
  <2>1. /\ at'[r].plan = at[r].plan /\ at'[r].tag = at[r].tag
        /\ at[r].step \in {"blob", "copy"} /\ at'[r].step = "blob"
        /\ at'[r].blob = at[r].blob + 1
        /\ count'[r].total = count[r].total
        /\ \/ /\ count'[r].synced = count[r].synced + 1
              /\ count'[r].failed = count[r].failed
           \/ /\ count'[r].synced = count[r].synced
              /\ count'[r].failed = count[r].failed + 1
    <3>1. CASE BlobPresent(r)
      BY <1>1, <3>1 DEF BlobPresent, Counts
    <3>2. CASE CopyBlob(r)
      BY <1>1, <3>2 DEF CopyBlob, Counts
    <3>3. CASE BlobFails(r)
      BY <1>1, <3>3 DEF BlobFails, Counts
    <3> QED
      BY <1>8, <3>1, <3>2, <3>3
  <2>2. ASSUME NEW sum \in [0..Len(at[r].plan) -> Nat], PartialSums(r, sum),
               Flat(r), Counted(r, sum)
        PROVE  Counted(r, sum)'
    <3>1. sum[at[r].tag - 1] \in Nat
      BY <1>3 DEF n
    <3>2. count[r].synced + count[r].failed = sum[at[r].tag - 1] + at[r].blob - 1
      BY <2>1, <2>2 DEF Counted
    <3>4. count'[r].synced + count'[r].failed
            = count[r].synced + count[r].failed + 1
      <4>1. count[r].synced \in Nat /\ count[r].failed \in Nat
        BY CountTypes
      <4>2. CASE /\ count'[r].synced = count[r].synced + 1
                 /\ count'[r].failed = count[r].failed
        BY <4>1, <4>2
      <4>3. CASE /\ count'[r].synced = count[r].synced
                 /\ count'[r].failed = count[r].failed + 1
        BY <4>1, <4>3
      <4> QED
        BY <2>1, <4>2, <4>3
    <3>5. at'[r].blob - 1 = at[r].blob /\ at[r].blob \in Nat
      BY <2>1, CountTypes
    <3>6. sum[at[r].tag - 1] + at[r].blob - 1 + 1 = sum[at[r].tag - 1] + at[r].blob
      BY <3>1, <3>5
    <3>7. sum[at[r].tag - 1] + at'[r].blob - 1 = sum[at[r].tag - 1] + at[r].blob
      BY <2>1, <3>1, <3>5
    <3>3. count'[r].synced + count'[r].failed
            = sum[at[r].tag - 1] + at'[r].blob - 1
      BY <3>2, <3>4, <3>6, <3>7
    <3> QED
      BY <2>1, <3>3 DEF Counted
  <2> QED
    BY <1>2, <2>1, <2>2, SamePlan
<1>9. CASE BlobMissing(r)
  <2>1. /\ at'[r].plan = at[r].plan /\ at'[r].tag = at[r].tag
        /\ at[r].step = "blob" /\ at'[r].step = "copy"
        /\ at'[r].blob = at[r].blob /\ count'[r] = count[r]
    BY <1>1, <1>9 DEF BlobMissing
  <2>2. ASSUME NEW sum \in [0..Len(at[r].plan) -> Nat], PartialSums(r, sum),
               Flat(r), Counted(r, sum)
        PROVE  Counted(r, sum)'
    BY <2>1, <2>2 DEF Counted
  <2> QED
    BY <1>2, <2>1, <2>2, SamePlan
<1>10. CASE BlobsDone(r)
  <2>1. /\ at'[r].plan = at[r].plan /\ at'[r].tag = at[r].tag
        /\ at[r].step = "blob" /\ at'[r].step \in {"putsub", "puttag"}
        /\ count'[r] = count[r] /\ at[r].blob > Len(BlobsHere(r))
    BY <1>1, <1>10 DEF BlobsDone
  <2>2. ASSUME NEW sum \in [0..Len(at[r].plan) -> Nat], PartialSums(r, sum),
               Flat(r), Counted(r, sum)
        PROVE  Counted(r, sum)'
    <3>1. sum[at[r].tag - 1] \in Nat
      BY <1>3 DEF n
    <3>2. at[r].tag \in 1..n
      BY <1>2, <2>1 DEF InTag
    <3>3. /\ BlobsHere(r) \in Seq(Blobs)
          /\ BlobCount(Item(r).manifest) = Len(BlobsHere(r))
      BY <2>2, <3>2, FlatItem DEF n
    <3>4. at[r].blob = Len(BlobsHere(r)) + 1
      BY <2>1, <3>3, CountTypes DEF CountOK, BoundsOK
    <3>5. sum[at[r].tag] = sum[at[r].tag - 1] + Len(BlobsHere(r))
      BY <2>2, <3>2, <3>3 DEF PartialSums, Item, n
    <3>6. count[r].synced + count[r].failed = sum[at[r].tag - 1] + at[r].blob - 1
      BY <2>1, <2>2 DEF Counted
    <3>7. count[r].synced + count[r].failed = sum[at[r].tag]
      BY <3>1, <3>3, <3>4, <3>5, <3>6
    <3> QED
      BY <2>1, <3>7 DEF Counted
  <2> QED
    BY <1>2, <2>1, <2>2, SamePlan
<1>11. CASE PutTag(r) \/ PutTagFails(r) \/ SkipTag(r)
  <2>1. /\ at'[r].plan = at[r].plan /\ at'[r].tag = at[r].tag + 1
        /\ at[r].step = "puttag" /\ at'[r].step = "tag" /\ count'[r] = count[r]
    <3>1. CASE PutTag(r)
      BY <1>1, <3>1 DEF PutTag
    <3>2. CASE PutTagFails(r)
      BY <1>1, <3>2 DEF PutTagFails
    <3>3. CASE SkipTag(r)
      BY <1>1, <3>3 DEF SkipTag
    <3> QED
      BY <1>11, <3>1, <3>2, <3>3
  <2>2. ASSUME NEW sum \in [0..Len(at[r].plan) -> Nat], PartialSums(r, sum),
               Flat(r), Counted(r, sum)
        PROVE  Counted(r, sum)'
    <3>1. at'[r].tag - 1 = at[r].tag
      BY <2>1, CountTypes
    <3> QED
      BY <2>1, <2>2, <3>1 DEF Counted
  <2> QED
    BY <1>2, <2>1, <2>2, SamePlan
<1> QED
  BY <1>4, <1>5, <1>6, <1>7, <1>8, <1>9, <1>10, <1>11
     DEF RunStep, AnalyseStep, EntryStep, BlobStep, PutStep

\* A step of the run itself: how far its loops are, and what is skipped.
LEMMA OwnBounds ==
  ASSUME NEW r \in Runs, IInv, CountOK(r), TurnsOK(r), RunStep(r) \/ Die(r)
  PROVE  BoundsOK(r)' /\ count'[r].skipped <= count'[r].synced
<1>1. at \in [Runs -> Places] /\ count \in [Runs -> Counts]
  BY DEF IInv, TypeOK
<1>2. /\ BoundsOK(r) /\ count[r].skipped <= count[r].synced
      /\ at[r].step \in InTag => at[r].tag \in 1..Len(at[r].plan)
  BY DEF CountOK, IInv, RunOK, IndicesOK
<1>3. at[r].plan \in Seq(Items)
  BY PlaceTypes DEF IInv
<1>4. CASE Analyse(r)
  <2> DEFINE item == Source[r][at[r].next]
  <2>1. /\ at'[r].step = "analyse" /\ at[r].tag = 1
        /\ at'[r].plan = Append(at[r].plan, item) /\ at'[r].tag = at[r].tag
        /\ count'[r].synced = count[r].synced /\ count'[r].skipped = count[r].skipped
    BY <1>1, <1>4 DEF Analyse, Counts, TurnsOK
  <2>2. item \in Items
    BY <1>4, PlaceTypes, SourceAssumption DEF Analyse, IInv, RunOK, IndicesOK
  <2>3. Len(at'[r].plan) = Len(at[r].plan) + 1
    BY <1>3, <2>1, <2>2
  <2> QED
    BY <1>2, <2>1, <2>3, CountTypes DEF BoundsOK
<1>5. CASE AnalyseFails(r) \/ AnalysisDone(r) \/ Finish(r) \/ Die(r)
  <2>1. /\ at'[r].plan = at[r].plan /\ at'[r].tag = at[r].tag
        /\ count'[r] = count[r]
        /\ at'[r].step \notin {"blob", "puttag"}
    <3>1. CASE AnalyseFails(r)
      BY <1>1, <3>1 DEF AnalyseFails
    <3>2. CASE AnalysisDone(r)
      BY <1>1, <3>2 DEF AnalysisDone
    <3>3. CASE Finish(r)
      BY <1>1, <3>3 DEF Finish
    <3>4. CASE Die(r)
      BY <1>1, <3>4 DEF Die
    <3> QED
      BY <1>5, <3>1, <3>2, <3>3, <3>4
  <2> QED
    BY <1>2, <2>1 DEF BoundsOK
<1>6. CASE NextTag(r) \/ FetchEntry(r)
  <2>1. /\ at'[r].plan = at[r].plan /\ at'[r].tag = at[r].tag
        /\ count'[r] = count[r] /\ at'[r].blob = 1
        /\ at'[r].step # "puttag"
        /\ at[r].tag <= Len(at[r].plan)
        /\ at'[r].step = "blob" => ~IsList(r) \/ at'[r].entry \in 1..Len(Entries(r))
    <3>1. CASE NextTag(r)
      BY <1>1, <3>1 DEF NextTag
    <3>2. CASE FetchEntry(r)
      <4>1. at[r].entry <= Len(Entries(r)) /\ at[r].entry >= 1 /\ at[r].entry \in Nat
        BY <3>2, PlaceTypes DEF FetchEntry, IInv, RunOK, IndicesOK
      <4>2. at[r].tag \in 1..Len(at[r].plan) /\ IsList(r)
        BY <3>2, <1>2 DEF FetchEntry, InTag, IInv, RunOK, IndicesOK
      <4>3. Entries(r) \in Seq(Images)
        BY <4>2, ItemTypes DEF IInv
      <4> QED
        BY <1>1, <3>2, <4>1, <4>2, <4>3, CountTypes DEF FetchEntry
    <3> QED
      BY <1>6, <3>1, <3>2
  <2>2. at'[r].step = "blob" => Len(BlobsHere(r)') \in Nat
    <3>1. TypeOK' /\ at'[r].tag \in 1..Len(at'[r].plan)
      BY <1>6, <2>1, CountTypes, NextTagPreserves, FetchEntryPreserves
    <3>2. Item(r)' \in Items /\ Item(r)' = Item(r) /\ (IsList(r)' <=> IsList(r))
          /\ Entries(r)' = Entries(r)
      BY <2>1, <3>1, SameItem DEF TypeOK, Places, Item
    <3>3. at'[r].step = "blob" => Image(r)' \in Images
      BY <2>1, <3>2, ContentAssumption DEF Image, Items, IsList, Entries
    <3> QED
      BY <3>3, ContentAssumption DEF BlobsHere
  <2> QED
    BY <1>2, <2>1, <2>2 DEF BoundsOK
<1>7. CASE FetchEntryFails(r) \/ PutSub(r) \/ PutSubFails(r) \/ SkipSub(r)
  <2>1. /\ at'[r].plan = at[r].plan /\ at'[r].tag = at[r].tag
        /\ count'[r].synced = count[r].synced /\ count'[r].skipped = count[r].skipped
        /\ at'[r].step = "entry"
    <3>1. CASE FetchEntryFails(r)
      BY <1>1, <3>1 DEF FetchEntryFails, Counts
    <3>2. CASE PutSub(r)
      BY <1>1, <3>2 DEF PutSub
    <3>3. CASE PutSubFails(r)
      BY <1>1, <3>3 DEF PutSubFails
    <3>4. CASE SkipSub(r)
      BY <1>1, <3>4 DEF SkipSub
    <3> QED
      BY <1>7, <3>1, <3>2, <3>3, <3>4
  <2> QED
    BY <1>2, <2>1 DEF BoundsOK
<1>8. CASE EntriesDone(r)
  <2>1. /\ at'[r].plan = at[r].plan /\ at'[r].tag = at[r].tag
        /\ count'[r] = count[r] /\ at[r].step = "entry" /\ at'[r].step = "puttag"
    BY <1>1, <1>8 DEF EntriesDone
  <2>2. IsList(r)'
    BY <2>1, SameItem DEF IInv, RunOK, IndicesOK
  <2> QED
    BY <1>2, <2>1, <2>2 DEF BoundsOK
<1>9. CASE BlobPresent(r) \/ CopyBlob(r) \/ BlobFails(r)
  <2>1. /\ at'[r].plan = at[r].plan /\ at'[r].tag = at[r].tag
        /\ at'[r].entry = at[r].entry
        /\ at[r].step \in {"blob", "copy"} /\ at'[r].step = "blob"
        /\ at'[r].blob = at[r].blob + 1 /\ at[r].blob <= Len(BlobsHere(r))
        /\ \/ /\ count'[r].synced = count[r].synced + 1
              /\ count'[r].skipped = count[r].skipped + 1
           \/ /\ count'[r].synced = count[r].synced + 1
              /\ count'[r].skipped = count[r].skipped
           \/ /\ count'[r].synced = count[r].synced
              /\ count'[r].skipped = count[r].skipped
    <3>1. CASE BlobPresent(r)
      BY <1>1, <3>1 DEF BlobPresent, Counts
    <3>2. CASE CopyBlob(r)
      <4>1. at[r].blob <= Len(BlobsHere(r))
        BY <3>2, PlaceTypes DEF CopyBlob, IInv, RunOK, IndicesOK
      <4> QED
        BY <1>1, <3>2, <4>1 DEF CopyBlob, Counts
    <3>3. CASE BlobFails(r)
      <4>1. at[r].blob <= Len(BlobsHere(r))
        BY <3>3, PlaceTypes DEF BlobFails, IInv, RunOK, IndicesOK
      <4> QED
        BY <1>1, <3>3, <4>1 DEF BlobFails, Counts
    <3> QED
      BY <1>9, <3>1, <3>2, <3>3
  <2>2. BlobsHere(r)' = BlobsHere(r) /\ Len(BlobsHere(r)) \in Nat
    <3>1. at[r].step \in InTag /\ at[r].step \in InImage
      BY <2>1 DEF InTag, InImage
    <3>2. at[r].tag \in 1..Len(at[r].plan)
          /\ (IsList(r) => at[r].entry \in 1..Len(Entries(r)))
      BY <3>1 DEF IInv, RunOK, IndicesOK
    <3>3. BlobsHere(r) \in Seq(Blobs)
      BY <3>2, ItemTypes DEF IInv
    <3> QED
      BY <2>1, <3>3, SameItem
  <2>3. at'[r].blob <= Len(BlobsHere(r)') + 1
    BY <2>1, <2>2, CountTypes
  <2>4. count'[r].skipped <= count'[r].synced
    BY <1>2, <2>1, CountTypes
  <2> QED
    BY <1>2, <2>1, <2>3, <2>4 DEF BoundsOK
<1>10. CASE BlobMissing(r) \/ BlobsDone(r)
  <2>1. /\ at'[r].plan = at[r].plan /\ at'[r].tag = at[r].tag
        /\ at'[r].entry = at[r].entry /\ at'[r].blob = at[r].blob
        /\ at[r].step = "blob" /\ at'[r].step # "blob" /\ count'[r] = count[r]
    <3>1. CASE BlobMissing(r)
      BY <1>1, <3>1 DEF BlobMissing
    <3>2. CASE BlobsDone(r)
      BY <1>1, <3>2 DEF BlobsDone
    <3> QED
      BY <1>10, <3>1, <3>2
  <2>2. BlobsHere(r)' = BlobsHere(r)
    BY <2>1, SameItem
  <2> QED
    BY <1>2, <2>1, <2>2 DEF BoundsOK
<1>11. CASE PutTag(r) \/ PutTagFails(r) \/ SkipTag(r)
  <2>1. /\ at'[r].plan = at[r].plan /\ at'[r].tag = at[r].tag + 1
        /\ at[r].step = "puttag" /\ at'[r].step = "tag" /\ count'[r] = count[r]
    <3>1. CASE PutTag(r)
      BY <1>1, <3>1 DEF PutTag
    <3>2. CASE PutTagFails(r)
      BY <1>1, <3>2 DEF PutTagFails
    <3>3. CASE SkipTag(r)
      BY <1>1, <3>3 DEF SkipTag
    <3> QED
      BY <1>11, <3>1, <3>2, <3>3
  <2>2. at'[r].tag <= Len(at'[r].plan) + 1
    BY <1>2, <2>1, CountTypes DEF InTag
  <2> QED
    BY <1>2, <2>1, <2>2 DEF BoundsOK
<1> QED
  BY <1>4, <1>5, <1>6, <1>7, <1>8, <1>9, <1>10, <1>11
     DEF RunStep, AnalyseStep, EntryStep, BlobStep, PutStep

\* Every step keeps the counters in order.
LEMMA NextCount ==
  ASSUME IInv, [Next]_vars, \A s \in Runs : CountOK(s) /\ TurnsOK(s)
  PROVE  \A s \in Runs : CountOK(s)'
<1>1. ASSUME NEW r \in Runs, RunStep(r) \/ Cancel(r) \/ Die(r), NEW s \in Runs
      PROVE  CountOK(s)'
  <2>1. CASE Cancel(r)
    BY <2>1, OthersCount DEF Cancel
  <2>2. CASE s = r /\ ~Cancel(r)
    BY <1>1, <2>2, OwnSums, OwnBounds DEF CountOK
  <2>3. CASE s # r /\ ~Cancel(r)
    <3>1. at'[s] = at[s] /\ count'[s] = count[s]
      BY <1>1, <2>3 DEF IInv, TypeOK, RunStep, AnalyseStep, EntryStep, BlobStep,
         PutStep, Analyse, AnalyseFails, AnalysisDone, NextTag, Finish, FetchEntry,
         FetchEntryFails, EntriesDone, BlobPresent, BlobMissing, CopyBlob,
         BlobFails, BlobsDone, PutSub, PutSubFails, SkipSub, PutTag, PutTagFails,
         SkipTag, Die
    <3> QED
      BY <3>1, OthersCount
  <2> QED
    BY <2>1, <2>2, <2>3
<1>2. ASSUME UNCHANGED vars, NEW s \in Runs PROVE CountOK(s)'
  BY <1>2, OthersCount DEF vars
<1> QED
  BY <1>1, <1>2 DEF Next

\* Without manifest lists the counters of a finished run add up, whatever
\* fails and however the runs interleave.
THEOREM CountersCorrect == Spec => []CountersAddUp
<1> DEFINE Clean == \A s \in Runs : CleanOK(s) /\ TurnsOK(s)
           Counting == \A s \in Runs : CountOK(s)
<1>1. Init => Clean /\ Counting
  <2> SUFFICES ASSUME Init PROVE Clean /\ Counting
    OBVIOUS
  <2>1. Clean
    BY DEF Init, CleanOK, TurnsOK, InTag, InImage, PastBlobs
  <2>2. ASSUME NEW s \in Runs PROVE CountOK(s)
    <3>1. /\ at[s].step = "analyse" /\ at[s].plan = <<>> /\ at[s].tag = 1
          /\ count[s].total = 0 /\ count[s].synced = 0
          /\ count[s].skipped = 0 /\ count[s].failed = 0
      BY DEF Init
    <3>2. Len(at[s].plan) = 0
      BY <3>1
    <3>3. PICK sum \in [0..0 -> Nat] : sum[0] = 0
      <4>1. [i \in 0..0 |-> 0] \in [0..0 -> Nat] /\ [i \in 0..0 |-> 0][0] = 0
        OBVIOUS
      <4> QED
        BY <4>1
    <3>4. PartialSums(s, sum) /\ Counted(s, sum)
      BY <3>1, <3>2, <3>3 DEF PartialSums, Counted
    <3>5. SumsOK(s)
      BY <3>1, <3>2, <3>3, <3>4 DEF SumsOK
    <3> QED
      BY <3>1, <3>2, <3>5 DEF CountOK, BoundsOK
  <2> QED
    BY <2>1, <2>2
<1>2. IInv /\ Clean /\ Counting /\ [Next]_vars => Clean' /\ Counting'
  BY NextClean, NextCount
<1>3. IInv /\ Clean /\ Counting => CountersAddUp
  <2> SUFFICES ASSUME IInv, Clean, Counting, NEW r \in Runs,
                      at[r].step = "done", Flat(r)
               PROVE  count[r].synced + count[r].failed = count[r].total
    BY DEF CountersAddUp, CountOK
  <2>1. at[r].tag - 1 = Len(at[r].plan)
    BY CountTypes DEF TurnsOK, CountOK, BoundsOK
  <2> QED
    BY <2>1 DEF CountOK, SumsOK, Counted
<1> QED
  BY <1>1, <1>2, <1>3, Invariance, PTL DEF Spec
-----------------------------------------------------------------------------
(* That a run ends.  The prover knows no fairness, but that no loop of a   *)
(* run ever starts again, whatever fails in it, can be said without it.    *)

\* The phase of a run, the part of its loop over the tags, and the part of
\* its loop over the platforms.
Phase(step) == IF step = "analyse" THEN 0
               ELSE IF step \in {"done", "dead"} THEN 2 ELSE 1
Stage(step) == IF step = "puttag" THEN 2
               ELSE IF step \in {"entry", "blob", "copy", "putsub"} THEN 1 ELSE 0
Part(step) == IF step = "putsub" THEN 2
              ELSE IF step \in {"blob", "copy"} THEN 1 ELSE 0

\* How far a run is, the outer loops before the inner ones.
Position(p) ==
    << Phase(p.step), IF p.step = "analyse" THEN p.next ELSE p.tag,
       Stage(p.step), p.entry, Part(p.step), p.blob,
       IF p.step = "copy" THEN 1 ELSE 0 >>

\* The first of the indices in which two positions differ has grown.
Before(x, y) == \E i \in 1..7 : x[i] < y[i] /\ \A j \in 1..(i - 1) : x[j] = y[j]

Further(r) == Before(Position(at[r]), Position(at'[r]))

\* Every step of a run takes it further.
LEMMA OwnFurther == ASSUME IInv, NEW r \in Runs, RunStep(r) PROVE Further(r)
<1> DEFINE p == at[r]
           q == at'[r]
           x == Position(p)
           y == Position(q)
<1>1. /\ p \in Places /\ p.next \in Nat /\ p.tag \in Nat /\ p.entry \in Nat /\ p.blob \in Nat
      /\ at \in [Runs -> Places]
  BY DEF IInv, TypeOK, Places
<1>2. CASE Analyse(r) \/ AnalyseFails(r)
  <2>1. p.step = "analyse" /\ q.step = "analyse" /\ q.next = p.next + 1
    BY <1>1, <1>2 DEF Analyse, AnalyseFails, Places
  <2>2. x[2] < y[2] /\ x[1] = y[1]
    BY <1>1, <2>1 DEF Position, Phase
  <2> QED
    BY <2>2 DEF Further, Before
<1>3. CASE AnalysisDone(r) \/ Finish(r)
  <2>1. \/ p.step = "analyse" /\ q.step = "tag"
        \/ p.step = "tag" /\ q.step = "done"
    BY <1>1, <1>3 DEF AnalysisDone, Finish, Places
  <2>2. x[1] < y[1]
    BY <2>1 DEF Position, Phase
  <2> QED
    BY <2>2 DEF Further, Before
<1>4. CASE NextTag(r) \/ EntriesDone(r) \/ (BlobsDone(r) /\ ~IsList(r))
  <2>1. /\ \/ p.step = "tag" /\ q.step \in {"entry", "blob"}
           \/ p.step \in {"entry", "blob"} /\ q.step = "puttag"
        /\ q.tag = p.tag
    BY <1>1, <1>4 DEF NextTag, EntriesDone, BlobsDone, Places
  <2>2. x[3] < y[3] /\ x[1] = y[1] /\ x[2] = y[2]
    BY <1>1, <2>1 DEF Position, Phase, Stage
  <2> QED
    BY <2>2 DEF Further, Before
<1>5. CASE FetchEntry(r) \/ (BlobsDone(r) /\ IsList(r))
  <2>1. /\ \/ p.step = "entry" /\ q.step = "blob"
           \/ p.step = "blob" /\ q.step = "putsub"
        /\ q.tag = p.tag /\ q.entry = p.entry
    BY <1>1, <1>5 DEF FetchEntry, BlobsDone, Places
  <2>2. x[5] < y[5] /\ x[1] = y[1] /\ x[2] = y[2] /\ x[3] = y[3] /\ x[4] = y[4]
    BY <1>1, <2>1 DEF Position, Phase, Stage, Part
  <2> QED
    BY <2>2 DEF Further, Before
<1>6. CASE FetchEntryFails(r) \/ PutSub(r) \/ PutSubFails(r) \/ SkipSub(r)
  <2>1. /\ p.step \in {"entry", "putsub"} /\ q.step = "entry"
        /\ q.tag = p.tag /\ q.entry = p.entry + 1
    BY <1>1, <1>6 DEF FetchEntryFails, PutSub, PutSubFails, SkipSub, Places
  <2>2. x[4] < y[4] /\ x[1] = y[1] /\ x[2] = y[2] /\ x[3] = y[3]
    BY <1>1, <2>1 DEF Position, Phase, Stage
  <2> QED
    BY <2>2 DEF Further, Before
<1>7. CASE BlobPresent(r) \/ CopyBlob(r) \/ BlobFails(r)
  <2>1. /\ p.step \in {"blob", "copy"} /\ q.step = "blob"
        /\ q.tag = p.tag /\ q.entry = p.entry /\ q.blob = p.blob + 1
    BY <1>1, <1>7 DEF BlobPresent, CopyBlob, BlobFails, Places
  <2>2. /\ x[6] < y[6] /\ x[1] = y[1] /\ x[2] = y[2] /\ x[3] = y[3] /\ x[4] = y[4]
        /\ x[5] = y[5]
    BY <1>1, <2>1 DEF Position, Phase, Stage, Part
  <2> QED
    BY <2>2 DEF Further, Before
<1>8. CASE BlobMissing(r)
  <2>1. /\ p.step = "blob" /\ q.step = "copy"
        /\ q.tag = p.tag /\ q.entry = p.entry /\ q.blob = p.blob
    BY <1>1, <1>8 DEF BlobMissing, Places
  <2>2. /\ x[7] < y[7] /\ x[1] = y[1] /\ x[2] = y[2] /\ x[3] = y[3] /\ x[4] = y[4]
        /\ x[5] = y[5] /\ x[6] = y[6]
    BY <1>1, <2>1 DEF Position, Phase, Stage, Part
  <2> QED
    BY <2>2 DEF Further, Before
<1>9. CASE PutTag(r) \/ PutTagFails(r) \/ SkipTag(r)
  <2>1. p.step = "puttag" /\ q.step = "tag" /\ q.tag = p.tag + 1
    BY <1>1, <1>9 DEF PutTag, PutTagFails, SkipTag, Places
  <2>2. x[2] < y[2] /\ x[1] = y[1]
    BY <1>1, <2>1 DEF Position, Phase
  <2> QED
    BY <2>2 DEF Further, Before
<1> QED
  BY <1>2, <1>3, <1>4, <1>5, <1>6, <1>7, <1>8, <1>9
     DEF RunStep, AnalyseStep, EntryStep, BlobStep, PutStep

\* No step sets a run back, not even one of another run.
LEMMA NobodySetsBack ==
  ASSUME IInv, Next, NEW r \in Runs
  PROVE  at'[r] = at[r] \/ Further(r)
<1>1. PICK s \in Runs : RunStep(s) \/ Cancel(s) \/ Die(s)
  BY DEF Next
<1>2. at \in [Runs -> Places]
  BY DEF IInv, TypeOK
<1>3. CASE Cancel(s)
  BY <1>3 DEF Cancel
<1>4. CASE Die(s)
  <2>1. CASE s = r
    <3> DEFINE x == Position(at[r])
               y == Position(at'[r])
    <3>1. at[r].step \notin {"done", "dead"} /\ at'[r].step = "dead"
      BY <1>2, <1>4, <2>1 DEF Die, Places
    <3>2. x[1] < y[1]
      BY <3>1 DEF Position, Phase
    <3> QED
      BY <3>2 DEF Further, Before
  <2> QED
    BY <1>2, <1>4, <2>1 DEF Die
<1>5. CASE RunStep(s)
  <2>1. CASE s = r
    BY <1>5, <2>1, OwnFurther
  <2>2. CASE s # r
    BY <1>2, <1>5, <2>2 DEF RunStep, AnalyseStep, EntryStep, BlobStep, PutStep,
       Analyse, AnalyseFails, AnalysisDone, NextTag, Finish, FetchEntry,
       FetchEntryFails, EntriesDone, BlobPresent, BlobMissing, CopyBlob,
       BlobFails, BlobsDone, PutSub, PutSubFails, SkipSub, PutTag, PutTagFails,
       SkipTag
  <2> QED
    BY <2>1, <2>2
<1> QED
  BY <1>1, <1>3, <1>4, <1>5

\* Whatever fails in the three loops of a run, and whatever the others do:
\* each of its steps takes it further through its plan, and nothing sets it back.
THEOREM RunsMoveOn ==
  Spec => [][\A r \in Runs : /\ at'[r] = at[r] \/ Further(r)
                             /\ RunStep(r) => Further(r)]_vars
<1>1. ASSUME IInv, [Next]_vars
      PROVE  [\A r \in Runs : /\ at'[r] = at[r] \/ Further(r)
                              /\ RunStep(r) => Further(r)]_vars
  BY <1>1, OwnFurther, NobodySetsBack
<1> QED
  BY <1>1, Invariance, PTL DEF Spec
=============================================================================
