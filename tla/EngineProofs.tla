----------------------------- MODULE EngineProofs -----------------------------
(***************************************************************************)
(* Theorems about Engine, for every configuration file, every content of   *)
(* the source and any number of workers and blobs.                         *)
(*                                                                         *)
(* SyncAll checks nothing at its end: that all is mirrored when it returns *)
(* nil rests on every loop ending the run with the first error.  So an     *)
(* entry that has left `pending` is in the target, a tag that is passed    *)
(* was put, and the pool's nil, which a cancelled pool gives too easily,   *)
(* counts only together with the put after it.  What the rules go over is  *)
(* the filter's: the tags that the patterns want, cut at the newest.       *)
(***************************************************************************)
EXTENDS Engine, WorkerPoolProofs

\* Before the first image there is no pool.
Idle ==
    /\ caller = "returned" /\ result = "none" /\ closed = FALSE
    /\ next = 1 /\ total = 0 /\ done = 0 /\ failed = 0
    /\ queue = <<>> /\ errors = {} /\ cancelled \in BOOLEAN
    /\ worker = [w \in Workers |-> "gone"]
    /\ holding = [w \in Workers |-> None]
    /\ outcome = [t \in Tasks |-> "none"]

PoolOK == Idle \/ (IInv /\ CountersOK)

\* Where SyncAll is, and what its places refer to.
PlacesOK ==
    /\ stage \in {"rule", "tag", "image", "pool", "nil", "error"}
    /\ rule \in Nat \ {0} /\ tag \in Nat \ {0}
    /\ plans \in Seq(Seq(TagNames))
    /\ \A k \in DOMAIN plans :
          k \in DOMAIN Rules /\ plans[k] \in Seq(ToSet(Rules[k].listing))
    /\ Len(plans) \in {rule - 1, rule}
    /\ stage \in {"rule", "nil"} => Len(plans) = rule - 1
    /\ stage \in {"tag", "image", "pool"} => Len(plans) = rule
    /\ stage \in {"image", "pool"} => tag \in DOMAIN Plan
    /\ dryRun \in BOOLEAN
    /\ dryRun => stage \in {"rule", "nil", "error"}
    /\ caller # "returned" => stage = "pool"
    /\ manifests \subseteq Repos \X (Images \cup Lists)
    /\ tags \in [Repos \X TagNames -> Images \cup Lists \cup {None}]

Wanted(e) == Item \in Lists => Selected(Rule, e)
Put == tags[<<Rule.repo, Plan[tag]>>] = Item

\* An entry of the tag is in the target, or still to come.
TurnOK ==
    /\ stage \in {"image", "pool"} =>
          /\ pending \in Seq(ToSet(Entries(Item)))
          /\ \A e \in ToSet(Entries(Item)) : Wanted(e) =>
                <<Rule.repo, e.image>> \in manifests \/ e \in ToSet(pending)
          /\ Item \notin Lists => Len(pending) < 2 /\ (pending = <<>> => Put)
    /\ stage = "pool" => pending # <<>>
    /\ stage = "pool" /\ result = "nil" =>
          /\ <<Rule.repo, Head(pending).image>> \in manifests
          /\ Item \notin Lists => Put

EInv == PoolOK /\ PlacesOK /\ TurnOK /\ MirroredSoFar

-----------------------------------------------------------------------------
(* Sequences.                                                               *)

\* A function on 1..n is a sequence.
LEMMA IsSeq == ASSUME NEW S, NEW n \in Nat, NEW s \in [1..n -> S] PROVE s \in Seq(S)
  OBVIOUS

\* What is left of a sequence after its head.
LEMMA HeadTail ==
  ASSUME NEW S, NEW s \in Seq(S), s # <<>>
  PROVE  /\ Head(s) \in ToSet(s) /\ Head(s) \in S
         /\ Tail(s) \in Seq(S) /\ Len(Tail(s)) = Len(s) - 1
         /\ \A e \in ToSet(s) : e = Head(s) \/ e \in ToSet(Tail(s))
<1>1. 1 \in DOMAIN s /\ Head(s) = s[1] /\ Tail(s) \in Seq(S)
      /\ Len(Tail(s)) = Len(s) - 1
  OBVIOUS
<1>2. \A i \in DOMAIN s : i # 1 => i - 1 \in DOMAIN Tail(s) /\ Tail(s)[i - 1] = s[i]
  OBVIOUS
<1>3. ASSUME NEW e \in ToSet(s), e # Head(s) PROVE e \in ToSet(Tail(s))
  <2>1. PICK i \in DOMAIN s : e = s[i]
    BY DEF ToSet
  <2> QED
    BY <2>1, <1>1, <1>2, <1>3 DEF ToSet
<1> QED
  BY <1>1, <1>3 DEF ToSet

\* A larger set has the same sequences.
LEMMA SeqSubset == ASSUME NEW S, NEW T, S \subseteq T, NEW s \in Seq(S) PROVE s \in Seq(T)
  OBVIOUS

\* The filter returns tags of the listing.
LEMMA FilterGives ==
  ASSUME NEW listing, listing \in Seq(ToSet(listing)), NEW stamps, NEW include,
         NEW exclude, NEW latest \in Nat,
         NEW kept \in FilterTags(listing, stamps, include, exclude, latest)
  PROVE  kept \in Seq(ToSet(listing))
<1> DEFINE matched == {i \in DOMAIN listing : Match(listing[i], include, exclude)}
<1> DEFINE cut(s) == IF latest > 0 /\ Len(s) > latest
                     THEN SubSeq(s, 1, latest) ELSE s
<1>1. PICK s \in SetToSeqs(matched) :
         kept = [i \in DOMAIN cut(s) |-> listing[cut(s)[i]]]
  BY DEF FilterTags
<1>2. IsFiniteSet(matched)
  <2>1. IsFiniteSet(1..Len(listing)) /\ matched \subseteq 1..Len(listing)
    BY FS_Interval
  <2> QED
    BY <2>1, FS_Subset
<1>3. s \in [1..Cardinality(matched) -> matched] /\ Cardinality(matched) \in Nat
  BY <1>2, FS_CardinalityType DEF SetToSeqs
<1>4. matched \subseteq DOMAIN listing
  OBVIOUS
<1> HIDE DEF matched
<1>5. s \in Seq(matched)
  BY <1>3, IsSeq
<1>6. cut(s) \in Seq(matched)
  BY <1>5
<1> HIDE DEF cut
<1>7. /\ Len(cut(s)) \in Nat /\ DOMAIN cut(s) = 1..Len(cut(s))
      /\ \A i \in DOMAIN cut(s) : cut(s)[i] \in DOMAIN listing
  BY <1>4, <1>6
<1>8. \A i \in DOMAIN listing : listing[i] \in ToSet(listing)
  BY DEF ToSet
<1> QED
  BY <1>1, <1>7, <1>8, IsSeq

\* A rule of the configuration file, and the entries of what it syncs.
LEMMA RuleFacts ==
  ASSUME NEW k \in DOMAIN Rules
  PROVE  /\ Rules[k] \in ToSet(Rules) /\ Rules[k].latest \in Nat
         /\ Rules[k].listing \in Seq(ToSet(Rules[k].listing))
         /\ Rules[k].repo \in Repos /\ ToSet(Rules[k].listing) \subseteq TagNames
         /\ \A t \in ToSet(Rules[k].listing) : Rules[k].source[t] \in Images \cup Lists
<1>1. Rules[k] \in ToSet(Rules)
  BY DEF ToSet
<1>2. Rules[k].repo \in Repos /\ ToSet(Rules[k].listing) \subseteq TagNames
  BY DEF Repos, TagNames
<1> QED
  BY <1>1, <1>2, EngineAssumption

\* The entries of a manifest are images.
LEMMA EntriesFacts ==
  ASSUME NEW m \in Images \cup Lists
  PROVE  /\ Entries(m) \in Seq(ToSet(Entries(m)))
         /\ \A e \in ToSet(Entries(m)) : e.image \in Images
         /\ m \notin Lists => Len(Entries(m)) = 1
<1>1. CASE m \in Lists
  BY <1>1, EngineAssumption DEF Entries
<1>2. CASE m \notin Lists
  <2> DEFINE one == <<[image |-> m]>>
  <2>1. ToSet(one) = {[image |-> m]} /\ Len(one) = 1 /\ one \in Seq({[image |-> m]})
    BY DEF ToSet
  <2> QED
    BY <1>2, <2>1 DEF Entries
<1> QED
  BY <1>1, <1>2

-----------------------------------------------------------------------------
(* The pool.                                                                *)

\* A pool before its first task.
Fresh ==
    /\ caller = "submit" /\ result = "none" /\ closed = FALSE
    /\ next = 1 /\ total = 0 /\ done = 0 /\ failed = 0
    /\ queue = <<>> /\ errors = {} /\ cancelled \in BOOLEAN
    /\ worker = [w \in Workers |-> "select"]
    /\ holding = [w \in Workers |-> None]
    /\ outcome = [t \in Tasks |-> "none"]

\* A new pool has its invariant, whatever became of the last one.
LEMMA FreshPool == Fresh => IInv /\ CountersOK
<1> SUFFICES ASSUME Fresh PROVE IInv /\ CountersOK
  OBVIOUS
<1> USE DEF Fresh
<1>1. TypeOK
  <2>1. queue \in Seq(Tasks) /\ next \in 1..(NumTasks + 1)
    BY NumTasksAssumption
  <2> QED
    BY <2>1 DEF TypeOK
<1>2. PlaceOK /\ PublishedMeansCopied
  BY NumTasksAssumption, WorkersAssumption DEF PlaceOK, PublishedMeansCopied, AllGone
<1>3. QueueOK /\ HeldOK /\ ExecutedOK
  BY NumTasksAssumption DEF QueueOK, HeldOK, ExecutedOK, Taken, Tasks
<1>4. CountersOK
  <2>1. Executed = {} /\ Uncounted = {} /\ UncountedFailed = {}
    BY DEF Executed, Uncounted, UncountedFailed
  <2> QED
    BY <2>1, FS_EmptySet DEF CountersOK
<1> QED
  BY <1>1, <1>2, <1>3, <1>4 DEF IInv

\* Each image has a pool of its own.
LEMMA NewPool == ASSUME PoolOK, ImageStart PROVE (IInv /\ CountersOK)'
<1>1. cancelled \in BOOLEAN /\ UNCHANGED cancelled
  BY DEF ImageStart, PoolOK, Idle, IInv, TypeOK
<1>2. Fresh'
  BY <1>1 DEF ImageStart, Fresh
<1> QED
  BY <1>2, FreshPool, PTL

\* The pool is one, and the next one begins when the last one has returned.
LEMMA PoolKept == ASSUME PoolOK, [EngineNext]_allVars PROVE PoolOK'
<1>1. ASSUME UNCHANGED vars PROVE PoolOK'
  <2>1. CASE Idle
    BY <2>1, <1>1 DEF PoolOK, Idle, vars, callerVars, workerVars
  <2>2. CASE IInv /\ CountersOK
    BY <2>2, <1>1, StepKeeps, StepCounters DEF PoolOK
  <2> QED
    BY <2>1, <2>2 DEF PoolOK
<1>2. ASSUME IInv, CountersOK, Next PROVE PoolOK'
  BY <1>2, StepKeeps, StepCounters DEF PoolOK
<1>3. CASE EngineStep
  <2>1. CASE ImageStart
    BY <2>1, NewPool DEF PoolOK
  <2>2. CASE ~ImageStart
    <3>1. UNCHANGED vars
      BY <1>3, <2>2 DEF EngineStep, RuleFails, RuleSkipped, RuleStart, RuleDone,
          AllDone, TagStart, TagFails, TagDone, EntrySkipped, ImageFails,
          ImageReturns, ListPut, ListPutFails, Fail
    <3> QED
      BY <3>1, <1>1
  <2> QED
    BY <2>1, <2>2
<1>4. CASE CallerMoves
  <2>1. IInv /\ CountersOK
    BY <1>4 DEF CallerMoves, PoolOK, Idle
  <2>2. CallerStep
    BY <1>4 DEF CallerMoves, CallerStep
  <2> QED
    BY <2>1, <2>2, <1>2 DEF Next
<1>5. ASSUME NEW w \in Workers, WorkerMoves(w) PROVE PoolOK'
  <2>1. WorkerStep(w)
    BY <1>5 DEF WorkerMoves
  <2>2. worker[w] # "gone"
    BY <2>1 DEF WorkerStep, SeeCancelled, SeeClosed, Take, ExecuteOk,
                ExecuteFails, CountFailed, CountDone
  <2>3. IInv /\ CountersOK
    BY <2>2 DEF PoolOK, Idle
  <2> QED
    BY <2>1, <2>3, <1>2 DEF Next
<1>6. CASE Interrupt
  <2>1. Cancel
    BY <1>6 DEF Interrupt
  <2>2. CASE Idle
    BY <2>1, <2>2 DEF Cancel, PoolOK, Idle, callerVars, workerVars
  <2>3. CASE IInv /\ CountersOK
    BY <2>1, <2>3, <1>2 DEF Next
  <2> QED
    BY <2>2, <2>3 DEF PoolOK
<1>7. CASE UNCHANGED allVars
  BY <1>7, <1>1 DEF allVars
<1> QED
  BY <1>3, <1>4, <1>5, <1>6, <1>7 DEF EngineNext

\* The pool returns nil only after all workers have left, and no result
\* stands while the caller is in the pool.
LEMMA PoolResult ==
  ASSUME PoolOK
  PROVE  /\ result = "nil" => caller = "returned"
         /\ result \in {"none", "nil", "error"}
         /\ PublishedMeansCopied /\ CountersTell
<1>1. CASE Idle
  <2>1. {t \in Tasks : outcome[t] # "none"} = {}
    BY <1>1 DEF Idle
  <2> QED
    BY <1>1, <2>1, FS_EmptySet DEF Idle, PublishedMeansCopied, CountersTell
<1>2. CASE IInv /\ CountersOK
  BY <1>2, CountersThen DEF IInv, PlaceOK, TypeOK
<1> QED
  BY <1>1, <1>2 DEF PoolOK

-----------------------------------------------------------------------------
(* The places.                                                              *)

\* What the places of SyncAll refer to.
LEMMA Here ==
  ASSUME PlacesOK, stage \in {"tag", "image", "pool"}, tag \in DOMAIN Plan
  PROVE  /\ rule \in DOMAIN Rules /\ rule \in DOMAIN plans
         /\ Rule.repo \in Repos /\ Plan[tag] \in TagNames
         /\ Item \in Images \cup Lists
<1>1. rule \in DOMAIN plans
  BY DEF PlacesOK
<1>2. rule \in DOMAIN Rules /\ Plan \in Seq(ToSet(Rule.listing))
  BY <1>1 DEF PlacesOK, Plan, Rule
<1>3. Plan[tag] \in ToSet(Rule.listing)
  BY <1>2
<1> QED
  BY <1>1, <1>2, <1>3, RuleFacts DEF Rule, Item

\* What the put of an image changes at the target.
LEMMA Stored ==
  ASSUME PlacesOK, TurnOK, stage = "pool", ImageStored
  PROVE  /\ manifests \subseteq manifests'
         /\ manifests' \subseteq Repos \X (Images \cup Lists)
         /\ <<Rule.repo, Head(pending).image>> \in manifests'
         /\ \/ tags' = tags
            \/ tags' = [tags EXCEPT ![<<Rule.repo, Plan[tag]>>] = Item]
         /\ Item \notin Lists => tags'[<<Rule.repo, Plan[tag]>>] = Item
<1>1. /\ Rule.repo \in Repos /\ Plan[tag] \in TagNames
      /\ Item \in Images \cup Lists
  BY Here DEF PlacesOK
<1>2. Head(pending) \in ToSet(Entries(Item)) /\ Head(pending).image \in Images
  BY <1>1, HeadTail, EntriesFacts DEF TurnOK
<1>3. CASE Item \in Lists
  BY <1>1, <1>2, <1>3 DEF ImageStored, Store, PlacesOK
<1>4. CASE Item \notin Lists
  <2>1. Head(pending).image = Item
    BY <1>2, <1>4 DEF Entries, ToSet
  <2>2. tags' = [tags EXCEPT ![<<Rule.repo, Plan[tag]>>] = Item]
        /\ manifests' = manifests \cup {<<Rule.repo, Item>>}
    BY <1>4 DEF ImageStored, StoreTag, Store
  <2> QED
    BY <2>1, <2>2, <1>1 DEF PlacesOK
<1> QED
  BY <1>3, <1>4

\* A step of the pool: it leaves the places, and the target but for the put.
LEMMA PoolMoves ==
  ASSUME PoolOK, PlacesOK,
         CallerMoves \/ (\E w \in Workers : WorkerMoves(w)) \/ Interrupt
  PROVE  /\ UNCHANGED <<place, fixed>>
         /\ \/ UNCHANGED <<target, result, caller>>
            \/ UNCHANGED target /\ result' # "nil" /\ stage = "pool"
            \/ ImageStored /\ stage = "pool"
<1>1. CASE CallerMoves
  <2>1. stage = "pool" /\ result # "nil"
    BY <1>1, PoolResult DEF CallerMoves, PlacesOK
  <2> QED
    BY <1>1, <2>1 DEF CallerMoves, SubmitCount, SubmitSend, SubmitCancelled,
       WaitClose, WaitReturn, Publish, PublishFails
<1>2. ASSUME NEW w \in Workers, WorkerMoves(w)
      PROVE  UNCHANGED <<place, fixed, target, result, caller>>
  BY <1>2 DEF WorkerMoves, engineVars, WorkerStep, SeeCancelled, SeeClosed, Take,
     ExecuteOk, ExecuteFails, CountFailed, CountDone, callerVars
<1>3. CASE Interrupt
  BY <1>3 DEF Interrupt, Cancel, engineVars, callerVars
<1> QED
  BY <1>1, <1>2, <1>3

\* The plan of the next rule joins the plans.
LEMMA NextPlan ==
  ASSUME PlacesOK, Len(plans) = rule - 1, rule \in DOMAIN Rules,
         NEW kept \in Seq(ToSet(Rule.listing)), plans' = Append(plans, kept)
  PROVE  /\ plans' \in Seq(Seq(TagNames)) /\ Len(plans') = rule
         /\ \A k \in DOMAIN plans :
               k \in DOMAIN plans' /\ plans'[k] = plans[k] /\ k < rule
         /\ plans'[rule] = kept
         /\ \A k \in DOMAIN plans' :
               k \in DOMAIN Rules /\ plans'[k] \in Seq(ToSet(Rules[k].listing))
<1>1. plans \in Seq(Seq(TagNames)) /\ rule \in Nat
  BY DEF PlacesOK
<1>2. kept \in Seq(TagNames)
  BY RuleFacts, SeqSubset DEF Rule
<1>3. plans' \in Seq(Seq(TagNames)) /\ Len(plans') = rule /\ plans'[rule] = kept
  BY <1>1, <1>2
<1>4. \A k \in DOMAIN plans :
         k \in DOMAIN plans' /\ plans'[k] = plans[k] /\ k < rule
  BY <1>1, <1>2
<1>5. \A k \in DOMAIN plans' : k \in DOMAIN plans \/ k = rule
  BY <1>1, <1>3
<1> QED
  BY <1>3, <1>4, <1>5 DEF PlacesOK, Rule

\* The places keep what they refer to.
LEMMA PlacesKept ==
  ASSUME PoolOK, PlacesOK, TurnOK, [EngineNext]_allVars
  PROVE  PlacesOK'
<1> USE DEF PlacesOK, place, target, fixed
<1>1. CASE UNCHANGED allVars
  BY <1>1 DEF allVars, engineVars, vars, callerVars, Plan
<1>2. CASE CallerMoves \/ (\E w \in Workers : WorkerMoves(w)) \/ Interrupt
  <2>1. CASE stage = "pool" /\ ImageStored
    <3>1. UNCHANGED <<place, fixed>>
      BY <1>2, PoolMoves
    <3>2. Item \in Images \cup Lists
      BY <2>1, Here
    <3>3. /\ manifests' \subseteq Repos \X (Images \cup Lists)
          /\ tags' \in [Repos \X TagNames -> Images \cup Lists \cup {None}]
      BY <2>1, <3>2, Stored
    <3> QED
      BY <2>1, <3>1, <3>3 DEF Plan
  <2>2. CASE UNCHANGED target
    BY <1>2, <2>2, PoolMoves DEF Plan
  <2> QED
    BY <1>2, <2>1, <2>2, PoolMoves
<1>3. CASE EngineStep
  <2>1. ASSUME Fail, stage # "pool" PROVE PlacesOK'
    BY <2>1 DEF Fail, vars, callerVars
  <2>2. CASE RuleSkipped
    <3>1. <<>> \in Seq(ToSet(Rule.listing))
      OBVIOUS
    <3>2. rule \in DOMAIN Rules /\ Len(plans) = rule - 1 /\ plans' = Append(plans, <<>>)
      BY <2>2 DEF RuleSkipped, AtRule
    <3>3. /\ plans' \in Seq(Seq(TagNames)) /\ Len(plans') = rule
          /\ \A k \in DOMAIN plans' :
               k \in DOMAIN Rules /\ plans'[k] \in Seq(ToSet(Rules[k].listing))
      BY <3>1, <3>2, NextPlan
    <3> QED
      BY <2>2, <3>3 DEF RuleSkipped, AtRule, vars, callerVars
  <2>3. CASE RuleStart
    <3>1. rule \in DOMAIN Rules /\ Len(plans) = rule - 1
      BY <2>3 DEF RuleStart, AtRule
    <3>2. PICK kept \in Seq(ToSet(Rule.listing)) : plans' = Append(plans, kept)
      BY <2>3, <3>1, RuleFacts, FilterGives DEF RuleStart, Rule
    <3>3. /\ plans' \in Seq(Seq(TagNames)) /\ Len(plans') = rule
          /\ \A k \in DOMAIN plans' :
               k \in DOMAIN Rules /\ plans'[k] \in Seq(ToSet(Rules[k].listing))
      BY <3>1, <3>2, NextPlan
    <3> QED
      BY <2>3, <3>3 DEF RuleStart, AtRule, vars, callerVars
  <2>4. CASE RuleDone
    BY <2>4 DEF RuleDone, vars, callerVars
  <2>5. CASE AllDone
    BY <2>5 DEF AllDone, vars, callerVars
  <2>6. CASE TagStart
    BY <2>6 DEF TagStart, vars, callerVars, Plan
  <2>7. CASE TagDone
    BY <2>7 DEF TagDone, vars, callerVars
  <2>8. CASE EntrySkipped
    BY <2>8 DEF EntrySkipped, vars, callerVars, Plan
  <2>9. CASE ImageStart
    BY <2>9 DEF ImageStart, Plan
  <2>10. CASE ImageReturns
    BY <2>10 DEF ImageReturns, vars, callerVars, Plan
  <2>11. CASE ListPut \/ ListPutFails
    <3>1. /\ Rule.repo \in Repos /\ Plan[tag] \in TagNames
          /\ Item \in Images \cup Lists
      BY <2>11, Here DEF ListPut, ListPutFails
    <3>2. /\ manifests' \subseteq Repos \X (Images \cup Lists)
          /\ tags' \in [Repos \X TagNames -> Images \cup Lists \cup {None}]
      <4>1. CASE StoreTag(Rule.repo, Item)
        <5>1. manifests' = manifests \cup {<<Rule.repo, Item>>}
              /\ tags' = [tags EXCEPT ![<<Rule.repo, Plan[tag]>>] = Item]
          BY <4>1 DEF StoreTag, Store
        <5> QED
          BY <5>1, <3>1
      <4>2. CASE UNCHANGED target
        BY <4>2
      <4> QED
        BY <2>11, <4>1, <4>2 DEF ListPut, ListPutFails
    <3> HIDE DEF target
    <3>3. CASE ListPut
      BY <3>2, <3>3 DEF ListPut, vars, callerVars, Plan
    <3>4. CASE ListPutFails
      BY <3>2, <3>4 DEF ListPutFails, vars, callerVars, Plan
    <3> QED
      BY <2>11, <3>3, <3>4
  <2> QED
    <3>1. CASE RuleFails \/ TagFails \/ ImageFails
      <4>1. Fail /\ stage # "pool"
        BY <3>1 DEF RuleFails, AtRule, TagFails, ImageFails
      <4> QED
        BY <2>1, <4>1
    <3> QED
      BY <1>3, <3>1, <2>2, <2>3, <2>4, <2>5, <2>6, <2>7, <2>8, <2>9, <2>10, <2>11
         DEF EngineStep
<1> QED
  BY <1>1, <1>2, <1>3 DEF EngineNext

-----------------------------------------------------------------------------
(* The entries of a tag.                                                    *)

\* What the turn says of a tag whose entries are all done.
LEMMA TurnOver ==
  ASSUME PlacesOK, TurnOK, stage = "image", pending = <<>>
  PROVE  /\ \A i \in ImagesOf(Rule, Item) : <<Rule.repo, i>> \in manifests
         /\ Item \notin Lists => Put
<1>1. ToSet(pending) = {}
  BY DEF ToSet
<1> QED
  BY <1>1 DEF TurnOK, ImagesOf, Wanted

\* An entry leaves `pending` only when it is in the target, or not wanted.
LEMMA HeadLeaves ==
  ASSUME PlacesOK, TurnOK, stage \in {"image", "pool"}, pending # <<>>,
         pending' = Tail(pending), UNCHANGED <<rule, plans, tag, target>>,
         Wanted(Head(pending)) => <<Rule.repo, Head(pending).image>> \in manifests,
         Item \notin Lists => Put, stage' = "image"
  PROVE  TurnOK'
<1>1. /\ Tail(pending) \in Seq(ToSet(Entries(Item)))
      /\ Len(Tail(pending)) = Len(pending) - 1
      /\ \A e \in ToSet(pending) : e = Head(pending) \/ e \in ToSet(Tail(pending))
  BY HeadTail DEF TurnOK
<1>2. pending \in Seq(ToSet(Entries(Item)))
  BY DEF TurnOK
<1>3. Rule' = Rule /\ Plan' = Plan /\ Item' = Item /\ Put' = Put
  BY DEF Rule, Plan, Item, Put, target
<1>4. UNCHANGED manifests /\ \A e : Wanted(e)' <=> Wanted(e)
  BY <1>3 DEF target, Wanted
<1>5. \A e \in ToSet(Entries(Item)) : Wanted(e) =>
         <<Rule.repo, e.image>> \in manifests \/ e \in ToSet(Tail(pending))
  BY <1>1 DEF TurnOK
<1>6. Item \notin Lists => Len(Tail(pending)) < 2
  BY <1>1, <1>2 DEF TurnOK
<1> QED
  BY <1>1, <1>3, <1>4, <1>5, <1>6 DEF TurnOK

\* The turn of a tag goes on as it began.
LEMMA TurnKept ==
  ASSUME PoolOK, PlacesOK, TurnOK, [EngineNext]_allVars
  PROVE  TurnOK'
<1> USE DEF place, target, fixed
<1>1. ASSUME UNCHANGED <<rule, plans, tag, target, pending, result>>,
             stage' = stage \/ stage' \notin {"image", "pool"}
      PROVE  TurnOK'
  BY <1>1 DEF TurnOK, Wanted, Put, Rule, Plan, Item
<1>2. ASSUME stage' \notin {"image", "pool"} PROVE TurnOK'
  BY <1>2 DEF TurnOK
<1>3. CASE UNCHANGED allVars
  BY <1>3, <1>1 DEF allVars, engineVars, vars, callerVars
<1>4. CASE CallerMoves \/ (\E w \in Workers : WorkerMoves(w)) \/ Interrupt
  <2>1. UNCHANGED place
    BY <1>4, PoolMoves
  <2>2. Rule' = Rule /\ Plan' = Plan /\ Item' = Item
    BY <2>1 DEF Rule, Plan, Item
  <2>3. CASE ImageStored /\ stage = "pool"
    <3>1. /\ manifests \subseteq manifests'
          /\ <<Rule.repo, Head(pending).image>> \in manifests'
          /\ Item \notin Lists => tags'[<<Rule.repo, Plan[tag]>>] = Item
      BY <2>3, Stored
    <3> QED
      BY <2>1, <2>2, <2>3, <3>1 DEF TurnOK, Wanted, Put
  <2>4. CASE UNCHANGED <<target, result>>
    BY <2>1, <2>4, <1>1
  <2>5. CASE UNCHANGED target /\ result' # "nil" /\ stage = "pool"
    BY <2>1, <2>2, <2>5 DEF TurnOK, Wanted, Put
  <2> QED
    BY <1>4, <2>3, <2>4, <2>5, PoolMoves
<1>5. CASE EngineStep
  <2>1. CASE \/ RuleFails \/ RuleSkipped \/ RuleStart \/ RuleDone \/ AllDone
             \/ TagFails \/ TagDone \/ ImageFails \/ ListPut \/ ListPutFails
    <3>1. stage' \notin {"image", "pool"}
      BY <2>1 DEF RuleFails, RuleSkipped, RuleStart, RuleDone, AllDone, TagFails,
         TagDone, ImageFails, ListPut, ListPutFails, Fail, AtRule
    <3> QED
      BY <3>1, <1>2
  <2>2. CASE TagStart
    <3>1. tag \in DOMAIN Plan
      BY <2>2 DEF TagStart, PlacesOK, Plan
    <3>2. Item \in Images \cup Lists
      BY <2>2, <3>1, Here DEF TagStart
    <3>3. /\ Rule' = Rule /\ Plan' = Plan /\ Item' = Item
          /\ pending' = Entries(Item) /\ stage' = "image"
      BY <2>2 DEF TagStart, Rule, Plan, Item
    <3>4. /\ Entries(Item) \in Seq(ToSet(Entries(Item)))
          /\ Item \notin Lists => Len(Entries(Item)) = 1
      BY <3>2, EntriesFacts
    <3> QED
      BY <3>3, <3>4 DEF TurnOK
  <2>3. CASE EntrySkipped
    <3>1. ~Wanted(Head(pending)) /\ Item \in Lists
      BY <2>3 DEF EntrySkipped, Chosen, Wanted
    <3> QED
      BY <2>3, <3>1, HeadLeaves DEF EntrySkipped
  <2>4. CASE ImageStart
    <3>1. /\ Rule' = Rule /\ Plan' = Plan /\ Item' = Item
          /\ UNCHANGED <<manifests, tags, pending>> /\ stage' = "pool"
          /\ tag' = tag /\ result' = "none" /\ stage = "image" /\ pending # <<>>
      BY <2>4 DEF ImageStart, Rule, Plan, Item
    <3> QED
      BY <3>1 DEF TurnOK, Wanted, Put
  <2>5. CASE ImageReturns
    <3>1. CASE result = "nil"
      BY <2>5, <3>1, HeadLeaves DEF ImageReturns, TurnOK
    <3>2. CASE result # "nil"
      BY <2>5, <3>2, <1>2 DEF ImageReturns
    <3> QED
      BY <3>1, <3>2
  <2> QED
    BY <1>5, <2>1, <2>2, <2>3, <2>4, <2>5 DEF EngineStep
<1> QED
  BY <1>3, <1>4, <1>5 DEF EngineNext

-----------------------------------------------------------------------------
(* What is mirrored.                                                        *)

\* What MirroredSoFar says of one tag.
Mirrored(x) ==
    /\ \A i \in ImagesOf(RuleOf(x), ItemOf(x)) :
          <<RuleOf(x).repo, i>> \in manifests
    /\ \/ tags[Writes(x)] = ItemOf(x)
       \/ \E y \in Begun : y[1] > x[1] /\ Writes(y) = Writes(x)

\* Places are pairs of a rule and a tag of its plan.
LEMMA PlaceFacts ==
  ASSUME PlacesOK, NEW x \in Places
  PROVE  /\ x = <<x[1], x[2]>> /\ x[1] \in DOMAIN plans /\ x[2] \in DOMAIN plans[x[1]]
         /\ x[1] \in Nat /\ x[2] \in Nat /\ x[1] <= rule
         /\ Writes(x) \in Repos \X TagNames
<1>1. PICK r \in DOMAIN plans : x \in {r} \X DOMAIN plans[r]
  BY DEF Places
<1>2. x = <<x[1], x[2]>> /\ x[1] = r /\ x[2] \in DOMAIN plans[r]
  BY <1>1
<1>3. r \in DOMAIN Rules /\ plans[r] \in Seq(ToSet(Rules[r].listing))
      /\ r \in Nat /\ r <= rule
  BY DEF PlacesOK
<1>4. plans[r][x[2]] \in ToSet(Rules[r].listing) /\ x[2] \in Nat
  BY <1>2, <1>3
<1>5. Writes(x) \in Repos \X TagNames
  BY <1>2, <1>3, <1>4, RuleFacts DEF Writes, RuleOf
<1> QED
  BY <1>1, <1>2, <1>3, <1>4, <1>5

\* While no tag's turn ends and the target stays, what is mirrored stays so.
LEMMA NothingNew ==
  ASSUME PlacesOK, MirroredSoFar, UNCHANGED <<target, dryRun>>,
         \A k \in DOMAIN plans : k \in DOMAIN plans' /\ plans'[k] = plans[k],
         Settled' \subseteq Settled, Begun \subseteq Begun'
  PROVE  MirroredSoFar'
<1> USE DEF target
<1>1. CASE dryRun
  BY <1>1 DEF MirroredSoFar
<1>2. CASE ~dryRun
  <2>1. ASSUME NEW x \in Settled' PROVE Mirrored(x)'
    <3>1. x \in Settled /\ x \in Places
      BY <2>1 DEF Settled
    <3>2. Mirrored(x)
      BY <1>2, <3>1 DEF MirroredSoFar, Mirrored
    <3>3. \A z \in Places : z[1] \in DOMAIN plans
      BY PlaceFacts
    <3>4. \A z \in Places : Writes(z)' = Writes(z) /\ ItemOf(z)' = ItemOf(z)
                            /\ RuleOf(z)' = RuleOf(z)
      BY <3>3 DEF Writes, ItemOf, RuleOf
    <3>5. \A y \in Begun : y \in Places /\ y \in Begun'
      BY DEF Begun
    <3> QED
      BY <3>1, <3>2, <3>4, <3>5 DEF Mirrored
  <2> QED
    BY <1>2, <2>1 DEF MirroredSoFar, Mirrored
<1> QED
  BY <1>1, <1>2 DEF PlacesOK

\* A put writes what the current place writes.  An earlier rule with the same
\* tag of the same repository has lost it to the current one; an earlier place
\* of the same rule with the same tag has put the same item.
LEMMA PutKeeps ==
  ASSUME PlacesOK, MirroredSoFar, stage \in {"image", "pool"},
         UNCHANGED <<rule, plans, dryRun>>, manifests \subseteq manifests',
         \/ tags' = tags
         \/ tags' = [tags EXCEPT ![<<Rule.repo, Plan[tag]>>] = Item],
         \/ tag' = tag
         \/ /\ tag' = tag + 1
            /\ \A i \in ImagesOf(Rule, Item) : <<Rule.repo, i>> \in manifests'
            /\ tags'[<<Rule.repo, Plan[tag]>>] = Item
  PROVE  MirroredSoFar'
<1>0. PICK here : here = <<rule, tag>>
  OBVIOUS
<1>1. ~dryRun /\ tag \in DOMAIN Plan /\ rule \in DOMAIN plans /\ rule \in Nat /\ tag \in Nat
  BY DEF PlacesOK
<1>2. here \in Places /\ here \in Begun
  BY <1>0, <1>1 DEF Places, Begun, Plan
<1>3. /\ RuleOf(here) = Rule /\ ItemOf(here) = Item
      /\ Writes(here) = <<Rule.repo, Plan[tag]>>
  BY <1>0 DEF RuleOf, ItemOf, Writes, Rule, Item, Plan
<1>4. Places' = Places /\ \A z : /\ Writes(z)' = Writes(z) /\ ItemOf(z)' = ItemOf(z)
                                 /\ RuleOf(z)' = RuleOf(z)
  BY DEF Places, Writes, ItemOf, RuleOf
<1>5. Begun \subseteq Begun'
  <2>1. tag <= tag'
    BY <1>1
  <2> QED
    BY <2>1, <1>1, <1>4, PlaceFacts DEF Begun
<1>6. ASSUME NEW x \in Settled PROVE Mirrored(x)'
  <2>1. x \in Places /\ Mirrored(x)
    BY <1>1, <1>6 DEF Settled, MirroredSoFar, Mirrored
  <2>2. \A i \in ImagesOf(RuleOf(x), ItemOf(x)) : <<RuleOf(x).repo, i>> \in manifests'
    BY <2>1 DEF Mirrored
  <2>3. CASE \E y \in Begun : y[1] > x[1] /\ Writes(y) = Writes(x)
    BY <2>2, <2>3, <1>4, <1>5 DEF Mirrored
  <2>4. CASE tags[Writes(x)] = ItemOf(x) /\ tags'[Writes(x)] = tags[Writes(x)]
    BY <2>2, <2>4, <1>4 DEF Mirrored
  <2>5. CASE tags'[Writes(x)] # tags[Writes(x)]
    <3>1. Writes(x) = Writes(here) /\ tags'[Writes(x)] = Item
      <4>1. tags' = [tags EXCEPT ![Writes(here)] = Item]
        BY <2>5, <1>3
      <4>2. Writes(x) \in DOMAIN tags
        BY <2>1, PlaceFacts DEF PlacesOK
      <4> QED
        BY <2>5, <4>1, <4>2
    <3>2. CASE x[1] = rule
      <4>1. plans[x[1]][x[2]] = Plan[tag]
        BY <3>1, <1>3 DEF Writes
      <4>2. ItemOf(x) = Item
        BY <3>2, <4>1 DEF ItemOf, RuleOf, Item, Rule
      <4> QED
        BY <2>2, <3>1, <4>2, <1>4 DEF Mirrored
    <3>3. CASE x[1] # rule
      <4>1. here[1] > x[1]
        BY <2>1, <3>3, <1>0, <1>1, PlaceFacts
      <4>2. Writes(here)' = Writes(x)' /\ here \in Begun'
        BY <3>1, <1>2, <1>4, <1>5
      <4> QED
        BY <2>2, <4>1, <4>2, <1>4 DEF Mirrored
    <3> QED
      BY <3>2, <3>3
  <2> QED
    BY <2>1, <2>3, <2>4, <2>5 DEF Mirrored
<1>7. ASSUME NEW x \in Settled', x \notin Settled PROVE Mirrored(x)'
  <2>1. x \in Places /\ x[2] < tag' /\ ~(x[2] < tag) /\ ~(x[1] < rule)
    BY <1>4, <1>7 DEF Settled
  <2>2. tag' = tag + 1
    BY <2>1
  <2>3. x = here
    BY <2>1, <2>2, <1>0, <1>1, PlaceFacts
  <2>4. /\ \A i \in ImagesOf(Rule, Item) : <<Rule.repo, i>> \in manifests'
        /\ tags'[Writes(here)] = Item
    BY <2>2, <1>1, <1>3
  <2> QED
    BY <2>3, <2>4, <1>3, <1>4 DEF Mirrored
<1> QED
  BY <1>1, <1>6, <1>7 DEF MirroredSoFar, Mirrored

\* Every step leaves what is behind it mirrored.
LEMMA MirroredKept ==
  ASSUME EInv, [EngineNext]_allVars
  PROVE  MirroredSoFar'
<1> USE DEF EInv, target, fixed, place
<1>1. ASSUME UNCHANGED <<rule, plans, tag, target, dryRun>> PROVE MirroredSoFar'
  <2>1. Settled' = Settled /\ Begun' = Begun
    BY <1>1 DEF Settled, Begun, Places
  <2> QED
    BY <1>1, <2>1, NothingNew
<1>2. CASE UNCHANGED allVars
  BY <1>2, <1>1 DEF allVars, engineVars
<1>3. CASE CallerMoves \/ (\E w \in Workers : WorkerMoves(w)) \/ Interrupt
  <2>1. CASE UNCHANGED target
    BY <1>3, <2>1, <1>1, PoolMoves
  <2>2. CASE ImageStored /\ stage = "pool"
    <3>1. UNCHANGED <<rule, plans, dryRun, tag>>
      BY <1>3, PoolMoves
    <3>2. /\ manifests \subseteq manifests'
          /\ \/ tags' = tags
             \/ tags' = [tags EXCEPT ![<<Rule.repo, Plan[tag]>>] = Item]
      BY <2>2, Stored
    <3> QED
      BY <2>2, <3>1, <3>2, PutKeeps
  <2> QED
    BY <1>3, <2>1, <2>2, PoolMoves
<1>4. CASE EngineStep
  <2>1. CASE \/ RuleFails \/ AllDone \/ TagStart \/ TagFails
             \/ EntrySkipped \/ ImageStart \/ ImageFails \/ ImageReturns
    <3>1. UNCHANGED <<rule, plans, tag, target, dryRun>>
      BY <2>1 DEF RuleFails, AllDone, TagStart, TagFails, EntrySkipped,
         ImageStart, ImageFails, ImageReturns, Fail
    <3> QED
      BY <3>1, <1>1
  <2>2. CASE RuleSkipped \/ RuleStart
    <3>1. /\ Len(plans) = rule - 1 /\ rule \in DOMAIN Rules
          /\ UNCHANGED <<target, dryRun>> /\ rule \in Nat
          /\ rule' \in {rule, rule + 1}
      BY <2>2 DEF RuleSkipped, RuleStart, AtRule, PlacesOK
    <3>2. \E kept \in Seq(ToSet(Rule.listing)) :
             plans' = Append(plans, kept) /\ (rule' = rule => tag' = 1)
             /\ (rule' # rule => kept = <<>> \/ dryRun)
      <4>1. CASE RuleSkipped
        <5>1. <<>> \in Seq(ToSet(Rule.listing))
          OBVIOUS
        <5>2. plans' = Append(plans, <<>>) /\ rule' # rule
          BY <4>1, <3>1 DEF RuleSkipped
        <5> QED
          BY <5>1, <5>2
      <4>2. CASE RuleStart
        <5>1. /\ Rule.listing \in Seq(ToSet(Rule.listing)) /\ Rule.latest \in Nat
          BY <3>1, RuleFacts DEF Rule
        <5> QED
          BY <4>2, <5>1, FilterGives DEF RuleStart
      <4> QED
        BY <2>2, <4>1, <4>2
    <3>3. CASE dryRun
      BY <3>1, <3>3 DEF MirroredSoFar
    <3>4. CASE ~dryRun
      <4>1. PICK kept \in Seq(ToSet(Rule.listing)) :
               /\ plans' = Append(plans, kept) /\ (rule' = rule => tag' = 1)
               /\ (rule' # rule => kept = <<>>)
        BY <3>2, <3>4
      <4>2. /\ \A k \in DOMAIN plans :
                 k \in DOMAIN plans' /\ plans'[k] = plans[k] /\ k < rule
            /\ Len(plans') = rule /\ plans' \in Seq(Seq(TagNames))
            /\ plans'[rule] = kept
        BY <3>1, <4>1, NextPlan
      <4>3. \A x \in Places : x \in Places' /\ x[1] \in Nat /\ x[1] < rule
        <5> TAKE x \in Places
        <5>1. x = <<x[1], x[2]>> /\ x[1] \in DOMAIN plans
              /\ x[2] \in DOMAIN plans[x[1]] /\ x[1] \in Nat
          BY PlaceFacts
        <5>2. x[1] \in DOMAIN plans' /\ plans'[x[1]] = plans[x[1]] /\ x[1] < rule
          BY <5>1, <4>2
        <5> QED
          BY <5>1, <5>2 DEF Places
      <4>4. \A x \in Places' : x \in Places \/
               (x[1] = rule /\ x[2] \in DOMAIN kept /\ x[2] \in Nat)
        <5> TAKE x \in Places'
        <5>1. PICK r \in DOMAIN plans' : x \in {r} \X DOMAIN plans'[r]
          BY DEF Places
        <5>2. x = <<x[1], x[2]>> /\ x[1] = r /\ x[2] \in DOMAIN plans'[r]
          BY <5>1
        <5>3. CASE r = rule
          BY <5>2, <5>3, <4>2
        <5>4. CASE r # rule
          <6>1. r \in DOMAIN plans /\ plans'[r] = plans[r]
            BY <5>4, <4>2, <3>1 DEF PlacesOK
          <6> QED
            BY <5>2, <6>1 DEF Places
        <5> QED
          BY <5>3, <5>4
      <4>5. Settled' \subseteq Settled
        <5> SUFFICES ASSUME NEW x \in Settled' PROVE x \in Settled
          OBVIOUS
        <5>1. x \in Places' /\ (x[1] < rule' \/ x[2] < tag')
          BY DEF Settled
        <5>2. CASE x \in Places
          BY <5>2, <4>3 DEF Settled
        <5>3. CASE x[1] = rule /\ x[2] \in DOMAIN kept /\ x[2] \in Nat
          BY <5>1, <5>3, <3>1, <4>1 
        <5> QED
          BY <5>1, <5>2, <5>3, <4>4
      <4>6. Begun \subseteq Begun'
        BY <4>3, <3>1 DEF Begun
      <4> QED
        BY <3>1, <4>2, <4>5, <4>6, NothingNew
    <3> QED
      BY <3>3, <3>4 DEF PlacesOK
  <2>3. CASE RuleDone
    <3>1. /\ UNCHANGED <<target, plans, tag, dryRun>> /\ rule' = rule + 1
          /\ tag > Len(plans[rule]) /\ rule \in Nat /\ tag \in Nat
          /\ rule \in DOMAIN plans /\ plans[rule] \in Seq(TagNames)
      BY <2>3 DEF RuleDone, PlacesOK, Plan
    <3>2. \A x \in Places : x \in Settled
      <4> TAKE x \in Places
      <4>1. x[1] \in Nat /\ x[1] <= rule /\ x[2] \in Nat /\ x[2] \in DOMAIN plans[x[1]]
        BY PlaceFacts
      <4>2. CASE x[1] = rule
        BY <4>1, <4>2, <3>1 DEF Settled
      <4>3. CASE x[1] # rule
        BY <4>1, <4>3, <3>1 DEF Settled
      <4> QED
        BY <4>2, <4>3
    <3>3. Places' = Places
      BY <3>1 DEF Places
    <3>4. Settled' \subseteq Settled
      BY <3>2, <3>3 DEF Settled
    <3>5. Begun \subseteq Begun'
      BY <3>1, <3>3, PlaceFacts DEF Begun
    <3> QED
      BY <3>1, <3>4, <3>5, NothingNew
  <2>4. CASE TagDone
    BY <2>4, TurnOver, PutKeeps DEF TagDone, Put
  <2>5. ASSUME StoreTag(Rule.repo, Item), stage = "image", pending = <<>>,
               UNCHANGED <<rule, plans, dryRun>>, tag' \in {tag, tag + 1}
        PROVE  MirroredSoFar'
    <3>1. tags' = [tags EXCEPT ![<<Rule.repo, Plan[tag]>>] = Item]
          /\ manifests \subseteq manifests'
      BY <2>5 DEF StoreTag, Store
    <3>2. <<Rule.repo, Plan[tag]>> \in DOMAIN tags
      BY <2>5, Here DEF PlacesOK
    <3>3. tags'[<<Rule.repo, Plan[tag]>>] = Item
      BY <3>1, <3>2
    <3>4. \A i \in ImagesOf(Rule, Item) : <<Rule.repo, i>> \in manifests'
      BY <2>5, <3>1, TurnOver
    <3> QED
      BY <2>5, <3>1, <3>3, <3>4, PutKeeps
  <2>6. CASE ListPut
    BY <2>6, <2>5 DEF ListPut
  <2>7. CASE ListPutFails
    <3>1. CASE UNCHANGED target
      BY <2>7, <3>1, <1>1 DEF ListPutFails
    <3>2. CASE StoreTag(Rule.repo, Item)
      BY <2>7, <3>2, <2>5 DEF ListPutFails
    <3> QED
      BY <2>7, <3>1, <3>2 DEF ListPutFails
  <2> QED
    BY <1>4, <2>1, <2>2, <2>3, <2>4, <2>6, <2>7 DEF EngineStep
<1> QED
  BY <1>2, <1>3, <1>4 DEF EngineNext

-----------------------------------------------------------------------------
(* The target grows bottom up.                                              *)

\* A pool that has returned has a result, and a bad one ends the run.
ResultOK ==
    /\ stage \notin {"pool", "error"} => result # "error"
    /\ stage = "pool" /\ caller = "returned" => result # "none"

\* The result of a pool is the stage's.
LEMMA ResultKept ==
  ASSUME PoolOK, PlacesOK, ResultOK, [EngineNext]_allVars
  PROVE  ResultOK'
<1> USE DEF ResultOK, place
<1>1. CASE UNCHANGED allVars
  BY <1>1 DEF allVars, engineVars, vars, callerVars
<1>2. CASE CallerMoves
  BY <1>2 DEF CallerMoves, PlacesOK, SubmitCount, SubmitSend, SubmitCancelled,
     WaitClose, WaitReturn, Publish, PublishFails
<1>3. CASE (\E w \in Workers : WorkerMoves(w)) \/ Interrupt
  BY <1>3 DEF WorkerMoves, engineVars, WorkerStep, SeeCancelled, SeeClosed, Take,
     ExecuteOk, ExecuteFails, CountFailed, CountDone, callerVars, Interrupt, Cancel
<1>4. CASE ImageStart
  BY <1>4 DEF ImageStart
<1>5. CASE ImageReturns
  BY <1>5, PoolResult DEF ImageReturns, vars, callerVars
<1>6. CASE EngineStep /\ ~ImageStart /\ ~ImageReturns
  <2>1. UNCHANGED <<caller, result>> /\ stage' # "pool"
        /\ (stage \in {"pool", "error"} => stage' = "error")
    BY <1>6 DEF EngineStep, RuleFails, RuleSkipped, RuleStart, RuleDone, AllDone,
       TagStart, TagFails, TagDone, EntrySkipped, ImageFails, ListPut,
       ListPutFails, Fail, AtRule, vars, callerVars
  <2> QED
    BY <2>1
<1> QED
  BY <1>1, <1>2, <1>3, <1>4, <1>5, <1>6 DEF EngineNext

\* The blobs of the image the current pool copies.
Copying ==
    /\ stage = "pool" \/ (stage = "error" /\ result = "error")
    /\ pending # <<>>

\* A step of SyncAll that is no put changes nothing one knows of the target.
LEMMA StepKnows ==
  ASSUME PoolOK, PlacesOK, TurnOK, ResultOK, EngineStep, UNCHANGED target
  PROVE  UNCHANGED KnownBlobs
<1> USE DEF target
<1>1. ASSUME ~Copying, ~Copying' PROVE UNCHANGED KnownBlobs
  BY <1>1 DEF KnownBlobs, Copying
<1>2. CASE ImageStart
  BY <1>2 DEF ImageStart, KnownBlobs
<1>3. CASE ImageReturns
  <2>1. CASE result = "nil"
    <3>1. <<Rule.repo, Head(pending).image>> \in manifests
      BY <1>3, <2>1 DEF ImageReturns, TurnOK
    <3>2. stage' = "image"
      BY <1>3, <2>1 DEF ImageReturns
    <3> QED
      BY <3>1, <3>2 DEF KnownBlobs
  <2>2. CASE result # "nil"
    <3>1. stage = "pool" /\ stage' = "error" /\ result' = "error"
          /\ UNCHANGED <<outcome, rule, pending>>
      BY <1>3, <2>2, PoolResult DEF ImageReturns, ResultOK, vars, callerVars, workerVars
    <3> QED
      BY <3>1 DEF KnownBlobs, Rule
  <2> QED
    BY <2>1, <2>2
<1>4. CASE ~ImageStart /\ ~ImageReturns
  <2>1. stage \notin {"pool", "error"} /\ stage' # "pool" /\ UNCHANGED result
    BY <1>4 DEF EngineStep, RuleFails, RuleSkipped, RuleStart, RuleDone, AllDone,
       TagStart, TagFails, TagDone, EntrySkipped, ImageFails, ListPut,
       ListPutFails, Fail, AtRule, vars, callerVars
  <2> QED
    BY <2>1, <1>1 DEF Copying, ResultOK
<1> QED
  BY <1>2, <1>3, <1>4

\* A list is put after its images, or, where the target takes it, after those
\* the rule selects.
LEMMA ListCloses ==
  ASSUME PoolOK, PlacesOK, TurnOK, ResultOK,
         stage = "image", pending = <<>>, Item \in Lists, Accepts(Rule.repo, Item),
         StoreTag(Rule.repo, Item), stage' \notin {"pool"}, UNCHANGED result
  PROVE  Closed!Next \/ PartialList
<1>1. /\ rule \in DOMAIN Rules /\ Rule.repo \in Repos /\ Plan[tag] \in TagNames
  BY Here DEF PlacesOK
<1>2. /\ manifests' = manifests \cup {<<Rule.repo, Item>>}
      /\ tags' = [tags EXCEPT ![<<Rule.repo, Plan[tag]>>] = Item]
  BY DEF StoreTag, Store
<1>3. Item \notin Images
  BY EngineAssumption
<1>4. ~Copying /\ ~Copying'
  BY DEF Copying, ResultOK
<1>5. UNCHANGED KnownBlobs
  BY <1>2, <1>3, <1>4 DEF KnownBlobs, Copying
<1>6. CASE strict
  <2>1. Closed!Complete(Rule.repo, Item)
    BY <1>3, <1>6 DEF Closed!Complete, Accepts
  <2>2. Closed!PushTag(Rule.repo, Plan[tag], Item)
    BY <2>1, <1>2, <1>5 DEF Closed!PushTag
  <2> QED
    BY <2>2, <1>1 DEF Closed!Next
<1>7. CASE ~strict
  BY <1>1, <1>2, <1>5, <1>7, TurnOver DEF PartialList, Rule
<1> QED
  BY <1>6, <1>7

\* An image is put after its blobs.
LEMMA ImageCloses ==
  ASSUME PoolOK, PlacesOK, TurnOK, stage = "pool", caller = "publish", ~cancelled,
         ImageStored, UNCHANGED <<place, outcome>>
  PROVE  Closed!Next
<1> DEFINE image == Head(pending).image
<1>1. /\ Rule.repo \in Repos /\ Plan[tag] \in TagNames
      /\ Item \in Images \cup Lists /\ pending # <<>>
  BY Here DEF PlacesOK, TurnOK
<1>2. Head(pending) \in ToSet(Entries(Item)) /\ image \in Images
  BY <1>1, HeadTail, EntriesFacts DEF TurnOK
<1>3. IInv
  BY DEF PoolOK, Idle
<1>4. \A t \in Tasks : outcome[t] = "ok"
  BY <1>3, AllCopied
<1>5. manifests' = manifests \cup {<<Rule.repo, image>>}
  <2>1. CASE Item \in Lists
    BY <2>1 DEF ImageStored, Store
  <2>2. CASE Item \notin Lists
    <3>1. image = Item
      BY <1>2, <2>2 DEF Entries, ToSet
    <3> QED
      BY <2>2, <3>1 DEF ImageStored, StoreTag, Store
  <2> QED
    BY <2>1, <2>2
<1>6. UNCHANGED KnownBlobs
  <2>1. UNCHANGED <<stage, rule, pending, outcome>>
    BY DEF place
  <2> QED
    BY <1>1, <1>4, <1>5, <2>1 DEF KnownBlobs, Rule
<1>7. Closed!Complete(Rule.repo, image)
  <2>1. image \notin Lists
    BY <1>2, EngineAssumption
  <2>2. \A t \in Tasks : <<Rule.repo, <<image, t>>>> \in KnownBlobs
    BY <1>1, <1>2, <1>4 DEF KnownBlobs
  <2>3. DOMAIN BlobsOf[image] = Tasks /\ \A t \in Tasks : BlobsOf[image][t] = <<image, t>>
    BY <1>2 DEF BlobsOf
  <2> QED
    BY <2>1, <2>2, <2>3 DEF Closed!Complete
<1>8. CASE Item \in Lists
  <2>1. Closed!Push(Rule.repo, image)
    BY <1>5, <1>6, <1>7, <1>8 DEF Closed!Push, ImageStored
  <2> QED
    BY <2>1, <1>1, <1>2 DEF Closed!Next
<1>9. CASE Item \notin Lists
  <2>1. image = Item
    BY <1>2, <1>9 DEF Entries, ToSet
  <2>2. Closed!PushTag(Rule.repo, Plan[tag], image)
    BY <2>1, <1>5, <1>6, <1>7, <1>9 DEF Closed!PushTag, ImageStored, StoreTag
  <2> QED
    BY <2>2, <1>1, <1>2 DEF Closed!Next
<1> QED
  BY <1>8, <1>9

\* A worker copies a blob, or leaves the target as it is.
LEMMA WorkerCloses ==
  ASSUME PoolOK, NEW w \in Workers, WorkerMoves(w)
  PROVE  [Closed!Next]_<<KnownBlobs, manifests, tags>>
<1>1. /\ UNCHANGED <<stage, rule, pending, manifests, tags, result>>
      /\ WorkerStep(w)
  BY DEF WorkerMoves, engineVars, place, target, WorkerStep, SeeCancelled,
     SeeClosed, Take, ExecuteOk, ExecuteFails, CountFailed, CountDone, callerVars
<1>2. worker[w] # "gone"
  BY <1>1 DEF WorkerStep, SeeCancelled, SeeClosed, Take, ExecuteOk, ExecuteFails,
     CountFailed, CountDone
<1>3. IInv
  BY <1>2 DEF PoolOK, Idle
<1> DEFINE t0 == holding[w]
<1> DEFINE blob == <<Head(pending).image, t0>>
<1>4. CASE ExecuteOk(w)
  <2>1. /\ t0 \in Tasks /\ outcome[t0] = "none"
        /\ outcome' = [outcome EXCEPT ![t0] = "ok"] /\ DOMAIN outcome = Tasks
    BY <1>3, <1>4 DEF ExecuteOk, IInv, HeldOK, TypeOK
  <2>2. CASE Copying /\ Rule.repo \in Repos /\ Head(pending).image \in Images
    <3>1. KnownBlobs' = KnownBlobs \cup {<<Rule.repo, blob>>}
      <4>1. \A t \in Tasks : outcome'[t] = "ok" <=> outcome[t] = "ok" \/ t = t0
        BY <2>1
      <4>2. blob \in Images \X Tasks
        BY <2>1, <2>2
      <4> QED
        BY <1>1, <2>1, <2>2, <4>1, <4>2 DEF KnownBlobs, Copying, Rule
    <3>2. Closed!Upload(Rule.repo, blob)
      BY <3>1, <1>1 DEF Closed!Upload
    <3> QED
      BY <3>2, <2>1, <2>2 DEF Closed!Next
  <2>3. CASE ~(Copying /\ Rule.repo \in Repos /\ Head(pending).image \in Images)
    <3>1. UNCHANGED KnownBlobs
      BY <1>1, <2>3 DEF KnownBlobs, Copying, Rule
    <3> QED
      BY <3>1, <1>1
  <2> QED
    BY <2>2, <2>3
<1>5. CASE ~ExecuteOk(w)
  <2>1. \A t \in Tasks : outcome'[t] = "ok" <=> outcome[t] = "ok"
    <3>1. CASE ExecuteFails(w)
      <4>1. /\ t0 \in Tasks /\ outcome[t0] = "none"
            /\ outcome' = [outcome EXCEPT ![t0] = "failed"] /\ DOMAIN outcome = Tasks
        BY <1>3, <3>1 DEF ExecuteFails, IInv, HeldOK, TypeOK
      <4> QED
        BY <4>1
    <3>2. CASE ~ExecuteFails(w)
      BY <1>1, <1>5, <3>2 DEF WorkerStep, SeeCancelled, SeeClosed, Take,
         CountFailed, CountDone
    <3> QED
      BY <3>1, <3>2
  <2>2. UNCHANGED KnownBlobs
    BY <1>1, <2>1 DEF KnownBlobs, Rule
  <2> QED
    BY <2>2, <1>1
<1> QED
  BY <1>4, <1>5

\* Every step of the run is a step of ClosedRegistry, but for partial lists.
LEMMA StepCloses ==
  ASSUME EInv, ResultOK, [EngineNext]_allVars
  PROVE  [Closed!Next \/ PartialList]_<<KnownBlobs, manifests, tags>>
<1> USE DEF EInv, target, place
<1>1. CASE UNCHANGED allVars
  BY <1>1 DEF allVars, engineVars, vars, callerVars, workerVars, KnownBlobs, Rule
<1>2. CASE CallerMoves
  <2>1. UNCHANGED <<stage, rule, plans, tag, pending, outcome>> /\ stage = "pool"
    BY <1>2 DEF CallerMoves, PlacesOK, SubmitCount, SubmitSend, SubmitCancelled,
       WaitClose, WaitReturn, Publish, PublishFails, workerVars
  <2>2. CASE UNCHANGED target
    BY <2>1, <2>2 DEF KnownBlobs, Rule
  <2>3. CASE caller = "publish" /\ ~cancelled /\ ImageStored
    BY <2>1, <2>3, ImageCloses
  <2> QED
    BY <1>2, <2>2, <2>3 DEF CallerMoves, Publish, PublishFails
<1>3. ASSUME NEW w \in Workers, WorkerMoves(w)
      PROVE  [Closed!Next]_<<KnownBlobs, manifests, tags>>
  BY <1>3, WorkerCloses
<1>4. CASE Interrupt
  BY <1>4 DEF Interrupt, Cancel, engineVars, callerVars, workerVars, KnownBlobs, Rule
<1>5. CASE EngineStep
  <2>1. CASE UNCHANGED target
    BY <1>5, <2>1, StepKnows
  <2>2. CASE ListPut \/ ListPutFails
    <3>1. stage = "image" /\ pending = <<>> /\ Item \in Lists
          /\ stage' # "pool" /\ UNCHANGED result
      BY <2>2 DEF ListPut, ListPutFails, vars, callerVars
    <3>2. CASE Accepts(Rule.repo, Item) /\ StoreTag(Rule.repo, Item)
      BY <3>1, <3>2, ListCloses
    <3> QED
      BY <2>1, <2>2, <3>2 DEF ListPut, ListPutFails
  <2> QED
    BY <1>5, <2>1, <2>2 DEF EngineStep, RuleFails, RuleSkipped, RuleStart, RuleDone,
       AllDone, TagStart, TagFails, TagDone, EntrySkipped, ImageStart, ImageFails,
       ImageReturns, Fail
<1> QED
  BY <1>1, <1>2, <1>3, <1>4, <1>5 DEF EngineNext

-----------------------------------------------------------------------------
\* The first states have the invariant.
LEMMA EngineInitOK == EngineInit => EInv
<1> SUFFICES ASSUME EngineInit PROVE EInv
  OBVIOUS
<1> USE DEF EngineInit
<1>1. PoolOK
  BY DEF PoolOK, Idle
<1>2. PlacesOK
  BY DEF PlacesOK
<1>3. TurnOK
  BY DEF TurnOK
<1>4. MirroredSoFar
  BY DEF MirroredSoFar, Settled, Places
<1> QED
  BY <1>1, <1>2, <1>3, <1>4 DEF EInv

\* The inductive invariant of a run of the command line tool.
THEOREM EngineInvariance == EngineSpec => []EInv
<1>1. EngineInit => EInv
  BY EngineInitOK
<1>2. EInv /\ [EngineNext]_allVars => EInv'
  BY PoolKept, PlacesKept, TurnKept, MirroredKept DEF EInv
<1>3. EngineSpec => EngineInit /\ [][EngineNext]_allVars
  BY PTL DEF EngineSpec
<1> QED
  BY <1>1, <1>2, <1>3, PTL

\* Whatever fails or is interrupted: the run goes on, and ends with nil, only
\* over tags that are in the target with the images of their architectures.
THEOREM OnlyOverMirrored == EngineSpec => []MirroredSoFar
<1>1. EInv => MirroredSoFar
  BY DEF EInv
<1> QED
  BY <1>1, EngineInvariance, PTL

\* The pool of each image keeps its promises in the whole run.
THEOREM PoolsKeepPromises == EngineSpec => [](PublishedMeansCopied /\ CountersTell)
<1>1. EInv => PublishedMeansCopied /\ CountersTell
  BY PoolResult DEF EInv
<1> QED
  BY <1>1, EngineInvariance, PTL

\* Whatever a pool loses, and however lenient the target is: blobs come before
\* their image, and images before their list, at least the selected ones.
THEOREM EngineKeepsClosed == EngineSpec => KeepsClosed
<1>1. EngineInit => ResultOK
  BY DEF EngineInit, ResultOK
<1>2. EInv /\ ResultOK /\ [EngineNext]_allVars => ResultOK'
  BY ResultKept DEF EInv
<1>3. EInv /\ ResultOK /\ [EngineNext]_allVars
         => [Closed!Next \/ PartialList]_<<KnownBlobs, manifests, tags>>
  BY StepCloses
<1>4. EngineSpec => EngineInit /\ [][EngineNext]_allVars
  BY PTL DEF EngineSpec
<1> QED
  BY <1>1, <1>2, <1>3, <1>4, EngineInvariance, PTL DEF KeepsClosed

-----------------------------------------------------------------------------
(* What the filter keeps of a listing that names each tag once.             *)

\* The places of a listing that the patterns match, the tags they want, and
\* how many are kept.
Matched(listing, include, exclude) ==
    {i \in DOMAIN listing : Match(listing[i], include, exclude)}
Wants(listing, include, exclude) ==
    {t \in ToSet(listing) \ UNION exclude : include # {} => t \in UNION include}
Limit(latest, n) == IF latest > 0 /\ n > latest THEN latest ELSE n

\* A sequence without repetitions has as many elements as places.
LEMMA InjectiveCount ==
  ASSUME NEW S, NEW n \in Nat, NEW s \in [1..n -> S], IsInjective(s)
  PROVE  IsFiniteSet({s[i] : i \in 1..n}) /\ Cardinality({s[i] : i \in 1..n}) = n
<1> DEFINE T == {s[i] : i \in 1..n}
<1>1. s \in Bijection(1..n, T)
  BY DEF Bijection, Injection, Surjection
<1>2. ExistsBijection(1..n, T)
  BY <1>1 DEF ExistsBijection
<1>3. IsFiniteSet(1..n) /\ Cardinality(1..n) = n
  BY FS_Interval
<1> QED
  BY <1>2, <1>3, FS_Bijection

\* The filter orders the places that match, newest first, and cuts the order.
LEMMA FilterShape ==
  ASSUME NEW listing, listing \in Seq(ToSet(listing)), NEW stamps, NEW include,
         NEW exclude, NEW latest \in Nat,
         NEW kept \in FilterTags(listing, stamps, include, exclude, latest)
  PROVE  LET matched == Matched(listing, include, exclude)
             n == Cardinality(matched)
         IN  /\ IsFiniteSet(matched) /\ n \in Nat
             /\ \E s \in Bijection(1..n, matched) :
                   /\ \A i, j \in 1..n : i < j => stamps[s[i]] >= stamps[s[j]]
                   /\ kept = [i \in 1..Limit(latest, n) |-> listing[s[i]]]
<1> DEFINE matched == Matched(listing, include, exclude)
           n == Cardinality(matched)
           cut(s) == IF latest > 0 /\ Len(s) > latest
                     THEN SubSeq(s, 1, latest) ELSE s
<1>1. IsFiniteSet(matched) /\ n \in Nat
  <2>1. IsFiniteSet(1..Len(listing)) /\ matched \subseteq 1..Len(listing)
    BY FS_Interval DEF Matched
  <2> QED
    BY <2>1, FS_Subset, FS_CardinalityType
<1>2. PICK s \in SetToSeqs(matched) :
         /\ \A i, j \in DOMAIN s : i < j => stamps[s[i]] >= stamps[s[j]]
         /\ kept = [i \in DOMAIN cut(s) |-> listing[cut(s)[i]]]
  BY DEF FilterTags, Matched
<1> HIDE DEF matched
<1>3. s \in Injection(1..n, matched)
  BY <1>2 DEF SetToSeqs, Injection, IsInjective
<1>4. s \in Bijection(1..n, matched)
  <2>1. IsFiniteSet(1..n) /\ Cardinality(1..n) = n
    BY <1>1, FS_Interval
  <2>2. s \in Surjection(1..n, matched)
    BY <1>1, <1>3, <2>1, FS_Injection
  <2> QED
    BY <1>3, <2>2 DEF Bijection
<1> HIDE DEF n
<1>5. s \in Seq(matched) /\ Len(s) = n /\ DOMAIN s = 1..n
  BY <1>1, <1>3, IsSeq DEF Injection
<1>6. DOMAIN cut(s) = 1..Limit(latest, n) /\ \A i \in DOMAIN cut(s) : cut(s)[i] = s[i]
  BY <1>1, <1>5 DEF Limit
<1>7. kept = [i \in 1..Limit(latest, n) |-> listing[s[i]]]
  BY <1>2, <1>6
<1> QED
  BY <1>1, <1>2, <1>4, <1>5, <1>7 DEF matched, n

\* The filter keeps what the patterns want, each tag once, and its limit
\* counts what is left after the patterns.
LEMMA FilterKeeps ==
  ASSUME NEW listing, listing \in Seq(ToSet(listing)), IsInjective(listing),
         NEW stamps, NEW include, NEW exclude, NEW latest \in Nat,
         NEW kept \in FilterTags(listing, stamps, include, exclude, latest)
  PROVE  LET wanted == Wants(listing, include, exclude)
         IN  /\ ToSet(kept) \subseteq wanted
             /\ Cardinality(ToSet(kept)) = Len(kept)
             /\ Len(kept) = Limit(latest, Cardinality(wanted))
             /\ Cardinality(wanted) \in Nat
<1> DEFINE matched == Matched(listing, include, exclude)
           n == Cardinality(matched)
           wanted == Wants(listing, include, exclude)
           size == Limit(latest, n)
<1>1. IsFiniteSet(matched) /\ n \in Nat
  BY FilterShape
<1>2. PICK s \in Bijection(1..n, matched) :
         kept = [i \in 1..size |-> listing[s[i]]]
  BY FilterShape
<1>3. /\ matched \subseteq DOMAIN listing
      /\ \A i \in DOMAIN listing : i \in matched <=> listing[i] \in wanted
      /\ wanted \subseteq ToSet(listing)
  BY DEF Matched, Match, ToSet, Wants
<1> HIDE DEF matched, wanted
<1>4. Cardinality(wanted) = n
  <2> DEFINE f == [i \in matched |-> listing[i]]
  <2>1. f \in Injection(matched, wanted)
    BY <1>3 DEF Injection, IsInjective
  <2>2. f \in Surjection(matched, wanted)
    BY <1>3 DEF Surjection, ToSet
  <2>3. ExistsBijection(matched, wanted)
    BY <2>1, <2>2 DEF Bijection, ExistsBijection
  <2> QED
    BY <1>1, <2>3, FS_Bijection
<1>5. size \in Nat /\ \A i \in 1..size : i \in 1..n
  BY <1>1 DEF Limit
<1>6. \A i, j \in 1..n : s[i] \in matched /\ (s[i] = s[j] => i = j)
  BY <1>2 DEF Bijection, Injection, IsInjective
<1> HIDE DEF n, size
<1>7. kept \in [1..size -> wanted]
  BY <1>2, <1>3, <1>5, <1>6
<1>8. IsInjective(kept)
  BY <1>2, <1>3, <1>5, <1>6 DEF IsInjective
<1>9. kept \in Seq(wanted) /\ Len(kept) = size
  BY <1>5, <1>7, IsSeq
<1>10. ToSet(kept) = {kept[i] : i \in 1..size}
  BY <1>7 DEF ToSet
<1>11. Cardinality(ToSet(kept)) = size
  BY <1>5, <1>7, <1>8, <1>10, InjectiveCount
<1>12. ToSet(kept) \subseteq wanted
  BY <1>7, <1>10
<1>13. Cardinality(wanted) \in Nat /\ Len(kept) = Limit(latest, Cardinality(wanted))
  BY <1>1, <1>4, <1>9 DEF n, size
<1> QED
  BY <1>9, <1>11, <1>12, <1>13 DEF wanted

\* What the limit keeps is decided by the place in the listing and not by the
\* age of a tag, as the loop stamps the tags with the clock: where the clock
\* ticks from one tag to the next, every wanted tag that the limit leaves out
\* is listed before every tag that it keeps, whatever is older.
THEOREM FilterKeepsLastListed ==
  ASSUME NEW listing, listing \in Seq(ToSet(listing)), IsInjective(listing),
         NEW stamps \in Stamps(listing),
         \A i, j \in DOMAIN listing : i < j => stamps[i] < stamps[j],
         NEW include, NEW exclude, NEW latest \in Nat,
         NEW kept \in FilterTags(listing, stamps, include, exclude, latest),
         NEW i \in DOMAIN listing, NEW j \in DOMAIN listing,
         Match(listing[j], include, exclude), listing[j] \notin ToSet(kept),
         listing[i] \in ToSet(kept)
  PROVE  j < i
<1> DEFINE matched == Matched(listing, include, exclude)
           n == Cardinality(matched)
           size == Limit(latest, n)
<1>1. IsFiniteSet(matched) /\ n \in Nat
  BY FilterShape
<1>2. PICK s \in Bijection(1..n, matched) :
         /\ \A a, b \in 1..n : a < b => stamps[s[a]] >= stamps[s[b]]
         /\ kept = [a \in 1..size |-> listing[s[a]]]
  BY FilterShape
<1>3. size \in Nat /\ \A a \in 1..size : a \in 1..n
  BY <1>1 DEF Limit
<1>4. matched \subseteq DOMAIN listing /\ j \in matched
  BY DEF Matched
<1> HIDE DEF matched, n, size
<1>5. ToSet(kept) = {listing[s[a]] : a \in 1..size}
  BY <1>2 DEF ToSet
<1>6. PICK a \in 1..size : listing[i] = listing[s[a]]
  BY <1>5
<1>7. PICK b \in 1..n : j = s[b]
  BY <1>2, <1>4 DEF Bijection, Surjection
<1>8. b \notin 1..size
  BY <1>5, <1>7
<1>9. a \in 1..n /\ a < b
  BY <1>1, <1>3, <1>8
<1>10. s[a] \in DOMAIN listing
  BY <1>2, <1>4, <1>9 DEF Bijection, Injection
<1>11. i = s[a]
  BY <1>6, <1>10 DEF IsInjective
<1>12. i \in Nat /\ j \in Nat /\ i # j
  BY <1>5, <1>6, <1>11
<1>13. stamps[j] \in Nat /\ stamps[i] \in Nat /\ stamps[j] <= stamps[i]
  BY <1>2, <1>7, <1>9, <1>11 DEF Stamps
<1>14. ~(i < j)
  BY <1>13
<1> QED
  BY <1>12, <1>14

-----------------------------------------------------------------------------
(* The plans of the rules.                                                  *)

\* A registry lists each tag of a repository once.
ListedOnce == \A r \in ToSet(Rules) : IsInjective(r.listing)

\* What PlansFiltered says of the plan of rule k.
PlanFiltered(k) ==
    LET r == Rules[k]
        wanted == Wants(r.listing, r.include, r.exclude)
    IN  /\ ToSet(plans[k]) \subseteq wanted
        /\ Cardinality(ToSet(plans[k])) = Len(plans[k])
        /\ Len(plans[k]) = Limit(r.latest, Cardinality(wanted))
        /\ Cardinality(wanted) \in Nat

PlansOK == \A k \in DOMAIN plans : Rules[k].enabled => PlanFiltered(k)

\* A plan is made once, by the filter, and stays.
LEMMA PlansKept ==
  ASSUME ListedOnce, EInv, PlansOK, [EngineNext]_allVars
  PROVE  PlansOK'
<1> USE DEF EInv
<1>1. ASSUME UNCHANGED plans PROVE PlansOK'
  BY <1>1 DEF PlansOK, PlanFiltered
<1>2. CASE UNCHANGED allVars
  BY <1>1, <1>2 DEF allVars, engineVars, place
<1>3. CASE CallerMoves \/ (\E w \in Workers : WorkerMoves(w)) \/ Interrupt
  BY <1>1, <1>3, PoolMoves DEF place
<1>4. CASE EngineStep /\ ~RuleSkipped /\ ~RuleStart
  <2>1. UNCHANGED plans
    BY <1>4 DEF EngineStep, RuleFails, RuleDone, AllDone, TagStart, TagFails,
       TagDone, EntrySkipped, ImageStart, ImageFails, ImageReturns, ListPut,
       ListPutFails, Fail
  <2> QED
    BY <1>1, <2>1
<1>5. CASE RuleSkipped \/ RuleStart
  <2>1. rule \in DOMAIN Rules /\ Len(plans) = rule - 1
    BY <1>5 DEF RuleSkipped, RuleStart, AtRule, PlacesOK
  <2>2. PICK kept \in Seq(ToSet(Rule.listing)) :
           /\ plans' = Append(plans, kept)
           /\ Rule.enabled => \E stamps \in Stamps(Rule.listing) :
                 kept \in FilterTags(Rule.listing, stamps, Rule.include,
                                     Rule.exclude, Rule.latest)
    <3>1. CASE RuleSkipped
      <4>1. <<>> \in Seq(ToSet(Rule.listing))
        OBVIOUS
      <4> QED
        BY <3>1, <4>1 DEF RuleSkipped
    <3>2. CASE RuleStart
      <4>1. Rule.listing \in Seq(ToSet(Rule.listing)) /\ Rule.latest \in Nat
        BY <2>1, RuleFacts DEF Rule
      <4> QED
        BY <3>2, <4>1, FilterGives DEF RuleStart
    <3> QED
      BY <1>5, <3>1, <3>2
  <2>3. /\ \A k \in DOMAIN plans : plans'[k] = plans[k]
        /\ plans'[rule] = kept
        /\ \A k \in DOMAIN plans' : k \in DOMAIN plans \/ k = rule
    <3>1. /\ \A k \in DOMAIN plans : plans'[k] = plans[k]
          /\ plans'[rule] = kept
          /\ Len(plans') = rule /\ plans' \in Seq(Seq(TagNames))
      BY <2>1, <2>2, NextPlan
    <3> QED
      BY <3>1, <2>1 DEF PlacesOK
  <2>4. ASSUME NEW k \in DOMAIN plans, Rules[k].enabled PROVE PlanFiltered(k)'
    BY <2>3, <2>4 DEF PlansOK, PlanFiltered
  <2>5. ASSUME NEW k \in DOMAIN Rules, k = rule, Rules[k].enabled
        PROVE  PlanFiltered(k)'
    <3>1. /\ Rule.listing \in Seq(ToSet(Rule.listing)) /\ Rule.latest \in Nat
          /\ IsInjective(Rule.listing) /\ Rule = Rules[k]
      BY <2>5, RuleFacts DEF Rule, ListedOnce
    <3>2. PICK stamps \in Stamps(Rule.listing) :
                 kept \in FilterTags(Rule.listing, stamps, Rule.include,
                                     Rule.exclude, Rule.latest)
      BY <2>2, <2>5 DEF Rule
    <3>3. plans'[k] = kept
      BY <2>3, <2>5
    <3>4. LET wanted == Wants(Rule.listing, Rule.include, Rule.exclude)
          IN  /\ ToSet(kept) \subseteq wanted
              /\ Cardinality(ToSet(kept)) = Len(kept)
              /\ Len(kept) = Limit(Rule.latest, Cardinality(wanted))
              /\ Cardinality(wanted) \in Nat
      BY <3>1, <3>2, FilterKeeps
    <3> QED
      BY <3>1, <3>3, <3>4 DEF PlanFiltered
  <2> QED
    BY <2>1, <2>3, <2>4, <2>5 DEF PlansOK
<1> QED
  BY <1>2, <1>3, <1>4, <1>5 DEF EngineNext

\* The plan of every rule that is reached is what its patterns want, cut at
\* its limit, provided that a listing names a tag once.
THEOREM PlansAreFiltered ==
  ASSUME ListedOnce
  PROVE  EngineSpec => []PlansFiltered
<1>1. EngineInit => PlansOK
  BY DEF EngineInit, PlansOK
<1>2. EInv /\ PlansOK /\ [EngineNext]_allVars => PlansOK'
  BY PlansKept
<1>3. EInv /\ PlansOK => PlansFiltered
  <2> SUFFICES ASSUME EInv, PlansOK, NEW k \in DOMAIN plans, Rules[k].enabled
               PROVE  LET r == Rules[k]
                          excluded == UNION r.exclude
                          wanted == {t \in ToSet(r.listing) \ excluded :
                                        r.include # {} => t \in UNION r.include}
                      IN  /\ ToSet(plans[k]) \subseteq wanted
                          /\ Cardinality(ToSet(plans[k])) = Len(plans[k])
                          /\ Len(plans[k]) = IF r.latest \in 1..Cardinality(wanted)
                                             THEN r.latest ELSE Cardinality(wanted)
    BY DEF PlansFiltered
  <2>1. PlanFiltered(k) /\ Rules[k].latest \in Nat
    BY RuleFacts DEF PlansOK, EInv, PlacesOK
  <2>2. \A n, m \in Nat : Limit(n, m) = IF n \in 1..m THEN n ELSE m
    BY DEF Limit
  <2> QED
    BY <2>1, <2>2 DEF PlanFiltered, Wants
<1> QED
  BY <1>1, <1>2, <1>3, EngineInvariance, PTL DEF EngineSpec
=============================================================================
