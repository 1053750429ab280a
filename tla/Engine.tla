-------------------------------- MODULE Engine --------------------------------
(***************************************************************************)
(* One run of the command line tool: SyncAll of pkg/sync/engine.go over    *)
(* the enabled rules of a configuration file, each rule over the tags its  *)
(* filter keeps, a manifest list over the architectures of the rule, and   *)
(* each image through a pool of its own: the module WorkerPool, with       *)
(* SyncSingleManifest as its caller.  The first error ends the run.        *)
(*                                                                         *)
(* The target registry is external.  When it is `strict` it refuses a      *)
(* manifest list that names an image it does not hold, as the distribution *)
(* registry does; others take it.  A request that fails may have been      *)
(* carried out, unless its context was cancelled before it was sent.       *)
(***************************************************************************)
EXTENDS WorkerPool, TagFilter

CONSTANTS
    Rules,      \* the sync_rules of the configuration file, in its order
    Images,     \* manifests with blobs
    Lists,      \* manifest lists
    EntriesOf   \* list -> sequence of [image, arch]

Repos == {Rules[i].repo : i \in DOMAIN Rules}
TagNames == UNION {ToSet(Rules[i].listing) : i \in DOMAIN Rules}

ASSUME EngineAssumption ==
    /\ Images \cap Lists = {}
    /\ Rules \in Seq(ToSet(Rules))
    /\ \A r \in ToSet(Rules) :
         /\ r.enabled \in BOOLEAN /\ r.latest \in Nat
         /\ r.listing \in Seq(ToSet(r.listing))
         /\ \A t \in ToSet(r.listing) : r.source[t] \in Images \cup Lists
    /\ \A l \in Lists :
         /\ EntriesOf[l] \in Seq(ToSet(EntriesOf[l]))
         /\ \A e \in ToSet(EntriesOf[l]) : e.image \in Images

VARIABLES
    stage,      \* where SyncAll is
    rule,       \* its rule, a place of Rules
    plans,      \* filteredTags of each rule so far
    tag,        \* a place of the rule's plan
    pending,    \* what is left of the entries of the tag
    manifests,  \* the pairs <<repository, manifest>> the target holds
    tags,       \* <<repository, tag>> -> manifest there, or None
    strict,     \* what the target does with an incomplete list
    dryRun      \* the flag --dry-run

poolVars == <<callerVars, workerVars, queue>>
place == <<stage, rule, plans, tag, pending>>
target == <<manifests, tags>>
fixed == <<strict, dryRun>>
engineVars == <<place, target, fixed>>
allVars == <<vars, engineVars>>

Rule == Rules[rule]
Plan == plans[rule]
Item == Rule.source[Plan[tag]]

\* GetEnabledRules
SomeEnabled == \E r \in ToSet(Rules) : r.enabled

\* FilterManifestsByArch, which keeps everything when no architecture is named
Selected(r, entry) == r.archs = {} \/ entry.arch \in r.archs

\* What SyncTag goes over: the entries of a list, or the image itself.
Entries(m) == IF m \in Lists THEN EntriesOf[m] ELSE <<[image |-> m]>>

\* The clock may stand still between two places of a listing, or not.
Stamps(listing) ==
    {f \in [DOMAIN listing -> 1..Len(listing)] :
        \A i, j \in DOMAIN listing : i < j => f[i] <= f[j]}

EngineInit ==
    /\ caller = "returned" /\ result = "none" /\ closed = FALSE
    /\ next = 1 /\ total = 0 /\ done = 0 /\ failed = 0
    /\ queue = <<>> /\ errors = {} /\ cancelled = FALSE
    /\ worker = [w \in Workers |-> "gone"]
    /\ holding = [w \in Workers |-> None]
    /\ outcome = [t \in Tasks |-> "none"]
    /\ stage = "rule" /\ rule = 1 /\ plans = <<>> /\ tag = 1 /\ pending = <<>>
    /\ manifests = {} /\ tags = [x \in Repos \X TagNames |-> None]
    /\ strict \in BOOLEAN /\ dryRun \in BOOLEAN

-----------------------------------------------------------------------------
(* SyncAll and SyncRule.                                                    *)

\* Any error before the pool of an image, or after it, ends the run.
Fail ==
    /\ stage' = "error"
    /\ UNCHANGED <<vars, rule, plans, tag, pending, target, fixed>>

AtRule == stage = "rule" /\ rule \in DOMAIN Rules

\* There is no enabled rule; or GetRegistry, a ping, ListTags or NewFilter.
RuleFails ==
    /\ stage = "rule"
    /\ SomeEnabled => AtRule /\ Rule.enabled
    /\ Fail

RuleSkipped ==
    /\ AtRule /\ ~Rule.enabled /\ SomeEnabled
    /\ rule' = rule + 1
    /\ plans' = Append(plans, <<>>)
    /\ UNCHANGED <<vars, stage, tag, pending, target, fixed>>

\* SyncRule up to its filter.  A dry run ends the rule here.
RuleStart ==
    /\ AtRule /\ Rule.enabled
    /\ ~cancelled
    /\ \E stamps \in Stamps(Rule.listing) :
         \E kept \in FilterTags(Rule.listing, stamps, Rule.include,
                                       Rule.exclude, Rule.latest) :
           plans' = Append(plans, kept)
    /\ tag' = 1
    /\ IF dryRun THEN rule' = rule + 1 /\ UNCHANGED stage
                 ELSE stage' = "tag" /\ UNCHANGED rule
    /\ UNCHANGED <<vars, pending, target, fixed>>

RuleDone ==
    /\ stage = "tag" /\ tag > Len(Plan)
    /\ rule' = rule + 1
    /\ stage' = "rule"
    /\ UNCHANGED <<vars, plans, tag, pending, target, fixed>>

AllDone ==
    /\ stage = "rule" /\ SomeEnabled /\ rule > Len(Rules)
    /\ stage' = "nil"
    /\ UNCHANGED <<vars, rule, plans, tag, pending, target, fixed>>

-----------------------------------------------------------------------------
(* SyncTag and SyncManifestList.                                            *)

\* GetManifest of the tag
TagStart ==
    /\ stage = "tag" /\ tag <= Len(Plan)
    /\ ~cancelled
    /\ pending' = Entries(Item)
    /\ stage' = "image"
    /\ UNCHANGED <<vars, rule, plans, tag, target, fixed>>

TagFails == stage = "tag" /\ tag <= Len(Plan) /\ Fail

Chosen == Item \in Lists => Selected(Rule, Head(pending))

EntrySkipped ==
    /\ stage = "image" /\ pending # <<>> /\ ~Chosen
    /\ pending' = Tail(pending)
    /\ UNCHANGED <<vars, stage, rule, plans, tag, target, fixed>>

\* GetManifest of an entry, when the tag is a list; then the new pool.
ImageStart ==
    /\ stage = "image" /\ pending # <<>> /\ Chosen
    /\ Item \in Lists => ~cancelled
    /\ stage' = "pool"
    /\ caller' = "submit" /\ result' = "none" /\ closed' = FALSE
    /\ next' = 1 /\ total' = 0 /\ done' = 0 /\ failed' = 0
    /\ queue' = <<>> /\ errors' = {}
    /\ worker' = [w \in Workers |-> "select"]
    /\ holding' = [w \in Workers |-> None]
    /\ outcome' = [t \in Tasks |-> "none"]
    /\ UNCHANGED <<cancelled, rule, plans, tag, pending, target, fixed>>

ImageFails ==
    stage = "image" /\ pending # <<>> /\ Chosen /\ Item \in Lists /\ Fail

\* Mutant: the error of an image is reported, and the next image follows.
ImageReturnsAnyway ==
    /\ stage = "pool" /\ caller = "returned"
    /\ stage' = "image"
    /\ pending' = Tail(pending)
    /\ UNCHANGED <<vars, rule, plans, tag, target, fixed>>

\* SyncSingleManifest has returned.
ImageReturns ==
    /\ stage = "pool" /\ caller = "returned"
    /\ IF result = "nil" THEN stage' = "image" /\ pending' = Tail(pending)
                         ELSE stage' = "error" /\ UNCHANGED pending
    /\ UNCHANGED <<vars, rule, plans, tag, target, fixed>>

\* A manifest becomes available under its digest, or under the tag as well.
Store(repo, m) == manifests' = manifests \cup {<<repo, m>>}
StoreTag(repo, m) ==
    /\ Store(repo, m)
    /\ tags' = [tags EXCEPT ![<<repo, Plan[tag]>>] = m]

Accepts(repo, list) ==
    strict => \A i \in DOMAIN EntriesOf[list] :
                 <<repo, EntriesOf[list][i].image>> \in manifests

\* PutManifest of the list, whole, after the selected images.
ListPut ==
    /\ stage = "image" /\ pending = <<>> /\ Item \in Lists
    /\ ~cancelled /\ Accepts(Rule.repo, Item)
    /\ StoreTag(Rule.repo, Item)
    /\ tag' = tag + 1 /\ stage' = "tag"
    /\ UNCHANGED <<vars, rule, plans, pending, fixed>>

ListPutFails ==
    /\ stage = "image" /\ pending = <<>> /\ Item \in Lists
    /\ \/ UNCHANGED target
       \/ ~cancelled /\ Accepts(Rule.repo, Item) /\ StoreTag(Rule.repo, Item)
    /\ stage' = "error"
    /\ UNCHANGED <<vars, rule, plans, tag, pending, fixed>>

TagDone ==
    /\ stage = "image" /\ pending = <<>> /\ Item \notin Lists
    /\ tag' = tag + 1 /\ stage' = "tag"
    /\ UNCHANGED <<vars, rule, plans, pending, target, fixed>>

-----------------------------------------------------------------------------
(* SyncSingleManifest and its workers.                                      *)

\* Under the tag, or under the digest of a list's entry.
ImageStored ==
    IF Item \in Lists THEN Store(Rule.repo, Head(pending).image) /\ UNCHANGED tags
                      ELSE StoreTag(Rule.repo, Item)

CallerMoves ==
    /\ caller # "returned"
    /\ \/ /\ \/ SubmitCount \/ SubmitSend \/ SubmitCancelled
             \/ WaitClose \/ WaitReturn
          /\ UNCHANGED target
       \/ Publish /\ ImageStored
       \/ PublishFails /\ UNCHANGED target
       \/ PublishFails /\ ~cancelled /\ ImageStored
    /\ UNCHANGED <<place, fixed>>

WorkerMoves(w) == WorkerStep(w) /\ UNCHANGED engineVars

\* SIGINT
Interrupt == Cancel /\ UNCHANGED engineVars

EngineStep ==
    \/ RuleFails \/ RuleSkipped \/ RuleStart \/ RuleDone \/ AllDone
    \/ TagStart \/ TagFails \/ TagDone
    \/ EntrySkipped \/ ImageStart \/ ImageFails \/ ImageReturns
    \/ ListPut \/ ListPutFails

EngineNext == \/ EngineStep \/ CallerMoves
              \/ (\E w \in Workers : WorkerMoves(w))
              \/ Interrupt

\* Every goroutine is run and a request ends, by its timeout and the number
\* of attempts of RetryWithBackoff.
EngineSpec ==
    /\ EngineInit /\ [][EngineNext]_allVars
    /\ WF_allVars(EngineStep) /\ WF_allVars(CallerMoves)
    /\ \A w \in Workers : WF_allVars(WorkerMoves(w))

-----------------------------------------------------------------------------
(* Properties.                                                              *)

Places == UNION {{r} \X DOMAIN plans[r] : r \in DOMAIN plans}

\* The tags whose turn is over: those of earlier rules, and those before
\* the current one; and those whose turn has come.
Settled == {x \in Places : x[1] < rule \/ x[2] < tag}
Begun == {x \in Places : x[1] < rule \/ x[2] <= tag}

\* The rule of a place, what it writes, and the images that go with it.
RuleOf(x) == Rules[x[1]]
Writes(x) == <<RuleOf(x).repo, plans[x[1]][x[2]]>>
ItemOf(x) == RuleOf(x).source[plans[x[1]][x[2]]]
ImagesOf(r, m) ==
    {e.image : e \in {e \in ToSet(Entries(m)) : m \in Lists => Selected(r, e)}}

\* The run goes on, and in the end returns nil, only over what it has
\* mirrored: a tag whose turn is over is in the target with the images of
\* its selected architectures, whatever failed or was interrupted in the
\* pools.  Of rules that write one tag of one repository the last one wins.
\* A dry run goes over the same rules and writes nothing.
MirroredSoFar == IF dryRun THEN manifests = {} ELSE \A x \in Settled :
    /\ \A i \in ImagesOf(RuleOf(x), ItemOf(x)) :
          <<RuleOf(x).repo, i>> \in manifests
    /\ \/ tags[Writes(x)] = ItemOf(x)
       \/ \E y \in Begun : y[1] > x[1] /\ Writes(y) = Writes(x)

\* The filter leaves what a rule's patterns want, each tag once, and its
\* limit counts what is left after the patterns, not the listing.
PlansFiltered == \A k \in {k \in DOMAIN plans : Rules[k].enabled} :
    LET r == Rules[k]
        excluded == UNION r.exclude
        wanted == {t \in ToSet(r.listing) \ excluded :
                      r.include # {} => t \in UNION r.include}
    IN  /\ ToSet(plans[k]) \subseteq wanted
        /\ Cardinality(ToSet(plans[k])) = Len(plans[k])
        /\ Len(plans[k]) = IF r.latest \in 1..Cardinality(wanted)
                           THEN r.latest ELSE Cardinality(wanted)

BlobsOf == [i \in Images |-> [t \in Tasks |-> <<i, t>>]]

\* The blobs the target is known to hold: those of its images, and those
\* that the current pool has copied.
KnownBlobs ==
    {x \in Repos \X (Images \X Tasks) :
        \/ <<x[1], x[2][1]>> \in manifests
        \/ /\ stage = "pool" \/ (stage = "error" /\ result = "error")
           /\ pending # <<>>
           /\ x[1] = Rule.repo /\ x[2][1] = Head(pending).image
           /\ outcome[x[2][2]] = "ok"}

Closed == INSTANCE ClosedRegistry WITH
    Tags <- TagNames, Blobs <- Images \X Tasks, BlobsOf <- BlobsOf,
    EntriesOf <- [l \in Lists |-> [i \in DOMAIN EntriesOf[l] |->
                                     EntriesOf[l][i].image]],
    blobs <- KnownBlobs

\* A lenient target takes a list of which only what a rule selects is there.
PartialList == \E i \in DOMAIN Rules, l \in Lists :
    /\ ~strict
    /\ \A m \in ImagesOf(Rules[i], l) : <<Rules[i].repo, m>> \in manifests
    /\ manifests' = manifests \cup {<<Rules[i].repo, l>>}
    /\ UNCHANGED KnownBlobs

\* The target grows bottom up, as ClosedRegistry says, but for the lists a
\* lenient target takes: a pool that was interrupted or lost an answer
\* publishes no image without its blobs, and a rule with architectures no
\* list without the images it selects.
KeepsClosed == [][Closed!Next \/ PartialList]_<<KnownBlobs, manifests, tags>>

\* SyncAll returns.
EngineReturns == <>(stage \in {"nil", "error"})
=============================================================================
