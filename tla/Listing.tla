------------------------------- MODULE Listing -------------------------------
(***************************************************************************)
(* ListRepositories and ListProjects of pkg/registry/client.go, as a run   *)
(* uses them: it lists the repositories of a source project, or makes sure *)
(* that its target project is there (runTask of                            *)
(* internal/scheduler/scheduler.go, with ProjectExists and CreateProject). *)
(* The pages of the Harbor API are read one by one while others change the *)
(* content.  When one fails, what was read is dropped and the catalog is   *)
(* asked through doRequest: the module Request, whose caller `Lister` this *)
(* is.  A run lists before its goroutines share the client; those of a run *)
(* that has nothing to list, its job is "transfer", send requests at once.  *)
(*                                                                         *)
(* The registry is external: `content` is what a listing that saw          *)
(* everything at once would return, in the registry's order.  Only Harbor, *)
(* of kind "both", has projects.  The catalog has an answer of bounded     *)
(* size, which the code takes for the whole.                               *)
(***************************************************************************)
EXTENDS Request, SequencesExt

CONSTANTS
    Lister,         \* the caller whose listing this is
    TransferOps,    \* requests of the goroutines
    Names,          \* repositories of the source project, or projects
    Wanted,         \* the target project
    Contents,       \* what the registry may hold when the job begins
    PageSize,
    MaxChanges      \* bound: changes of the content by others

ASSUME ListingAssumption ==
    /\ Lister \in Callers /\ TransferOps \subseteq Ops
    /\ Wanted \in Names
    /\ \A s \in Contents : s \in Seq(Names) /\ IsInjective(s)
    /\ PageSize \in Nat \ {0} /\ MaxChanges \in Nat

VARIABLES
    content,    \* a sequence without duplicates
    job,        \* "repositories", "project" or "transfer"
    stage,      \* "pages", "catalog", "create" or "done"
    page,       \* the page to be read
    listed,     \* what has been listed
    verdict,    \* how the job ended
    stayed,     \* names that have been in content all the time
    seen,       \* names that have been in content at some time
    direct,     \* requests to the Harbor API, which pass by the limiter
    lost,       \* names the catalog's answer had no room for
    insertions, deletions

listVars == <<job, stage, page, listed, verdict, direct, lost>>
contentVars == <<content, stayed, seen, insertions, deletions>>
allVars == <<vars, listVars, contentVars>>

Harbor == registry.kind = "both"

ListingInit ==
    /\ Init
    /\ \/ /\ job \in {"repositories", "project"} /\ stage = "pages"
          /\ content \in Contents
       \/ job = "transfer" /\ stage = "done" /\ content = <<>>
    /\ page = 1 /\ listed = <<>>
    /\ verdict = "none" /\ direct = 0 /\ lost = 0
    /\ stayed = ToSet(content) /\ seen = ToSet(content)
    /\ insertions = 0 /\ deletions = 0

-----------------------------------------------------------------------------
(* The listing.                                                             *)

\* What follows when the names are known.
Known(names) ==
    /\ listed' = names
    /\ \/ /\ job = "repositories"
          /\ stage' = "done" /\ verdict' = "listed"
       \/ /\ job = "project"
          /\ IF Wanted \in ToSet(names)
             THEN stage' = "done" /\ verdict' = "exists"
             ELSE stage' = "create" /\ UNCHANGED verdict

Page(p) == SubSeq(content, (p - 1) * PageSize + 1,
                  IF p * PageSize < Len(content) THEN p * PageSize
                  ELSE Len(content))

\* Mutant: the page is not turned.
ReadPageAgain ==
    /\ stage = "pages" /\ Harbor /\ ~cancelled
    /\ direct' = direct + 1
    /\ IF Len(Page(page)) < PageSize
       THEN Known(listed \o Page(page))
       ELSE listed' = listed \o Page(page) /\ UNCHANGED <<stage, verdict>>
    /\ UNCHANGED <<vars, contentVars, job, page, lost>>

ReadPage ==
    /\ stage = "pages" /\ Harbor /\ ~cancelled
    /\ direct' = direct + 1
    /\ IF Len(Page(page)) < PageSize
       THEN Known(listed \o Page(page)) /\ UNCHANGED page
       ELSE /\ listed' = listed \o Page(page)
            /\ page' = page + 1
            /\ UNCHANGED <<stage, verdict>>
    /\ UNCHANGED <<vars, contentVars, job, lost>>

\* Mutant: the pages read before the failure are kept.
PagesFailKept ==
    /\ stage = "pages"
    /\ Begin(Lister, "catalog")
    /\ stage' = "catalog" /\ direct' = direct + 1
    /\ UNCHANGED <<contentVars, job, page, listed, verdict, lost>>

\* Any page that is not a 200, as every page of another registry is not.
PagesFail ==
    /\ stage = "pages"
    /\ Begin(Lister, "catalog")
    /\ stage' = "catalog" /\ listed' = <<>> /\ direct' = direct + 1
    /\ UNCHANGED <<contentVars, job, page, verdict, lost>>

\* The end of the catalog's request.  The answer has room for some names.
\* Without one there is nothing to list; a project that cannot be looked for
\* is taken to be there.
CatalogAnswer ==
    \/ /\ req'[Lister].result = "ok"
       /\ \E room \in 0..Len(content) :
            /\ Known(listed \o SubSeq(content, 1, room))
            /\ lost' = Len(content) - room
    \/ /\ req'[Lister].result # "ok"
       /\ stage' = "done"
       /\ verdict' = IF job = "project" THEN "unknown" ELSE "error"
       /\ UNCHANGED <<listed, lost>>

ReadCatalog ==
    /\ stage = "catalog"
    /\ Step(Lister)
    /\ IF req'[Lister].at = "idle" THEN CatalogAnswer
       ELSE UNCHANGED <<stage, listed, verdict, lost>>
    /\ UNCHANGED <<contentVars, job, page, direct>>

-----------------------------------------------------------------------------
(* The content, and CreateProject.                                          *)

InsertName(n) ==
    /\ \E i \in 1..(Len(content) + 1) : content' = InsertAt(content, i, n)
    /\ seen' = seen \cup {n}
    /\ UNCHANGED <<stayed, deletions>>

\* Mutant: every answer is a success.
CreateAnyway ==
    /\ stage = "create" /\ ~cancelled
    /\ IF Harbor /\ Wanted \notin ToSet(content)
       THEN InsertName(Wanted) ELSE UNCHANGED <<content, stayed, seen, deletions>>
    /\ stage' = "done" /\ verdict' = "created" /\ direct' = direct + 1
    /\ UNCHANGED <<vars, insertions, job, page, listed, lost>>

\* createHarborProject: 201, or 409 when another run was faster.  The manual
\* says that no project is ever made (USER_MANUAL.md:308); the code makes it.
Create ==
    /\ stage = "create" /\ ~cancelled /\ Harbor
    /\ IF Wanted \in ToSet(content) THEN UNCHANGED <<content, stayed, seen, deletions>>
                                    ELSE InsertName(Wanted)
    /\ stage' = "done" /\ verdict' = "created" /\ direct' = direct + 1
    /\ UNCHANGED <<vars, insertions, job, page, listed, lost>>

\* Another status, as of every registry without the API, or no answer: the
\* run ends with it.
CreateFails ==
    /\ stage = "create"
    /\ \/ UNCHANGED contentVars
       \/ /\ Harbor /\ ~cancelled /\ Wanted \notin ToSet(content)
          /\ InsertName(Wanted) /\ UNCHANGED insertions
    /\ stage' = "done" /\ verdict' = "error" /\ direct' = direct + 1
    /\ UNCHANGED <<vars, job, page, listed, lost>>

\* Others, another run of the same target project among them.
Inserted ==
    /\ stage # "done" /\ insertions + deletions < MaxChanges
    /\ \E n \in Names \ ToSet(content) : InsertName(n)
    /\ insertions' = insertions + 1
    /\ UNCHANGED <<vars, listVars>>

Deleted ==
    /\ stage # "done" /\ insertions + deletions < MaxChanges
    /\ \E i \in DOMAIN content :
         /\ content' = RemoveAt(content, i)
         /\ stayed' = stayed \ {content[i]}
    /\ deletions' = deletions + 1
    /\ UNCHANGED <<vars, listVars, seen, insertions>>

-----------------------------------------------------------------------------
\* A goroutine that copies blobs or manifests.
Transfer(c) ==
    /\ job = "transfer"
    /\ \/ Step(c)
       \/ \E op \in TransferOps : Begin(c, op)
    /\ UNCHANGED <<listVars, contentVars>>

Time == (Refill \/ Cancel) /\ UNCHANGED <<listVars, contentVars>>

ListerStep == ReadPage \/ PagesFail \/ ReadCatalog \/ Create \/ CreateFails

ListingNext == \/ ListerStep
               \/ (\E c \in Callers : Transfer(c))
               \/ Inserted \/ Deleted
               \/ Time

ListingSpec == ListingInit /\ [][ListingNext]_allVars

-----------------------------------------------------------------------------
(* Properties.                                                              *)

\* Pages shift while they are read.  A listing misses at most as many of the
\* names that were there all the time as names were deleted meanwhile (and
\* as the catalog cut off), repeats at most as many as were inserted, and
\* holds none that never was there; without changes it is exact, also when
\* the last page is full, and also when the catalog is read after some pages.
ListingSound == verdict = "listed" =>
    /\ Cardinality(stayed \ ToSet(listed)) <= deletions + lost
    /\ Len(listed) - Cardinality(ToSet(listed)) <= insertions
    /\ ToSet(listed) \subseteq seen

\* A run that has found its target project, or has made it, goes on with one
\* that is there, unless somebody deleted it; several runs may race for it.
\* A run that could not look (verdict "unknown") goes on all the same: of
\* that one this says nothing.
ProjectEnsured ==
    verdict \in {"exists", "created"} /\ deletions = 0 => Wanted \in ToSet(content)

\* What a listing and the making of a project send past the limiter is
\* bounded by what there was to list: one request for every full page, of
\* which names inserted meanwhile may shift one more into view each, one
\* more that ends the pages, and one for the project.
DirectBounded ==
    direct * PageSize <= Cardinality(seen) + insertions + 2 * PageSize
=============================================================================
