--------------------------- MODULE ClosedRegistry ----------------------------
(***************************************************************************)
(* What a mirror promises of its target registry: content only ever        *)
(* appears bottom up, blobs before the image that names them, images       *)
(* before the manifest list that names them, so that whatever a tag or a   *)
(* digest resolves to can be pulled, at any moment, by anybody.            *)
(***************************************************************************)
EXTENDS Sequences

CONSTANTS
    Repos, Tags, Blobs,
    Images,      \* manifests with a config and layers
    Lists,       \* manifest lists
    BlobsOf,     \* image -> its blobs, in the order of GetAllBlobs
    EntriesOf,   \* list -> its images, in the order of the list
    None         \* a tag that does not exist

VARIABLES
    blobs,       \* the pairs <<repository, blob>> the target holds
    manifests,   \* the pairs <<repository, manifest>>
    tags         \* <<repository, tag>> -> manifest or None

vars == <<blobs, manifests, tags>>

\* What the manifest m names is in the repository already.
Complete(repo, m) ==
    /\ m \in Images => \A i \in DOMAIN BlobsOf[m] :
                          <<repo, BlobsOf[m][i]>> \in blobs
    /\ m \in Lists => \A i \in DOMAIN EntriesOf[m] :
                          <<repo, EntriesOf[m][i]>> \in manifests

Init ==
    /\ blobs \in SUBSET (Repos \X Blobs)
    /\ manifests = {}
    /\ tags = [x \in Repos \X Tags |-> None]

Upload(repo, b) ==
    /\ blobs' = blobs \cup {<<repo, b>>}
    /\ UNCHANGED <<manifests, tags>>

Push(repo, m) ==
    /\ Complete(repo, m)
    /\ manifests' = manifests \cup {<<repo, m>>}
    /\ UNCHANGED <<blobs, tags>>

PushTag(repo, tag, m) ==
    /\ Complete(repo, m)
    /\ manifests' = manifests \cup {<<repo, m>>}
    /\ tags' = [tags EXCEPT ![<<repo, tag>>] = m]
    /\ UNCHANGED blobs

Next == \E repo \in Repos :
    \/ \E b \in Blobs : Upload(repo, b)
    \/ \E m \in Images \cup Lists : Push(repo, m)
    \/ \E m \in Images \cup Lists, tag \in Tags : PushTag(repo, tag, m)

Spec == Init /\ [][Next]_vars

\* Every manifest of a repository is complete there and every tag resolves.
Pullable ==
    /\ \A x \in manifests : Complete(x[1], x[2])
    /\ \A x \in Repos \X Tags :
         tags[x] # None => <<x[1], tags[x]>> \in manifests
=============================================================================
