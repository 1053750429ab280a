------------------------------ MODULE TagFilter ------------------------------
(***************************************************************************)
(* FilterTags of pkg/filter/filter.go, which both the scheduler and the    *)
(* command line tool apply to the listing of a repository.  A regular      *)
(* expression is the set of tags that it matches.                          *)
(***************************************************************************)
EXTENDS SequencesExt

\* Mutant: an inclusion wins over an exclusion.
MatchIncludeFirst(tag, include, exclude) ==
    \/ \E p \in include : tag \in p
    \/ include = {} /\ \A p \in exclude : tag \notin p

\* Match: an exclusion wins, and without an inclusion everything is included.
Match(tag, include, exclude) ==
    /\ \A p \in exclude : tag \notin p
    /\ include = {} \/ \E p \in include : tag \in p

\* The results FilterTags may return for a listing.  `stamps` gives the
\* Updated field of each place of the listing: the clock when the loop of
\* the caller reached it, so it never decreases, and two places may be
\* equal.  sort.Slice does not keep the order of equal elements.
FilterTags(listing, stamps, include, exclude, latest) ==
    LET matched == {i \in DOMAIN listing : Match(listing[i], include, exclude)}
        sorted == {s \in SetToSeqs(matched) : \A i, j \in DOMAIN s :
                      i < j => stamps[s[i]] >= stamps[s[j]]}
        kept(s) == IF latest > 0 /\ Len(s) > latest
                   THEN SubSeq(s, 1, latest) ELSE s
    IN  {[i \in DOMAIN kept(s) |-> listing[kept(s)[i]]] : s \in sorted}
=============================================================================
