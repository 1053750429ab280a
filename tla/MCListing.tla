------------------------------ MODULE MCListing ------------------------------
(* The lister and one other goroutine, three names and pages of one; a       *)
(* registry of each kind, with accounts that may do all, a part or nothing.  *)
EXTENDS Listing

CONSTANTS n1, n2, n3

A(kind, account, public) == [kind |-> kind, account |-> account, public |-> public]

MCRegistries ==
    {A("open", {}, {}), A("basic", AllRights, {}), A("bare", AllRights, {})}
    \cup {A("bearer", account, {"pull"}) : account \in {{}, AllRights}}
    \cup {A("both", account, {}) : account \in {{"pull"}, AllRights}}
MCContents == {<<>>, <<n2>>, <<n2, n1>>, <<n1, n2, n3>>, <<n2, n3, n1>>}
=============================================================================
