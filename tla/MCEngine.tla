------------------------------- MODULE MCEngine -------------------------------
(* Two enabled rules and a disabled one: the first takes the newest of two   *)
(* tags and a third it excludes; one is a list of which it selects an        *)
(* architecture.  The second writes an image under the same tag of the same  *)
(* repository.                                                               *)
EXTENDS Engine, TLC

CONSTANTS i1, i2, l1, v1, v2, v3, amd, arm

MCEntriesOf == l1 :> <<[image |-> i1, arch |-> amd], [image |-> i2, arch |-> arm]>>

MCRules == <<
    [enabled |-> TRUE, repo |-> "r", listing |-> <<v1, v2, v3>>, latest |-> 1,
     include |-> {}, exclude |-> {{v3}}, archs |-> {amd},
     source |-> v1 :> l1 @@ v2 :> i2 @@ v3 :> i2],
    [enabled |-> FALSE, repo |-> "r", listing |-> <<v2>>, latest |-> 0,
     include |-> {}, exclude |-> {}, archs |-> {}, source |-> v2 :> l1],
    [enabled |-> TRUE, repo |-> "r", listing |-> <<v2, v1>>, latest |-> 0,
     include |-> {{v1}, {v1, v2}}, exclude |-> {{v2}}, archs |-> {},
     source |-> v1 :> i1 @@ v2 :> i1] >>
=============================================================================
