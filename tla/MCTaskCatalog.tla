----------------------------- MODULE MCTaskCatalog -----------------------------
(* Two task ids, of which one is taken; a task with an expression that tells  *)
(* a channel of its failures, and one that is off, has another expression,    *)
(* and tells both channels everything.                                        *)
EXTENDS TaskCatalog

CONSTANTS g1, g2, c1, c2, n1, n2

MCPresent == {{g1, g2, c1, c2}, {g1, c1}}

MCBodies ==
    {[name |-> n1, source |-> g1, target |-> g2, enabled |-> TRUE,
      cron |-> "good", notify |-> "failed", channels |-> {c1}],
     [name |-> n2, source |-> g2, target |-> g1, enabled |-> FALSE,
      cron |-> "bad", notify |-> "all", channels |-> {c1, c2}]}
=============================================================================
