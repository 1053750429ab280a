-------------------------------- MODULE Feed ---------------------------------
(***************************************************************************)
(* What a page that watches a run is promised by the hub: from the moment  *)
(* it is connected it is sent every message, in the order in which the     *)
(* server emitted them, with no gap and no repetition, until it is cut     *)
(* off; after that it is sent nothing more.  Messages are numbered in the  *)
(* order in which the hub fans them out.                                   *)
(***************************************************************************)
EXTENDS Naturals

CONSTANT Clients

VARIABLES
    emitted,   \* number of messages fanned out so far
    member,    \* the clients that are connected
    cut,       \* the clients that are cut off
    from,      \* the number of messages emitted before a client connected
    last       \* the last message a client was sent, or from

vars == <<emitted, member, cut, from, last>>

Init ==
    /\ emitted = 0
    /\ member = {}
    /\ cut = {}
    /\ from = [c \in Clients |-> 0]
    /\ last = [c \in Clients |-> 0]

Join(c) ==
    /\ c \notin member \cup cut
    /\ member' = member \cup {c}
    /\ from' = [from EXCEPT ![c] = emitted]
    /\ last' = [last EXCEPT ![c] = emitted]
    /\ UNCHANGED <<emitted, cut>>

\* A message goes to every member but those that are cut off with it.
Emit ==
    /\ emitted' = emitted + 1
    /\ \E slow \in SUBSET member :
         /\ member' = member \ slow
         /\ cut' = cut \cup slow
         /\ last' = [c \in Clients |-> IF c \in member \ slow
                                       THEN emitted + 1 ELSE last[c]]
    /\ UNCHANGED from

Leave(c) ==
    /\ c \in member
    /\ member' = member \ {c}
    /\ cut' = cut \cup {c}
    /\ UNCHANGED <<emitted, from, last>>

Next == Emit \/ \E c \in Clients : Join(c) \/ Leave(c)

Spec == Init /\ [][Next]_vars
=============================================================================
