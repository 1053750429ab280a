--------------------------------- MODULE Hub ---------------------------------
(***************************************************************************)
(* The websocket hub of the server, internal/websocket/hub.go: the runs    *)
(* that broadcast progress and log messages, the goroutine of Hub.Run, and *)
(* for every connected page a ReadPump and a WritePump.                    *)
(*                                                                         *)
(* broadcast and each client's send are buffered channels (256 in the      *)
(* code), register and unregister are unbuffered: a step of the hub takes  *)
(* the message from the goroutine that is waiting to hand it over.  Only   *)
(* Hub.Run touches the map of clients, and while it goes round the map a   *)
(* WritePump can only empty a buffer, so one round is one step.  Messages  *)
(* are the numbers 1, 2, ... in the order of the broadcast channel.        *)
(***************************************************************************)
EXTENDS Naturals, Sequences

CONSTANTS
    Clients,       \* websocket connections, each used once
    MaxMessages,   \* bound: messages broadcast in a behaviour
    BroadcastCap,  \* make(chan []byte, 256) in NewHub
    SendCap        \* make(chan []byte, 256) in NewClient

ASSUME CapsAssumption ==
    MaxMessages \in Nat /\ BroadcastCap \in Nat \ {0} /\ SendCap \in Nat \ {0}

VARIABLES
    published,  \* number of messages put in the broadcast channel
    broadcast,  \* the broadcast channel
    clients,    \* the map h.clients
    send,       \* each client's send channel
    closes,     \* how often each send channel has been closed
    reader,     \* each ReadPump: "none", "registering" (the handler before
                \* it starts), "reading", "leaving" (at unregister), "gone"
    writer,     \* each WritePump: "none", "writing", "gone"
    open,       \* the clients whose connection is open
    emitted,    \* history: the last message the hub has fanned out
    from, got   \* history: what had been fanned out when the client was
                \* added, and the last message put in its send channel

vars == <<published, broadcast, clients, send, closes, reader, writer, open,
          emitted, from, got>>

hubVars == <<published, broadcast, clients, emitted, from, got>>

Init ==
    /\ published = 0
    /\ broadcast = <<>>
    /\ clients = {}
    /\ send = [c \in Clients |-> <<>>]
    /\ closes = [c \in Clients |-> 0]
    /\ reader = [c \in Clients |-> "none"]
    /\ writer = [c \in Clients |-> "none"]
    /\ open = {}
    /\ emitted = 0
    /\ from = [c \in Clients |-> 0]
    /\ got = [c \in Clients |-> 0]

Closed(c) == closes[c] > 0

\* close(client.send) for each client of S; a second one panics.
Close(S) == closes' = [c \in Clients |-> IF c \in S THEN closes[c] + 1
                                                    ELSE closes[c]]

-----------------------------------------------------------------------------
\* BroadcastProgress and BroadcastLog block while the channel is full.
Broadcast ==
    /\ published < MaxMessages
    /\ Len(broadcast) < BroadcastCap
    /\ published' = published + 1
    /\ broadcast' = Append(broadcast, published + 1)
    /\ UNCHANGED <<clients, send, closes, reader, writer, open, emitted, from,
                   got>>

\* GET /ws: the upgrade, and the handler blocked in Register.
Connect(c) ==
    /\ reader[c] = "none"
    /\ reader' = [reader EXCEPT ![c] = "registering"]
    /\ open' = open \cup {c}
    /\ UNCHANGED <<hubVars, send, closes, writer>>

-----------------------------------------------------------------------------
(* Hub.Run: one action per case of its select.                              *)

\* The handler returns from Register and starts the two pumps.
RunRegister(c) ==
    /\ reader[c] = "registering"
    /\ clients' = clients \cup {c}
    /\ reader' = [reader EXCEPT ![c] = "reading"]
    /\ writer' = [writer EXCEPT ![c] = "writing"]
    /\ from' = [from EXCEPT ![c] = emitted]
    /\ got' = [got EXCEPT ![c] = emitted]
    /\ UNCHANGED <<published, broadcast, send, closes, open, emitted>>

\* Mutants: the channel of a client that is not in the map is closed too; the
\* channel is not closed at all.
RunUnregisterUnchecked(c) ==
    /\ reader[c] = "leaving"
    /\ clients' = clients \ {c}
    /\ Close({c})
    /\ reader' = [reader EXCEPT ![c] = "gone"]
    /\ open' = open \ {c}
    /\ UNCHANGED <<published, broadcast, send, writer, emitted, from, got>>

RunUnregisterNoClose(c) ==
    /\ reader[c] = "leaving"
    /\ clients' = clients \ {c}
    /\ reader' = [reader EXCEPT ![c] = "gone"]
    /\ open' = open \ {c}
    /\ UNCHANGED <<published, broadcast, send, closes, writer, emitted, from,
                   got>>

\* A client that was dropped already is left alone; ReadPump goes on to
\* close the connection.
RunUnregister(c) ==
    /\ reader[c] = "leaving"
    /\ clients' = clients \ {c}
    /\ Close(IF c \in clients THEN {c} ELSE {})
    /\ reader' = [reader EXCEPT ![c] = "gone"]
    /\ open' = open \ {c}
    /\ UNCHANGED <<published, broadcast, send, writer, emitted, from, got>>

\* One round over the map; lag are the clients that are not sent the message.
FanOut(lag) ==
    /\ broadcast # <<>>
    /\ broadcast' = Tail(broadcast)
    /\ LET m == Head(broadcast) IN
         /\ send' = [c \in Clients |-> IF c \in clients \ lag
                                       THEN Append(send[c], m) ELSE send[c]]
         /\ got' = [c \in Clients |-> IF c \in clients \ lag THEN m ELSE got[c]]
         /\ emitted' = m
    /\ UNCHANGED <<published, reader, writer, open, from>>

Slow == {c \in clients : Len(send[c]) = SendCap}

\* Mutants: a client without room misses the message; it is cut off but stays
\* in the map; the hub waits for room.
RunBroadcastSkips ==
    /\ FanOut(Slow)
    /\ UNCHANGED <<closes, clients>>

RunBroadcastKeeps ==
    /\ FanOut(Slow)
    /\ Close(Slow)
    /\ UNCHANGED clients

RunBroadcastWaits ==
    /\ Slow = {}
    /\ FanOut({})
    /\ UNCHANGED <<closes, clients>>

\* The message goes to every client with room; the others are dropped.
RunBroadcast ==
    /\ FanOut(Slow)
    /\ Close(Slow)
    /\ clients' = clients \ Slow

-----------------------------------------------------------------------------
(* The pumps, and the page at the other end.                                *)

\* ReadMessage fails: the page has gone or the connection is closed.
ReadFails(c) ==
    /\ reader[c] = "reading"
    /\ c \notin open
    /\ reader' = [reader EXCEPT ![c] = "leaving"]
    /\ UNCHANGED <<hubVars, send, closes, writer, open>>

WriteMessage(c) ==
    /\ writer[c] = "writing"
    /\ send[c] # <<>>
    /\ c \in open
    /\ send' = [send EXCEPT ![c] = Tail(@)]
    /\ UNCHANGED <<hubVars, closes, reader, writer, open>>

\* The write fails: the message is gone and so is the WritePump.
WriteFails(c) ==
    /\ writer[c] = "writing"
    /\ send[c] # <<>>
    /\ c \notin open
    /\ send' = [send EXCEPT ![c] = Tail(@)]
    /\ writer' = [writer EXCEPT ![c] = "gone"]
    /\ UNCHANGED <<hubVars, closes, reader, open>>

\* The channel is closed and empty: close message, and the connection.
WriteClose(c) ==
    /\ writer[c] = "writing"
    /\ send[c] = <<>> /\ Closed(c)
    /\ writer' = [writer EXCEPT ![c] = "gone"]
    /\ open' = open \ {c}
    /\ UNCHANGED <<hubVars, send, closes, reader>>

\* The page is closed, or the network fails.
Disconnect(c) ==
    /\ c \in open
    /\ open' = open \ {c}
    /\ UNCHANGED <<hubVars, send, closes, reader, writer>>

-----------------------------------------------------------------------------
HubStep == RunBroadcast \/ \E c \in Clients : RunRegister(c) \/ RunUnregister(c)

WriteStep(c) == WriteMessage(c) \/ WriteFails(c) \/ WriteClose(c)

Next ==
    \/ Broadcast
    \/ HubStep
    \/ \E c \in Clients :
          Connect(c) \/ ReadFails(c) \/ WriteStep(c) \/ Disconnect(c)

Spec == Init /\ [][Next]_vars

\* Hub.Run and ReadPump are run, and a select with several ready cases takes
\* each of them some day (Go picks at random).  Of WritePump nothing is
\* assumed: a page that does not read blocks it for as long as it likes.
FairSpec ==
    /\ Spec
    /\ WF_vars(RunBroadcast)
    /\ \A c \in Clients : /\ WF_vars(RunRegister(c))
                          /\ WF_vars(RunUnregister(c))
                          /\ WF_vars(ReadFails(c))

-----------------------------------------------------------------------------
(* Properties.                                                              *)

\* The variables keep their types.
TypeOK ==
    /\ published \in 0..MaxMessages
    /\ broadcast \in Seq(1..MaxMessages) /\ Len(broadcast) <= BroadcastCap
    /\ clients \subseteq Clients
    /\ send \in [Clients -> Seq(1..MaxMessages)]
    /\ closes \in [Clients -> Nat]
    /\ reader \in [Clients -> {"none", "registering", "reading", "leaving",
                               "gone"}]
    /\ writer \in [Clients -> {"none", "writing", "gone"}]
    /\ open \subseteq Clients
    /\ emitted \in 0..MaxMessages
    /\ from \in [Clients -> 0..MaxMessages]
    /\ got \in [Clients -> 0..MaxMessages]

\* The hub neither sends on a closed channel nor closes one twice, which
\* would end the process: a channel is closed exactly once a client has left
\* the map, on either of the two ways out, in either order.
ClosedOnce ==
    \A c \in Clients :
        /\ closes[c] <= 1
        /\ reader[c] \in {"reading", "leaving"} => (c \in clients <=> ~Closed(c))
        /\ reader[c] = "gone" => Closed(c) /\ c \notin clients

\* What waits in a client's channel is the end of what it was sent: the
\* numbers up to got, one by one, and nothing beyond what the hub has
\* emitted; what waits in the broadcast channel follows.
InOrder ==
    /\ \A c \in Clients :
         /\ Len(send[c]) <= SendCap /\ Len(send[c]) <= got[c] - from[c]
         /\ \A i \in DOMAIN send[c] : send[c][i] = got[c] - Len(send[c]) + i
         /\ c \in clients => got[c] = emitted
    /\ \A i \in DOMAIN broadcast : broadcast[i] = emitted + i
    /\ published = emitted + Len(broadcast)

\* The hub keeps the promise of Feed.
PageFeed == INSTANCE Feed
    WITH member <- clients, cut <- {c \in Clients : Closed(c)}, last <- got
KeepsFeed == PageFeed!Spec

\* A run that broadcasts is never blocked for ever, whatever the pages do
\* and although the code has no timeout on a broadcast.
NeverStuck == []<>(Len(broadcast) < BroadcastCap)

\* A connection that is gone is forgotten: its entry, its channel and its
\* ReadPump do not stay for the life of the server.
DeadClientLeaves ==
    \A c \in Clients :
        reader[c] # "none" /\ c \notin open ~> reader[c] = "gone" /\ Closed(c)
=============================================================================
