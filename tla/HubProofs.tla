----------------------------- MODULE HubProofs ------------------------------
(***************************************************************************)
(* Theorems about Hub, for any clients, messages and capacities: the hub   *)
(* neither closes a channel twice nor sends on a closed one, a page is     *)
(* sent the messages in their order, and the hub implements Feed.          *)
(*                                                                         *)
(* The two ways out of the map (the page leaves; its buffer is full) can   *)
(* come in either order; that the second finds the channel closed rests on *)
(* the map: it holds a registered client exactly until the first.          *)
(***************************************************************************)
EXTENDS Hub, TLAPS

\* A connection before it is in the map.
FreshOK == \A c \in Clients : reader[c] \in {"none", "registering"} =>
    /\ c \notin clients
    /\ closes[c] = 0
    /\ send[c] = <<>>

\* The inductive invariant.
IInv == TypeOK /\ FreshOK /\ ClosedOnce /\ InOrder

-----------------------------------------------------------------------------
\* The number of a waiting message, when its channel grows and shrinks by one.
LEMMA OneMore == \A g, l, i \in Nat : g - l + i = (g + 1) - (l + 1) + i
  OBVIOUS

LEMMA OneLess == \A g, l, i \in Nat : g - l + (i + 1) = g - (l - 1) + i
  OBVIOUS

\* The first states have the invariant.
LEMMA InitOK == Init => IInv
<1> SUFFICES ASSUME Init PROVE IInv
  OBVIOUS
<1>1. TypeOK
  <2>1. <<>> \in Seq(1..MaxMessages)
    OBVIOUS
  <2> QED
    BY <2>1, CapsAssumption DEF TypeOK, Init
<1>2. FreshOK
  BY DEF FreshOK, Init
<1>3. ClosedOnce
  <2>1. ASSUME NEW c \in Clients
        PROVE  closes[c] <= 1 /\ reader[c] \notin {"reading", "leaving", "gone"}
    <3>1. closes[c] = 0 /\ reader[c] = "none"
      BY DEF Init
    <3> QED
      BY <3>1
  <2> QED
    BY <2>1 DEF ClosedOnce
<1>4. InOrder
  BY CapsAssumption DEF InOrder, Init
<1> QED
  BY <1>1, <1>2, <1>3, <1>4 DEF IInv

\* A message enters the broadcast channel.
LEMMA BroadcastKeeps == ASSUME IInv, Broadcast PROVE IInv'
<1> USE CapsAssumption DEF IInv, Broadcast
<1>1. published \in Nat /\ broadcast \in Seq(1..MaxMessages)
      /\ published + 1 \in 1..MaxMessages
  BY DEF TypeOK
<1>2. /\ broadcast' \in Seq(1..MaxMessages)
      /\ Len(broadcast') = Len(broadcast) + 1
      /\ \A i \in DOMAIN broadcast : broadcast'[i] = broadcast[i]
      /\ broadcast'[Len(broadcast) + 1] = published + 1
  BY <1>1
<1>3. TypeOK'
  BY <1>1, <1>2 DEF TypeOK
<1>4. FreshOK' /\ ClosedOnce'
  BY DEF FreshOK, ClosedOnce, Closed
<1>5. InOrder'
  <2>1. \A i \in DOMAIN broadcast' : broadcast'[i] = emitted' + i
    <3> TAKE i \in DOMAIN broadcast'
    <3>1. CASE i \in DOMAIN broadcast
      BY <3>1, <1>2 DEF InOrder
    <3>2. CASE i = Len(broadcast) + 1
      BY <3>2, <1>1, <1>2 DEF InOrder, TypeOK
    <3> QED
      BY <3>1, <3>2, <1>1, <1>2
  <2>2. published' = emitted' + Len(broadcast')
    BY <1>1, <1>2 DEF InOrder, TypeOK
  <2> QED
    BY <2>1, <2>2 DEF InOrder
<1> QED
  BY <1>3, <1>4, <1>5

\* A page connects, and is put in the map.
LEMMA ConnectKeeps == ASSUME IInv, NEW c \in Clients, Connect(c) PROVE IInv'
<1> USE DEF IInv, Connect, hubVars
<1>1. TypeOK'
  BY DEF TypeOK
<1>2. FreshOK'
  BY DEF FreshOK, TypeOK
<1>3. ClosedOnce'
  BY DEF ClosedOnce, Closed, TypeOK
<1>4. InOrder'
  BY DEF InOrder
<1> QED
  BY <1>1, <1>2, <1>3, <1>4

LEMMA RegisterKeeps == ASSUME IInv, NEW c \in Clients, RunRegister(c) PROVE IInv'
<1> USE DEF IInv, RunRegister
<1>1. TypeOK'
  BY DEF TypeOK
<1>2. c \notin clients /\ closes[c] = 0 /\ send[c] = <<>>
  BY DEF FreshOK
<1>3. FreshOK'
  BY <1>2 DEF FreshOK, TypeOK
<1>4. ClosedOnce'
  BY <1>2 DEF ClosedOnce, Closed, TypeOK
<1>5. InOrder'
  <2>1. \A d \in Clients \ {c} : got'[d] = got[d] /\ from'[d] = from[d]
    BY DEF TypeOK
  <2>2. got'[c] = emitted /\ from'[c] = emitted /\ emitted \in Nat
    BY DEF TypeOK
  <2>3. ASSUME NEW d \in Clients
        PROVE  /\ Len(send'[d]) <= SendCap /\ Len(send'[d]) <= got'[d] - from'[d]
               /\ \A i \in DOMAIN send'[d] : send'[d][i] = got'[d] - Len(send'[d]) + i
               /\ d \in clients' => got'[d] = emitted'
    <3>1. CASE d = c
      BY <3>1, <1>2, <2>2, CapsAssumption
    <3>2. CASE d # c
      BY <3>2, <2>1 DEF InOrder
    <3> QED
      BY <3>1, <3>2
  <2> QED
    BY <2>3 DEF InOrder
<1> QED
  BY <1>1, <1>3, <1>4, <1>5

\* A page leaves: its channel is closed if it is still in the map.
LEMMA UnregisterKeeps == ASSUME IInv, NEW c \in Clients, RunUnregister(c) PROVE IInv'
<1> USE DEF IInv, RunUnregister
<1>1. /\ closes' \in [Clients -> Nat]
      /\ closes'[c] = IF c \in clients THEN closes[c] + 1 ELSE closes[c]
      /\ \A d \in Clients \ {c} : closes'[d] = closes[d]
  BY DEF Close, TypeOK
<1>2. TypeOK'
  BY <1>1 DEF TypeOK
<1>3. FreshOK'
  BY <1>1 DEF FreshOK, TypeOK
<1>4. ClosedOnce'
  BY <1>1 DEF ClosedOnce, Closed, TypeOK
<1>5. InOrder'
  BY DEF InOrder
<1> QED
  BY <1>2, <1>3, <1>4, <1>5

\* One round over the map: what it does to the channels.
LEMMA RoundKeeps == ASSUME IInv, RunBroadcast PROVE IInv'
<1> USE CapsAssumption DEF IInv, RunBroadcast, FanOut
<1> DEFINE m == Head(broadcast)
<1>1. broadcast \in Seq(1..MaxMessages) /\ broadcast # <<>>
  BY DEF TypeOK
<1>2. m = broadcast[1] /\ m \in 1..MaxMessages /\ 1 \in DOMAIN broadcast
  BY <1>1
<1>3. m = emitted + 1 /\ emitted' = emitted + 1
  BY <1>2 DEF InOrder
<1>4. /\ broadcast' \in Seq(1..MaxMessages) /\ Len(broadcast') = Len(broadcast) - 1
      /\ \A i \in DOMAIN broadcast' :
            i + 1 \in DOMAIN broadcast /\ broadcast'[i] = broadcast[i + 1]
  BY <1>1
<1>5. ASSUME NEW c \in clients \ Slow
      PROVE  /\ c \in Clients
             /\ send'[c] = Append(send[c], m) /\ send'[c] \in Seq(1..MaxMessages)
             /\ Len(send'[c]) = Len(send[c]) + 1
             /\ \A i \in DOMAIN send[c] : send'[c][i] = send[c][i]
             /\ send'[c][Len(send[c]) + 1] = m
             /\ got'[c] = m /\ closes'[c] = closes[c]
  <2>1. c \in Clients /\ send[c] \in Seq(1..MaxMessages)
    BY DEF TypeOK
  <2> QED
    BY <2>1, <1>2 DEF Close
<1>6. ASSUME NEW c \in Clients, c \notin clients \ Slow
      PROVE  /\ send'[c] = send[c] /\ got'[c] = got[c]
             /\ closes'[c] = IF c \in Slow THEN closes[c] + 1 ELSE closes[c]
             /\ c \notin clients'
  BY <1>6 DEF Close, Slow
<1>7. TypeOK'
  <2>1. send' \in [Clients -> Seq(1..MaxMessages)]
    <3>1. \A c \in Clients : send[c] \in Seq(1..MaxMessages)
                           /\ Append(send[c], m) \in Seq(1..MaxMessages)
      BY <1>2 DEF TypeOK
    <3> QED
      BY <3>1
  <2>2. got' \in [Clients -> 0..MaxMessages] /\ closes' \in [Clients -> Nat]
    BY <1>2 DEF TypeOK, Close
  <2> QED
    BY <2>1, <2>2, <1>1, <1>2, <1>4 DEF TypeOK
<1>8. FreshOK'
  BY <1>6 DEF FreshOK, Slow
<1>9. ClosedOnce'
  <2> SUFFICES ASSUME NEW c \in Clients
               PROVE  /\ closes'[c] <= 1
                      /\ reader'[c] \in {"reading", "leaving"}
                            => (c \in clients' <=> ~Closed(c)')
                      /\ reader'[c] = "gone" => Closed(c)' /\ c \notin clients'
    BY DEF ClosedOnce
  <2>1. closes[c] \in Nat /\ reader'[c] = reader[c]
    BY DEF TypeOK
  <2>2. reader[c] \in {"none", "registering", "reading", "leaving", "gone"}
    BY DEF TypeOK
  <2>3. CASE c \in clients \ Slow
    BY <2>1, <2>3, <1>5 DEF ClosedOnce, Closed
  <2>4. CASE c \in Slow
    BY <2>1, <2>2, <2>4, <1>6 DEF ClosedOnce, Closed, Slow, FreshOK
  <2>5. CASE c \notin clients
    BY <2>1, <2>5, <1>6 DEF ClosedOnce, Closed, Slow
  <2> QED
    BY <2>3, <2>4, <2>5
<1>10. InOrder'
  <2>1. ASSUME NEW c \in Clients
        PROVE  /\ Len(send'[c]) <= SendCap /\ Len(send'[c]) <= got'[c] - from'[c]
               /\ \A i \in DOMAIN send'[c] : send'[c][i] = got'[c] - Len(send'[c]) + i
               /\ c \in clients' => got'[c] = emitted'
    <3>1. /\ send[c] \in Seq(1..MaxMessages) /\ Len(send[c]) \in Nat
          /\ got[c] \in Nat /\ from[c] \in Nat /\ emitted \in Nat
      BY DEF TypeOK
    <3>2. CASE c \in clients \ Slow
      <4>1. Len(send[c]) < SendCap
        BY <3>1, <3>2 DEF InOrder, Slow
      <4>2. got[c] = emitted /\ got'[c] = got[c] + 1
        BY <3>2, <1>3, <1>5 DEF InOrder
      <4>3. \A i \in DOMAIN send'[c] : send'[c][i] = got'[c] - Len(send'[c]) + i
        <5> TAKE i \in DOMAIN send'[c]
        <5>1. CASE i \in DOMAIN send[c]
          <6>1. send[c][i] = got[c] - Len(send[c]) + i /\ i \in Nat
            BY <5>1, <3>1 DEF InOrder
          <6>2. send'[c][i] = send[c][i] /\ Len(send'[c]) = Len(send[c]) + 1
            BY <5>1, <3>2, <1>5
          <6>3. send'[c][i] = got[c] - Len(send[c]) + i
            BY <6>1, <6>2
          <6>4. got'[c] - Len(send'[c]) + i = (got[c] + 1) - (Len(send[c]) + 1) + i
            BY <6>2, <4>2
          <6>5. got[c] \in Nat /\ Len(send[c]) \in Nat /\ i \in Nat
            BY <6>1, <3>1
          <6> HIDE DEF IInv, RunBroadcast, FanOut, m
          <6>6. got[c] - Len(send[c]) + i = (got[c] + 1) - (Len(send[c]) + 1) + i
            BY <6>5, OneMore
          <6> QED
            BY <6>3, <6>4, <6>6
        <5>2. CASE i = Len(send[c]) + 1
          BY <5>2, <3>1, <3>2, <4>2, <1>3, <1>5
        <5> QED
          BY <5>1, <5>2, <3>1, <3>2, <1>5
      <4>4. Len(send'[c]) <= got'[c] - from'[c]
        BY <3>1, <3>2, <4>2, <1>5 DEF InOrder
      <4> QED
        BY <3>1, <3>2, <4>1, <4>2, <4>3, <4>4, <1>3, <1>5
    <3>3. CASE c \notin clients \ Slow
      BY <3>3, <1>6 DEF InOrder
    <3> QED
      BY <3>2, <3>3
  <2>2. \A i \in DOMAIN broadcast' : broadcast'[i] = emitted' + i
    BY <1>3, <1>4 DEF InOrder, TypeOK
  <2>3. published' = emitted' + Len(broadcast')
    BY <1>1, <1>3, <1>4 DEF InOrder, TypeOK
  <2> QED
    BY <2>1, <2>2, <2>3 DEF InOrder
<1> QED
  BY <1>7, <1>8, <1>9, <1>10

-----------------------------------------------------------------------------
\* A WritePump takes a message off its channel.
LEMMA WriteKeeps ==
  ASSUME IInv, NEW c \in Clients, WriteMessage(c) \/ WriteFails(c)
  PROVE  IInv'
<1> USE DEF IInv, hubVars
<1>1. send[c] \in Seq(1..MaxMessages) /\ send[c] # <<>>
  BY DEF WriteMessage, WriteFails, TypeOK
<1>2. /\ send'[c] = Tail(send[c]) /\ send' \in [Clients -> Seq(1..MaxMessages)]
      /\ \A d \in Clients \ {c} : send'[d] = send[d]
  <2>1. send' = [send EXCEPT ![c] = Tail(send[c])]
    BY DEF WriteMessage, WriteFails
  <2>2. \A s \in Seq(1..MaxMessages) : s # <<>> => Tail(s) \in Seq(1..MaxMessages)
    OBVIOUS
  <2>3. Tail(send[c]) \in Seq(1..MaxMessages)
    BY <1>1, <2>2
  <2> QED
    BY <2>1, <2>3 DEF TypeOK
<1>3. /\ Len(send'[c]) = Len(send[c]) - 1
      /\ \A i \in DOMAIN send'[c] :
            i + 1 \in DOMAIN send[c] /\ send'[c][i] = send[c][i + 1]
  BY <1>1, <1>2
<1>4. UNCHANGED <<hubVars, closes, reader, open>>
      /\ writer' \in [Clients -> {"none", "writing", "gone"}]
  BY DEF WriteMessage, WriteFails, TypeOK
<1>5. TypeOK'
  BY <1>2, <1>4 DEF TypeOK
<1>6. FreshOK'
  BY <1>1, <1>2, <1>4 DEF FreshOK
<1>7. ClosedOnce'
  BY <1>4 DEF ClosedOnce, Closed
<1>8. InOrder'
  <2>1. ASSUME NEW d \in Clients
        PROVE  /\ Len(send'[d]) <= SendCap /\ Len(send'[d]) <= got'[d] - from'[d]
               /\ \A i \in DOMAIN send'[d] : send'[d][i] = got'[d] - Len(send'[d]) + i
               /\ d \in clients' => got'[d] = emitted'
    <3>1. CASE d = c
      <4>1. Len(send[c]) \in Nat /\ got[c] \in Nat /\ from[c] \in Nat
        BY <1>1 DEF TypeOK
      <4> QED
        <5>1. Len(send[c]) <= SendCap /\ Len(send[c]) <= got[c] - from[c]
          BY DEF InOrder
        <5>2. \A i \in DOMAIN send[c] : send[c][i] = got[c] - Len(send[c]) + i
          BY DEF InOrder
        <5>3. ASSUME NEW i \in DOMAIN send'[c]
              PROVE  send'[c][i] = got'[c] - Len(send'[c]) + i
          <6>1. i \in Nat /\ i + 1 \in DOMAIN send[c]
            BY <1>1, <1>2, <1>3
          <6>2. send'[c][i] = got[c] - Len(send[c]) + (i + 1)
            BY <6>1, <5>2, <1>3
          <6>3. got'[c] - Len(send'[c]) + i = got[c] - (Len(send[c]) - 1) + i
            BY <1>3, <1>4
          <6>4. got[c] - Len(send[c]) + (i + 1) = got[c] - (Len(send[c]) - 1) + i
            BY <6>1, <4>1, OneLess
          <6> QED
            BY <6>2, <6>3, <6>4
        <5>4. d \in clients' => got'[d] = emitted'
          BY <1>4 DEF InOrder
        <5>5. Len(send'[c]) <= SendCap /\ Len(send'[c]) <= got'[c] - from'[c]
          BY <5>1, <4>1, <1>3, <1>4, CapsAssumption
        <5> QED
          BY <3>1, <5>3, <5>4, <5>5
    <3>2. CASE d # c
      BY <3>2, <1>2, <1>4 DEF InOrder
    <3> QED
      BY <3>1, <3>2
  <2> QED
    BY <2>1, <1>4 DEF InOrder
<1> QED
  BY <1>5, <1>6, <1>7, <1>8

\* The other steps of the pumps and the pages leave the channels alone.
LEMMA PumpKeeps ==
  ASSUME IInv, NEW c \in Clients, ReadFails(c) \/ WriteClose(c) \/ Disconnect(c)
  PROVE  IInv'
<1> USE DEF IInv, ReadFails, WriteClose, Disconnect, hubVars
<1>1. TypeOK'
  BY DEF TypeOK
<1>2. FreshOK'
  BY DEF FreshOK, TypeOK
<1>3. ClosedOnce'
  BY DEF ClosedOnce, Closed, TypeOK
<1>4. InOrder'
  BY DEF InOrder
<1> QED
  BY <1>1, <1>2, <1>3, <1>4

\* Every step keeps the invariant.
LEMMA StepKeeps == IInv /\ [Next]_vars => IInv'
<1> SUFFICES ASSUME IInv, [Next]_vars PROVE IInv'
  OBVIOUS
<1>1. CASE Broadcast
  BY <1>1, BroadcastKeeps
<1>2. CASE HubStep
  BY <1>2, RegisterKeeps, UnregisterKeeps, RoundKeeps DEF HubStep
<1>3. ASSUME NEW c \in Clients,
             Connect(c) \/ ReadFails(c) \/ WriteStep(c) \/ Disconnect(c)
      PROVE  IInv'
  BY <1>3, ConnectKeeps, WriteKeeps, PumpKeeps DEF WriteStep
<1>4. CASE UNCHANGED vars
  BY <1>4 DEF vars, IInv, TypeOK, FreshOK, ClosedOnce, Closed, InOrder
<1> QED
  BY <1>1, <1>2, <1>3, <1>4 DEF Next

-----------------------------------------------------------------------------
(* The refinement.                                                          *)

\* A round is an emission that cuts the slow clients off.
LEMMA RoundIsEmit == ASSUME IInv, RunBroadcast PROVE PageFeed!Emit
<1> USE DEF RunBroadcast, FanOut
<1>1. Slow \in SUBSET clients
  BY DEF Slow
<1>2. Head(broadcast) = emitted + 1
  <2>1. broadcast \in Seq(1..MaxMessages) /\ broadcast # <<>>
    BY DEF IInv, TypeOK
  <2>2. 1 \in DOMAIN broadcast /\ Head(broadcast) = broadcast[1]
    BY <2>1
  <2> QED
    BY <2>2 DEF IInv, InOrder
<1>3. {c \in Clients : Closed(c)}' = {c \in Clients : Closed(c)} \cup Slow
  BY DEF Closed, Close, IInv, TypeOK, Slow
<1>4. got' = [c \in Clients |-> IF c \in clients \ Slow THEN emitted + 1 ELSE got[c]]
  BY <1>2
<1> QED
  BY <1>1, <1>2, <1>3, <1>4 DEF PageFeed!Emit

\* Registering is joining.
LEMMA RegisterIsJoin == ASSUME IInv, NEW c \in Clients, RunRegister(c)
                        PROVE  PageFeed!Join(c)
<1>1. c \notin clients /\ ~Closed(c)
  BY DEF IInv, FreshOK, Closed, RunRegister
<1>2. {d \in Clients : Closed(d)}' = {d \in Clients : Closed(d)}
  BY DEF RunRegister, Closed
<1> QED
  BY <1>1, <1>2 DEF PageFeed!Join, RunRegister

\* Unregistering is leaving, unless the client was cut off before.
LEMMA UnregisterIsLeave == ASSUME IInv, NEW c \in Clients, RunUnregister(c)
                           PROVE  PageFeed!Leave(c) \/ UNCHANGED PageFeed!vars
<1>1. CASE c \in clients
  <2>1. {d \in Clients : Closed(d)}' = {d \in Clients : Closed(d)} \cup {c}
    BY <1>1 DEF RunUnregister, Close, Closed, IInv, TypeOK
  <2> QED
    BY <1>1, <2>1 DEF PageFeed!Leave, RunUnregister
<1>2. CASE c \notin clients
  <2>1. {d \in Clients : Closed(d)}' = {d \in Clients : Closed(d)}
    BY <1>2 DEF RunUnregister, Close, Closed, IInv, TypeOK
  <2>2. clients' = clients
    BY <1>2 DEF RunUnregister
  <2> QED
    BY <2>1, <2>2 DEF PageFeed!vars, RunUnregister
<1> QED
  BY <1>1, <1>2

\* Every step of the hub is a step of the feed, or a stutter.
LEMMA StepIsFeed == IInv /\ [Next]_vars => [PageFeed!Next]_(PageFeed!vars)
<1> SUFFICES ASSUME IInv, [Next]_vars PROVE [PageFeed!Next]_(PageFeed!vars)
  OBVIOUS
<1>1. ASSUME UNCHANGED <<clients, closes, emitted, from, got>>
      PROVE  UNCHANGED PageFeed!vars
  BY <1>1 DEF PageFeed!vars, Closed
<1>2. CASE HubStep
  BY <1>2, RoundIsEmit, RegisterIsJoin, UnregisterIsLeave
     DEF HubStep, PageFeed!Next
<1>3. CASE Broadcast
  BY <1>1, <1>3 DEF Broadcast
<1>4. ASSUME NEW c \in Clients,
             Connect(c) \/ ReadFails(c) \/ WriteStep(c) \/ Disconnect(c)
      PROVE  UNCHANGED PageFeed!vars
  BY <1>1, <1>4 DEF Connect, ReadFails, WriteStep, WriteMessage, WriteFails,
                    WriteClose, Disconnect, hubVars
<1>5. CASE UNCHANGED vars
  BY <1>1, <1>5 DEF vars
<1> QED
  BY <1>2, <1>3, <1>4, <1>5 DEF Next

-----------------------------------------------------------------------------
\* The inductive invariant of the hub.
THEOREM Invariance == Spec => []IInv
<1> QED
  BY InitOK, StepKeeps, PTL DEF Spec

\* The variables of the hub keep their types.
THEOREM TypeCorrect == Spec => []TypeOK
<1>1. IInv => TypeOK
  BY DEF IInv
<1> QED
  BY <1>1, Invariance, PTL

\* No second close and no send on a closed channel ends the server.
THEOREM NoPanic == Spec => []ClosedOnce
<1>1. IInv => ClosedOnce
  BY DEF IInv
<1> QED
  BY <1>1, Invariance, PTL

\* A page is sent the messages one by one in their order.
THEOREM Ordered == Spec => []InOrder
<1>1. IInv => InOrder
  BY DEF IInv
<1> QED
  BY <1>1, Invariance, PTL

\* The hub implements the feed.
THEOREM FeedKept == Spec => KeepsFeed
<1>1. Init => PageFeed!Init
  <2> SUFFICES ASSUME Init PROVE PageFeed!Init
    OBVIOUS
  <2>1. {c \in Clients : Closed(c)} = {}
    BY DEF Init, Closed
  <2> QED
    BY <2>1 DEF Init, PageFeed!Init
<1>2. IInv /\ [Next]_vars => [PageFeed!Next]_(PageFeed!vars)
  BY StepIsFeed
<1> QED
  BY <1>1, <1>2, Invariance, PTL DEF Spec, KeepsFeed, PageFeed!Spec
=============================================================================
