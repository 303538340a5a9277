----------------------- MODULE ChannelDeliveryProofs -----------------------
(***************************************************************************)
(* The publications of the channel registry, for every set of nodes,       *)
(* connections, handlers and channels: no listener sees one twice, and one *)
(* that a listener is owed is under way to it or has reached it.           *)
(***************************************************************************)
EXTENDS ChannelRegistryProofs

UnderWay(p) == p \in outbox \/ \E n \in Nodes : p \in inbox[n] \/ p \in validating[n]

\* The members of a node are its own connections.
MembersAtHome ==
  \A n \in Nodes, ch \in Channels : \A c \in members[n][ch] : NodeOf[c] = n

\* A publication is known by its number.
NumberedOnce ==
  \A p, q \in Publication :
    UnderWay(p) => p.id <= published /\ (UnderWay(q) /\ p.id = q.id => p = q)

\* On its way to a node a publication is at one place, and the node's own handlers, which
\* publishTo called, never have theirs validated.
OnePlace ==
  \A p \in Publication, n \in Nodes :
    /\ p \in outbox => p \notin inbox[n] /\ p \notin validating[n]
    /\ p \in inbox[n] => p \notin validating[n]
    /\ p \in validating[n] => p.from # n

\* What may still be handed to the listener: handlers of the publishing node have had it.
Coming(p, l) ==
  LET n == NodeOf[l]
      echoed == l \in Handlers /\ p.from = n IN
  \/ (p \in outbox \/ p \in inbox[n]) /\ ~ echoed
  \/ p \in validating[n] /\ l \in Handlers

\* What is still coming, or is not published yet, has not been delivered.
NotYetDelivered ==
  /\ \A p \in Publication, l \in Listeners : Coming(p, l) => delivered[p.id][l] = 0
  /\ \A i \in 1..MaxPublications, l \in Listeners : i > published => delivered[i][l] = 0

\* A publication is owed to members, and not to the handlers publishTo called.
OwedToMembers ==
  \A o \in owed :
    /\ o[1].id <= published
    /\ o[2] \in ListenersOf(o[1].channel)
    /\ o[2] \in Handlers => NodeOf[o[2]] # o[1].from

OnlySubscribes(n, ch) == \A i \in 1..Len(pipe[n][ch]) : pipe[n][ch][i].op = "subscribe"

\* While an owed publication is on its way to the broker, the broker routes its channel to
\* the listener's node and no command that would end that is in flight.
OwedIsRouted ==
  \A o \in owed :
    o[1] \in outbox => /\ o[1].channel \in live[NodeOf[o[2]]]
                       /\ OnlySubscribes(NodeOf[o[2]], o[1].channel)

\* What is owed is coming, or has been delivered.
OwedComes == \A o \in owed : Coming(o[1], o[2]) \/ delivered[o[1].id][o[2]] = 1

Frames == NumberedOnce /\ OnePlace /\ NotYetDelivered /\ AtMostOnce

DInv == /\ TypeOK /\ Mirror /\ HandlersAtHome /\ MembersAtHome /\ Frames
        /\ OwedToMembers /\ OwedIsRouted /\ OwedComes

-----------------------------------------------------------------------------
(* Nobody sees a publication twice.                                        *)

\* Delivering adds one for the listeners given, and only for this publication.
LEMMA DeliverCounts ==
  ASSUME TypeOK, NEW p \in Publication, NEW ls, delivered' = Deliver(p, ls)
  PROVE  /\ p.id \in 1..MaxPublications
         /\ \A i \in 1..MaxPublications, l \in Listeners :
              /\ delivered[i][l] \in Nat
              /\ delivered'[i][l] = IF i = p.id /\ l \in ls THEN delivered[i][l] + 1
                                                           ELSE delivered[i][l]
  <1>1. p.id \in 1..MaxPublications
    BY DEF Publication
  <1> QED
    BY <1>1 DEF Deliver, TypeOK

\* A listener has one node and is of one kind.
LEMMA Kinds ==
  ASSUME NEW l \in Listeners
  PROVE  NodeOf[l] \in Nodes /\ (l \in Conns \/ l \in Handlers) /\ ~ (l \in Conns /\ l \in Handlers)
  BY RegistryConstants DEF Listeners

\* Steps that deliver nothing and put nothing on the way.
LEMMA QuietFrames ==
  ASSUME Frames, outbox' \subseteq outbox, inbox' = inbox,
         \A n \in Nodes : validating'[n] \subseteq validating[n],
         published' = published, delivered' = delivered
  PROVE  Frames'
  <1>1. NumberedOnce'
    BY DEF Frames, NumberedOnce, UnderWay
  <1>2. OnePlace'
    BY DEF Frames, OnePlace
  <1>3. \A p \in Publication, l \in Listeners : Coming(p, l)' => Coming(p, l)
    BY Kinds DEF Coming
  <1>4. NotYetDelivered' /\ AtMostOnce'
    BY <1>3 DEF Frames, NotYetDelivered, AtMostOnce
  <1> QED
    BY <1>1, <1>2, <1>4 DEF Frames

LEMMA PublishFrames ==
  ASSUME TypeOK, HandlersAtHome, Frames, NEW n \in Nodes, NEW ch \in Channels, Publish(n, ch)
  PROVE  Frames'
  <1> PICK p : p = [id |-> published + 1, from |-> n, channel |-> ch]
    OBVIOUS
  <1>1. p \in Publication /\ p.id = published + 1 /\ p.from = n /\ published \in Nat
    <2>1. published \in Nat /\ published + 1 \in 1..MaxPublications
      BY RegistryConstants DEF Publish, TypeOK
    <2>2. p \in Publication
      BY <2>1 DEF Publication
    <2> QED
      BY <2>1, <2>2
  <1>2. /\ published' = published + 1 /\ outbox' = outbox \cup {p}
        /\ inbox' = inbox /\ validating' = validating
        /\ delivered' = Deliver(p, bus[n][ch])
    BY DEF Publish
  <1>3. \A q \in Publication : UnderWay(q)' <=> UnderWay(q) \/ q = p
    BY <1>2 DEF UnderWay
  <1>4. \A q \in Publication : UnderWay(q) => q.id \in Nat /\ q.id <= published
    BY DEF Frames, NumberedOnce, Publication
  <1>5. ~ UnderWay(p)
    BY <1>1, <1>4
  <1>6. NumberedOnce'
    <2>1. \A q \in Publication : UnderWay(q)' => q.id <= published'
      BY <1>1, <1>2, <1>3, <1>4
    <2>2. \A q, r \in Publication : UnderWay(q)' /\ UnderWay(r)' /\ q.id = r.id => q = r
      BY <1>1, <1>3, <1>4 DEF Frames, NumberedOnce
    <2> QED
      BY <2>1, <2>2 DEF NumberedOnce
  <1>7. OnePlace'
    BY <1>2, <1>5 DEF Frames, OnePlace, UnderWay
  <1>8. \A i \in 1..MaxPublications, l \in Listeners :
          /\ delivered[i][l] \in Nat
          /\ delivered'[i][l] = IF i = p.id /\ l \in bus[n][ch] THEN delivered[i][l] + 1
                                                               ELSE delivered[i][l]
    BY <1>1, <1>2, DeliverCounts
  <1>9. \A l \in Listeners : p.id \in 1..MaxPublications /\ delivered[p.id][l] = 0
    BY <1>1 DEF Frames, NotYetDelivered, Publication
  <1>10. \A l \in Listeners : l \in bus[n][ch] => l \in Handlers /\ NodeOf[l] = n
    BY DEF HandlersAtHome, TypeOK
  <1>11. \A q \in Publication, l \in Listeners : Coming(q, l)' => delivered'[q.id][l] = 0
    <2> SUFFICES ASSUME NEW q \in Publication, NEW l \in Listeners, Coming(q, l)'
                 PROVE  delivered'[q.id][l] = 0
      OBVIOUS
    <2>1. CASE q = p
      <3>1. p \notin validating[NodeOf[l]]
        BY <1>5, Kinds DEF UnderWay
      <3>2. ~ (l \in Handlers /\ NodeOf[l] = n)
        BY <1>1, <1>2, <2>1, <3>1 DEF Coming
      <3> QED
        BY <1>8, <1>9, <1>10, <2>1, <3>2
    <2>2. CASE q # p
      <3>1. Coming(q, l)
        BY <1>2, <2>2 DEF Coming
      <3>2. UnderWay(q)
        BY <3>1, Kinds DEF Coming, UnderWay
      <3>3. q.id # p.id /\ q.id \in 1..MaxPublications
        BY <1>1, <1>4, <3>2 DEF Publication
      <3> QED
        BY <1>8, <3>1, <3>3 DEF Frames, NotYetDelivered
    <2> QED
      BY <2>1, <2>2
  <1>12. \A i \in 1..MaxPublications, l \in Listeners : i > published' => delivered'[i][l] = 0
    <2> SUFFICES ASSUME NEW i \in 1..MaxPublications, NEW l \in Listeners, i > published'
                 PROVE  delivered'[i][l] = 0
      OBVIOUS
    <2>1. i > published /\ i # p.id
      BY <1>1, <1>2
    <2> QED
      BY <1>8, <2>1 DEF Frames, NotYetDelivered
  <1>13. AtMostOnce'
    BY <1>8, <1>9 DEF Frames, AtMostOnce
  <1> QED
    BY <1>6, <1>7, <1>11, <1>12, <1>13 DEF Frames, NotYetDelivered

LEMMA RouteFrames ==
  ASSUME TypeOK, Frames, NEW p \in outbox, Route(p)
  PROVE  Frames'
  <1>1. /\ p \in Publication /\ p \in outbox /\ outbox' = outbox \ {p}
        /\ validating' = validating /\ published' = published /\ delivered' = delivered
    BY DEF Route, TypeOK
  <1>2. \A n \in Nodes : inbox'[n] = IF p.channel \in live[n] THEN inbox[n] \cup {p} ELSE inbox[n]
    BY DEF Route
  <1>3. \A q \in Publication : UnderWay(q)' => UnderWay(q)
    BY <1>1, <1>2 DEF UnderWay
  <1>4. NumberedOnce'
    BY <1>1, <1>3 DEF Frames, NumberedOnce
  <1>5. OnePlace'
    <2>1. \A q \in Publication, n \in Nodes : q \in inbox'[n] => q \in inbox[n] \/ q = p
      BY <1>2
    <2> QED
      BY <1>1, <2>1 DEF Frames, OnePlace
  <1>6. \A q \in Publication, l \in Listeners : Coming(q, l)' => Coming(q, l)
    BY <1>1, <1>2, Kinds DEF Coming
  <1>7. NotYetDelivered' /\ AtMostOnce'
    BY <1>1, <1>6 DEF Frames, NotYetDelivered, AtMostOnce
  <1> QED
    BY <1>4, <1>5, <1>7 DEF Frames

\* A frame is handed to listeners it was coming to, and is not coming to them any more.
LEMMA HandOver ==
  ASSUME TypeOK, Frames, NEW p \in Publication, UnderWay(p), NEW ls,
         delivered' = Deliver(p, ls), published' = published,
         \A l \in Listeners : l \in ls => Coming(p, l) /\ ~ Coming(p, l)',
         \A q \in Publication, l \in Listeners : Coming(q, l)' => Coming(q, l)
  PROVE  NotYetDelivered' /\ AtMostOnce'
  <1>1. p.id \in 1..MaxPublications /\ p.id <= published
    BY DEF Frames, NumberedOnce, Publication
  <1>2. \A i \in 1..MaxPublications, l \in Listeners :
          /\ delivered[i][l] \in Nat
          /\ delivered'[i][l] = IF i = p.id /\ l \in ls THEN delivered[i][l] + 1
                                                       ELSE delivered[i][l]
    BY DeliverCounts
  <1>3. \A l \in Listeners : l \in ls => delivered[p.id][l] = 0
    BY DEF Frames, NotYetDelivered
  <1>4. AtMostOnce'
    BY <1>2, <1>3 DEF Frames, AtMostOnce
  <1>5. ASSUME NEW q \in Publication, NEW l \in Listeners, Coming(q, l)'
        PROVE  delivered'[q.id][l] = 0
    <2>1. Coming(q, l) /\ q.id \in 1..MaxPublications
      BY <1>5 DEF Publication
    <2>2. UnderWay(q)
      BY <2>1, Kinds DEF Coming, UnderWay
    <2>3. q.id = p.id => q = p
      BY <2>2 DEF Frames, NumberedOnce
    <2>4. ~ (q.id = p.id /\ l \in ls)
      BY <1>5, <2>3
    <2> QED
      BY <1>2, <2>1, <2>4 DEF Frames, NotYetDelivered
  <1>6. ASSUME NEW i \in 1..MaxPublications, NEW l \in Listeners, i > published'
        PROVE  delivered'[i][l] = 0
    <2>1. i # p.id /\ i > published
      BY <1>1, <1>6 DEF TypeOK
    <2> QED
      BY <1>2, <2>1 DEF Frames, NotYetDelivered
  <1> QED
    BY <1>4, <1>5, <1>6 DEF NotYetDelivered

LEMMA ReceiveFrames ==
  ASSUME TypeOK, MembersAtHome, Frames, NEW n \in Nodes, NEW p \in inbox[n], Receive(n, p)
  PROVE  Frames'
  <1> PICK ls : ls = members[n][p.channel] \cap open
    OBVIOUS
  <1>1. /\ p \in Publication /\ p \in inbox[n] /\ outbox' = outbox /\ published' = published
        /\ delivered' = Deliver(p, ls)
    BY DEF Receive, TypeOK
  <1>2. \A m \in Nodes : /\ inbox'[m] = IF m = n THEN inbox[m] \ {p} ELSE inbox[m]
                         /\ \A q : q \in validating'[m] =>
                              q \in validating[m] \/ (m = n /\ q = p /\ p.from # n)
    BY DEF Receive, TypeOK
  <1>3. UnderWay(p) /\ \A q \in Publication : UnderWay(q)' => UnderWay(q)
    <2>1. UnderWay(p)
      BY <1>1 DEF UnderWay
    <2>2. ASSUME NEW q \in Publication, UnderWay(q)' PROVE UnderWay(q)
      <3>1. CASE q = p
        BY <2>1, <3>1
      <3>2. CASE q # p
        <4>1. \A m \in Nodes : /\ q \in inbox'[m] => q \in inbox[m]
                               /\ q \in validating'[m] => q \in validating[m]
          BY <1>2, <3>2
        <4> QED
          BY <1>1, <2>2, <4>1 DEF UnderWay
      <3> QED
        BY <3>1, <3>2
    <2> QED
      BY <2>1, <2>2
  <1>4. NumberedOnce'
    BY <1>1, <1>3 DEF Frames, NumberedOnce
  <1>5. OnePlace'
    BY <1>1, <1>2, ZenonT(60) DEF Frames, OnePlace
  <1>6. \A q \in Publication, l \in Listeners : Coming(q, l)' => Coming(q, l)
    BY <1>1, <1>2, Kinds DEF Coming
  <1>7. ASSUME NEW l \in Listeners, l \in ls PROVE Coming(p, l) /\ ~ Coming(p, l)'
    <2>1. l \in Conns /\ l \notin Handlers /\ NodeOf[l] = n
      BY <1>1, <1>7, Kinds DEF MembersAtHome, TypeOK, Publication
    <2>2. p \notin outbox
      BY <1>1 DEF Frames, OnePlace
    <2> QED
      BY <1>1, <1>2, <2>1, <2>2 DEF Coming
  <1>8. NotYetDelivered' /\ AtMostOnce'
    BY <1>1, <1>3, <1>6, <1>7, HandOver
  <1> QED
    BY <1>4, <1>5, <1>8 DEF Frames

LEMMA DeliverBusFrames ==
  ASSUME TypeOK, HandlersAtHome, Frames, NEW n \in Nodes, NEW p \in validating[n], DeliverBus(n, p)
  PROVE  Frames'
  <1> PICK ls : ls = bus[n][p.channel]
    OBVIOUS
  <1>1. /\ p \in Publication /\ p \in validating[n] /\ outbox' = outbox /\ inbox' = inbox
        /\ published' = published /\ delivered' = Deliver(p, ls)
    BY DEF DeliverBus, TypeOK
  <1>2. \A m \in Nodes :
          validating'[m] = IF m = n THEN validating[m] \ {p} ELSE validating[m]
    BY DEF DeliverBus, TypeOK
  <1>3. UnderWay(p) /\ \A q \in Publication : UnderWay(q)' => UnderWay(q)
    BY <1>1, <1>2 DEF UnderWay
  <1>4. NumberedOnce'
    BY <1>1, <1>3 DEF Frames, NumberedOnce
  <1>5. OnePlace'
    BY <1>1, <1>2 DEF Frames, OnePlace
  <1>6. \A q \in Publication, l \in Listeners : Coming(q, l)' => Coming(q, l)
    BY <1>1, <1>2, Kinds DEF Coming
  <1>7. ASSUME NEW l \in Listeners, l \in ls PROVE Coming(p, l) /\ ~ Coming(p, l)'
    <2>1. l \in Handlers /\ NodeOf[l] = n
      BY <1>1, <1>7 DEF HandlersAtHome, TypeOK, Publication
    <2>2. p \notin outbox /\ p \notin inbox[n]
      BY <1>1 DEF Frames, OnePlace
    <2> QED
      BY <1>1, <1>2, <2>1, <2>2 DEF Coming
  <1>8. NotYetDelivered' /\ AtMostOnce'
    BY <1>1, <1>3, <1>6, <1>7, HandOver
  <1> QED
    BY <1>4, <1>5, <1>8 DEF Frames

LEMMA StepFrames ==
  ASSUME TypeOK, HandlersAtHome, MembersAtHome, Frames, [Next]_vars
  PROVE  Frames'
  <1>1. CASE UNCHANGED <<outbox, inbox, validating, published, delivered>>
    BY <1>1, QuietFrames
  <1>2. ASSUME NEW h \in Handlers, NEW ch \in Channels, BusUnsubscribe(h, ch) PROVE Frames'
    BY <1>2, QuietFrames, Kinds DEF BusUnsubscribe, TypeOK, Listeners
  <1>3. ASSUME NEW p \in outbox, PublishFailed(p) PROVE Frames'
    BY <1>3, QuietFrames DEF PublishFailed
  <1>4. ASSUME NEW n \in Nodes, NEW p \in validating[n], FrameRefused(n, p) PROVE Frames'
    <2>1. \A m \in Nodes : validating'[m] \subseteq validating[m]
      BY <1>4 DEF FrameRefused, TypeOK
    <2> QED
      BY <1>4, <2>1, QuietFrames DEF FrameRefused
  <1>5. \/ UNCHANGED <<outbox, inbox, validating, published, delivered>>
        \/ \E h \in Handlers, ch \in Channels : BusUnsubscribe(h, ch)
        \/ \E p \in outbox : Route(p) \/ PublishFailed(p)
        \/ \E n \in Nodes, ch \in Channels : Publish(n, ch)
        \/ \E n \in Nodes : \E p \in inbox[n] : Receive(n, p)
        \/ \E n \in Nodes : \E p \in validating[n] : DeliverBus(n, p) \/ FrameRefused(n, p)
    <2>1. CASE UNCHANGED vars
      BY <2>1 DEF vars, traffic
    <2>2. ASSUME NEW c \in Conns, NEW ch \in Channels,
                 \/ SubscribeFrame(c, ch) \/ Denied(c, ch) \/ JoinChannel(c, ch)
                 \/ Respond(c, ch) \/ UnsubscribeFrame(c, ch)
          PROVE  UNCHANGED <<outbox, inbox, validating, published, delivered>>
      BY <2>2 DEF traffic, SubscribeFrame, Denied, JoinChannel, Respond, UnsubscribeFrame
    <2>3. ASSUME NEW c \in Conns, SocketClosed(c)
          PROVE  UNCHANGED <<outbox, inbox, validating, published, delivered>>
      BY <2>3 DEF traffic, SocketClosed
    <2>4. ASSUME NEW h \in Handlers, NEW ch \in Channels, BusSubscribe(h, ch)
          PROVE  UNCHANGED <<outbox, inbox, validating, published, delivered>>
      BY <2>4 DEF traffic, BusSubscribe
    <2>5. ASSUME NEW n \in Nodes, NEW ch \in Channels,
                 CommandApplied(n, ch) \/ CommandFailed(n, ch)
          PROVE  UNCHANGED <<outbox, inbox, validating, published, delivered>>
      BY <2>5 DEF traffic, CommandApplied, CommandFailed
    <2> QED
      BY <2>1, <2>2, <2>3, <2>4, <2>5 DEF Next
  <1> QED
    BY <1>1, <1>2, <1>3, <1>4, <1>5, PublishFrames, RouteFrames, ReceiveFrames, DeliverBusFrames

\* The members of a node stay its own connections.
LEMMA StepMembersHome == TypeOK /\ MembersAtHome /\ [Next]_vars => MembersAtHome'
  <1> SUFFICES ASSUME TypeOK, MembersAtHome, [Next]_vars PROVE MembersAtHome'
    OBVIOUS
  <1>1. ASSUME NEW c \in Conns, NEW ch \in Channels, JoinChannel(c, ch) PROVE MembersAtHome'
    <2>1. NodeOf[c] \in Nodes
      BY RegistryConstants DEF Listeners
    <2>2. \A m \in Nodes, k \in Channels :
            members'[m][k] = IF m = NodeOf[c] /\ k = ch THEN members[m][k] \cup {c}
                                                        ELSE members[m][k]
      BY <1>1, <2>1 DEF JoinChannel, TypeOK
    <2> SUFFICES ASSUME NEW m \in Nodes, NEW k \in Channels, NEW d \in members'[m][k]
                 PROVE  NodeOf[d] = m
      BY DEF MembersAtHome
    <2>3. d \in members[m][k] \/ (m = NodeOf[c] /\ d = c)
      BY <2>2, ZenonT(60)
    <2> QED
      BY <2>3 DEF MembersAtHome
  <1>2. ASSUME NEW c \in Conns, NEW chs \in SUBSET Channels, LeaveChannels(c, chs)
        PROVE  MembersAtHome'
    <2>1. Left(c, chs)
      BY <1>2, LeaveLeft
    <2> SUFFICES ASSUME NEW m \in Nodes, NEW k \in Channels, NEW d \in members'[m][k]
                 PROVE  NodeOf[d] = m
      BY DEF MembersAtHome
    <2>2. d \in members[m][k]
      BY <2>1, ZenonT(60) DEF Left
    <2> QED
      BY <2>2 DEF MembersAtHome
  <1>3. ASSUME NEW c \in Conns, NEW ch \in Channels, UnsubscribeFrame(c, ch) PROVE MembersAtHome'
    BY <1>2, <1>3 DEF UnsubscribeFrame
  <1>4. ASSUME NEW c \in Conns, SocketClosed(c) PROVE MembersAtHome'
    BY <1>2, <1>4 DEF SocketClosed, TypeOK
  <1>5. CASE members' = members
    BY <1>5 DEF MembersAtHome
  <1>6. \/ members' = members
        \/ \E c \in Conns, ch \in Channels : JoinChannel(c, ch) \/ UnsubscribeFrame(c, ch)
        \/ \E c \in Conns : SocketClosed(c)
    <2>1. CASE UNCHANGED <<open, registry, task, command, live, wanted, acked>>
      BY <2>1 DEF registry
    <2>2. ASSUME NEW c \in Conns, NEW ch \in Channels,
                 SubscribeFrame(c, ch) \/ Denied(c, ch) \/ Respond(c, ch)
          PROVE  members' = members
      BY <2>2 DEF SubscribeFrame, Denied, Respond, registry
    <2>3. ASSUME NEW h \in Handlers, NEW ch \in Channels,
                 BusSubscribe(h, ch) \/ BusUnsubscribe(h, ch)
          PROVE  members' = members
      BY <2>3 DEF BusSubscribe, BusUnsubscribe
    <2>4. ASSUME NEW n \in Nodes, NEW ch \in Channels, CommandApplied(n, ch) \/ CommandFailed(n, ch)
          PROVE  members' = members
      BY <2>4 DEF CommandApplied, CommandFailed, registry
    <2> QED
      BY <2>1, <2>2, <2>3, <2>4, Steps
  <1> QED
    BY <1>1, <1>3, <1>4, <1>5, <1>6

-----------------------------------------------------------------------------
(* What is owed stays owed to a member, and stays routed.                  *)

LEMMA IsListener ==
  ASSUME TypeOK, NEW l \in Listeners, NEW ch \in Channels
  PROVE  l \in ListenersOf(ch) <=>
           \/ l \in Conns /\ l \in open /\ l \in members[NodeOf[l]][ch]
           \/ l \in Handlers /\ l \in bus[NodeOf[l]][ch]
  <1>1. CASE l \in Conns
    BY <1>1, Kinds DEF ListenersOf, TypeOK
  <1>2. CASE l \in Handlers
    BY <1>2, Kinds DEF ListenersOf, TypeOK
  <1> QED
    BY <1>1, <1>2, Kinds

\* The parts of an owed pair.
LEMMA OwedParts ==
  ASSUME TypeOK, NEW o \in owed
  PROVE  /\ o[1] \in Publication /\ o[2] \in Listeners /\ o[1].channel \in Channels
         /\ o[1].id \in 1..MaxPublications /\ o[1].from \in Nodes /\ NodeOf[o[2]] \in Nodes
  <1>1. o[1] \in Publication /\ o[2] \in Listeners
    BY DEF TypeOK
  <1> QED
    BY <1>1, Kinds DEF Publication

\* A command leaves the pipe of a channel free of unsubscribes, unless it is one for it.
LEMMA IssueOnly ==
  ASSUME TypeOK, NEW n \in Nodes, NEW chs \in SUBSET Channels,
         NEW op \in {"subscribe", "unsubscribe"}, NEW who \in Listeners \cup {NoOne},
         Issue(n, chs, op, who), NEW m \in Nodes, NEW ch \in Channels,
         OnlySubscribes(m, ch), op = "subscribe" \/ ~ (m = n /\ ch \in chs)
  PROVE  OnlySubscribes(m, ch)'
  <1> DEFINE cmd == [op |-> op, by |-> who]
  <1>0. cmd.op = op
    OBVIOUS
  <1>1. cmd \in Command
    BY DEF Command
  <1>2. pipe' = [pipe EXCEPT ![n] = [k \in Channels |->
                   IF k \in chs THEN Append(@[k], cmd) ELSE @[k]]]
    BY DEF Issue
  <1> HIDE DEF cmd
  <1>3. pipe'[m][ch] = IF m = n /\ ch \in chs THEN Append(pipe[n][ch], cmd) ELSE pipe[m][ch]
    BY <1>2 DEF TypeOK
  <1>4. CASE ~ (m = n /\ ch \in chs)
    BY <1>3, <1>4 DEF OnlySubscribes
  <1>5. CASE m = n /\ ch \in chs
    <2>1. op = "subscribe" /\ pipe'[m][ch] = Append(pipe[m][ch], cmd)
      BY <1>3, <1>5
    <2>2. pipe[m][ch] \in Seq(Command)
      BY DEF TypeOK
    <2>3. \A i \in 1..Len(pipe'[m][ch]) : \/ i \in 1..Len(pipe[m][ch]) /\ pipe'[m][ch][i] = pipe[m][ch][i]
                                          \/ pipe'[m][ch][i] = cmd
      BY <1>1, <2>1, <2>2, AppendElements
    <2> QED
      BY <1>0, <2>1, <2>3 DEF OnlySubscribes
  <1> QED
    BY <1>4, <1>5

LEMMA PopOnly ==
  ASSUME TypeOK, NEW n \in Nodes, NEW ch \in Channels,
         pipe[n][ch] # <<>>, pipe' = [pipe EXCEPT ![n][ch] = Tail(@)],
         NEW m \in Nodes, NEW k \in Channels, OnlySubscribes(m, k)
  PROVE  /\ OnlySubscribes(m, k)'
         /\ m = n /\ k = ch => Head(pipe[n][ch]).op = "subscribe"
  <1>1. pipe'[m][k] = IF m = n /\ k = ch THEN Tail(pipe[m][k]) ELSE pipe[m][k]
    BY DEF TypeOK
  <1>2. CASE ~ (m = n /\ k = ch)
    BY <1>1, <1>2 DEF OnlySubscribes
  <1>3. CASE m = n /\ k = ch
    <2>1. pipe[m][k] \in Seq(Command) /\ pipe[m][k] # <<>>
      BY <1>3 DEF TypeOK
    <2>2. \A i \in 1..Len(Tail(pipe[m][k])) :
            i + 1 \in 1..Len(pipe[m][k]) /\ Tail(pipe[m][k])[i] = pipe[m][k][i + 1]
      BY <2>1, TailElements
    <2>3. 1 \in 1..Len(pipe[m][k]) /\ Head(pipe[m][k]) = pipe[m][k][1]
      BY <2>1, HeadTailProperties, EmptySeq
    <2>4. pipe'[m][k] = Tail(pipe[m][k])
      BY <1>1, <1>3
    <2> QED
      BY <1>3, <2>2, <2>3, <2>4 DEF OnlySubscribes
  <1> QED
    BY <1>2, <1>3

Routed(n, ch) == ch \in live[n] /\ OnlySubscribes(n, ch)

\* A step that owes nothing new, keeps the listeners it owes and their routes.
LEMMA OwedKept ==
  ASSUME TypeOK, OwedToMembers, OwedIsRouted,
         owed' \subseteq owed, outbox' \subseteq outbox, published' = published,
         \A o \in owed' : o[2] \in ListenersOf(o[1].channel) => o[2] \in ListenersOf(o[1].channel)',
         \A o \in owed' : Routed(NodeOf[o[2]], o[1].channel) => Routed(NodeOf[o[2]], o[1].channel)'
  PROVE  OwedToMembers' /\ OwedIsRouted'
  <1>1. OwedToMembers'
    BY DEF OwedToMembers
  <1>2. OwedIsRouted'
    BY DEF OwedIsRouted, Routed
  <1> QED
    BY <1>1, <1>2

\* Steps that leave the registry, the commands and the broker alone.
LEMMA OwedQuiet ==
  ASSUME TypeOK, OwedToMembers, OwedIsRouted,
         owed' \subseteq owed, outbox' \subseteq outbox, published' = published,
         open' = open, members' = members, bus' = bus, pipe' = pipe, live' = live
  PROVE  OwedToMembers' /\ OwedIsRouted'
  BY OwedKept DEF Routed, OnlySubscribes, ListenersOf

LEMMA OwedJoin ==
  ASSUME TypeOK, OwedToMembers, OwedIsRouted,
         NEW c \in Conns, NEW ch \in Channels, JoinChannel(c, ch)
  PROVE  OwedToMembers' /\ OwedIsRouted'
  <1>1. NodeOf[c] \in Nodes /\ c \in Listeners
    BY Kinds DEF Listeners
  <1>2. PICK chs \in SUBSET Channels : Issue(NodeOf[c], chs, "subscribe", c)
    BY DEF JoinChannel
  <1>3. /\ owed' = owed /\ outbox' = outbox /\ published' = published
        /\ open' = open /\ bus' = bus /\ live' = live
    BY DEF JoinChannel, traffic
  <1>4. \A m \in Nodes, k \in Channels : members[m][k] \subseteq members'[m][k]
    BY <1>1 DEF JoinChannel, TypeOK
  <1>5. \A o \in owed' : o[2] \in ListenersOf(o[1].channel) => o[2] \in ListenersOf(o[1].channel)'
    <2> SUFFICES ASSUME NEW o \in owed, o[2] \in ListenersOf(o[1].channel)
                 PROVE  o[2] \in ListenersOf(o[1].channel)'
      BY <1>3
    <2>1. o[2] \in Listeners /\ o[1].channel \in Channels /\ NodeOf[o[2]] \in Nodes
      BY OwedParts
    <2> QED
      BY <1>3, <1>4, <2>1 DEF ListenersOf
  <1>6. \A m \in Nodes, k \in Channels : Routed(m, k) => Routed(m, k)'
    BY <1>1, <1>2, <1>3, IssueOnly DEF Routed
  <1>7. \A o \in owed' : Routed(NodeOf[o[2]], o[1].channel) => Routed(NodeOf[o[2]], o[1].channel)'
    BY <1>3, <1>6, OwedParts
  <1> QED
    BY <1>3, <1>5, <1>7, OwedKept

LEMMA OwedBusSubscribe ==
  ASSUME TypeOK, OwedToMembers, OwedIsRouted,
         NEW h \in Handlers, NEW ch \in Channels, BusSubscribe(h, ch)
  PROVE  OwedToMembers' /\ OwedIsRouted'
  <1>1. NodeOf[h] \in Nodes /\ h \in Listeners
    BY Kinds DEF Listeners
  <1>2. PICK chs \in SUBSET Channels : Issue(NodeOf[h], chs, "subscribe", h)
    BY DEF BusSubscribe
  <1>3. /\ owed' = owed /\ outbox' = outbox /\ published' = published
        /\ open' = open /\ members' = members /\ live' = live
    BY DEF BusSubscribe, traffic
  <1>4. \A m \in Nodes, k \in Channels : bus[m][k] \subseteq bus'[m][k]
    BY <1>1 DEF BusSubscribe, TypeOK
  <1>5. \A o \in owed' : o[2] \in ListenersOf(o[1].channel) => o[2] \in ListenersOf(o[1].channel)'
    <2> SUFFICES ASSUME NEW o \in owed, o[2] \in ListenersOf(o[1].channel)
                 PROVE  o[2] \in ListenersOf(o[1].channel)'
      BY <1>3
    <2>1. o[2] \in Listeners /\ o[1].channel \in Channels /\ NodeOf[o[2]] \in Nodes
      BY OwedParts
    <2> QED
      BY <1>3, <1>4, <2>1 DEF ListenersOf
  <1>6. \A m \in Nodes, k \in Channels : Routed(m, k) => Routed(m, k)'
    BY <1>1, <1>2, <1>3, IssueOnly DEF Routed
  <1>7. \A o \in owed' : Routed(NodeOf[o[2]], o[1].channel) => Routed(NodeOf[o[2]], o[1].channel)'
    BY <1>3, <1>6, OwedParts
  <1> QED
    BY <1>3, <1>5, <1>7, OwedKept

\* A connection that leaves channels gives up what they owe it; for everybody else the
\* channel keeps a member, so the node does not give it back.
LEMMA OwedLeave ==
  ASSUME TypeOK, OwedToMembers, OwedIsRouted,
         NEW c \in Conns, NEW chs \in SUBSET Channels, LeaveChannels(c, chs),
         outbox' = outbox, published' = published, bus' = bus, live' = live,
         \A d \in open : d \in open' \/ (d = c /\ \A k \in Channels : c \in members[NodeOf[c]][k] => k \in chs)
  PROVE  OwedToMembers' /\ OwedIsRouted'
  <1> PICK n : n = NodeOf[c]
    OBVIOUS
  <1>1. n \in Nodes /\ c \in Listeners /\ NoOne \in Listeners \cup {NoOne}
    BY Kinds DEF Listeners
  <1> PICK gone : gone = {ch \in chs : members[n][ch] = {c} /\ bus[n][ch] = {}}
    OBVIOUS
  <1>2. Issue(n, gone, "unsubscribe", NoOne) /\ gone \in SUBSET Channels
    BY DEF LeaveChannels
  <1>7. \A m \in Nodes, k \in Channels :
          OnlySubscribes(m, k) /\ ~ (m = n /\ k \in gone) => OnlySubscribes(m, k)'
    BY <1>1, <1>2, IssueOnly
  <1>3. \A o : o \in owed' <=> o \in owed /\ ~ (o[2] = c /\ o[1].channel \in chs)
    BY DEF LeaveChannels
  <1>4. \A m \in Nodes, k \in Channels :
          members'[m][k] = IF m = n /\ k \in chs THEN members[m][k] \ {c} ELSE members[m][k]
    <2>1. Left(c, chs)
      BY LeaveLeft
    <2> QED
      BY <2>1 DEF Left
  <1>5. ASSUME NEW o \in owed' PROVE o[2] \in ListenersOf(o[1].channel)'
    <2>1. o \in owed /\ ~ (o[2] = c /\ o[1].channel \in chs)
      BY <1>3
    <2>2. o[2] \in Listeners /\ o[1].channel \in Channels /\ NodeOf[o[2]] \in Nodes
      BY <2>1, OwedParts
    <2>3. o[2] \in ListenersOf(o[1].channel)
      BY <2>1 DEF OwedToMembers
    <2>4. CASE o[2] \in Handlers
      <3>1. o[2] \in bus'[NodeOf[o[2]]][o[1].channel]
        BY <2>2, <2>3, <2>4, IsListener, Kinds
      <3> QED
        BY <2>4, <3>1 DEF ListenersOf
    <2>5. CASE o[2] \in Conns
      <3>1. o[2] \in open /\ o[2] \in members[NodeOf[o[2]]][o[1].channel]
        BY <2>2, <2>3, <2>5, IsListener, Kinds
      <3>2. o[2] \in members'[NodeOf[o[2]]][o[1].channel]
        BY <1>4, <2>1, <2>2, <3>1, ZenonT(60)
      <3>3. o[2] \in open'
        BY <2>1, <2>2, <3>1
      <3> QED
        BY <3>2, <3>3 DEF ListenersOf
    <2> QED
      BY <2>2, <2>4, <2>5, Kinds
  <1>6. ASSUME NEW o \in owed', Routed(NodeOf[o[2]], o[1].channel)
        PROVE  Routed(NodeOf[o[2]], o[1].channel)'
    <2>1. o \in owed /\ ~ (o[2] = c /\ o[1].channel \in chs)
      BY <1>3
    <2>2. o[2] \in Listeners /\ o[1].channel \in Channels /\ NodeOf[o[2]] \in Nodes
      BY <2>1, OwedParts
    <2>3. o[2] \in ListenersOf(o[1].channel)
      BY <2>1 DEF OwedToMembers
    <2>4. ~ (NodeOf[o[2]] = n /\ o[1].channel \in gone)
      BY <2>1, <2>2, <2>3, IsListener
    <2>5. OnlySubscribes(NodeOf[o[2]], o[1].channel)'
      BY <1>6, <1>7, <2>2, <2>4 DEF Routed
    <2> QED
      BY <1>6, <2>5 DEF Routed
  <1> QED
    BY <1>3, <1>5, <1>6, OwedKept

LEMMA OwedBusUnsubscribe ==
  ASSUME TypeOK, OwedToMembers, OwedIsRouted,
         NEW h \in Handlers, NEW ch \in Channels, BusUnsubscribe(h, ch)
  PROVE  OwedToMembers' /\ OwedIsRouted'
  <1> PICK n : n = NodeOf[h]
    OBVIOUS
  <1>1. n \in Nodes /\ h \in Listeners /\ NoOne \in Listeners \cup {NoOne}
    BY Kinds DEF Listeners
  <1> PICK gone : gone = IF bus[n][ch] = {h} /\ members[n][ch] = {} THEN {ch} ELSE {}
    OBVIOUS
  <1>2. Issue(n, gone, "unsubscribe", NoOne) /\ gone \in SUBSET Channels
    BY DEF BusUnsubscribe
  <1>7. \A m \in Nodes, k \in Channels :
          OnlySubscribes(m, k) /\ ~ (m = n /\ k \in gone) => OnlySubscribes(m, k)'
    BY <1>1, <1>2, IssueOnly
  <1>3. /\ \A o : o \in owed' <=> o \in owed /\ ~ (o[2] = h /\ o[1].channel = ch)
        /\ outbox' = outbox /\ published' = published /\ live' = live
        /\ open' = open /\ members' = members
    BY DEF BusUnsubscribe
  <1>4. \A m \in Nodes, k \in Channels :
          bus'[m][k] = IF m = n /\ k = ch THEN bus[m][k] \ {h} ELSE bus[m][k]
    BY <1>1 DEF BusUnsubscribe, TypeOK
  <1>5. ASSUME NEW o \in owed' PROVE o[2] \in ListenersOf(o[1].channel)'
    <2>1. o \in owed /\ ~ (o[2] = h /\ o[1].channel = ch)
      BY <1>3
    <2>2. o[2] \in Listeners /\ o[1].channel \in Channels /\ NodeOf[o[2]] \in Nodes
      BY <2>1, OwedParts
    <2>3. o[2] \in ListenersOf(o[1].channel)
      BY <2>1 DEF OwedToMembers
    <2>4. CASE o[2] \in Handlers
      <3>1. o[2] \in bus[NodeOf[o[2]]][o[1].channel]
        BY <2>2, <2>3, <2>4, IsListener, Kinds
      <3>2. o[2] \in bus'[NodeOf[o[2]]][o[1].channel]
        BY <1>4, <2>1, <2>2, <3>1
      <3> QED
        BY <2>4, <3>2 DEF ListenersOf
    <2>5. CASE o[2] \in Conns
      BY <1>3, <2>2, <2>3, <2>5, IsListener, Kinds DEF ListenersOf
    <2> QED
      BY <2>2, <2>4, <2>5, Kinds
  <1>6. ASSUME NEW o \in owed', Routed(NodeOf[o[2]], o[1].channel)
        PROVE  Routed(NodeOf[o[2]], o[1].channel)'
    <2>1. o \in owed /\ ~ (o[2] = h /\ o[1].channel = ch)
      BY <1>3
    <2>2. o[2] \in Listeners /\ o[1].channel \in Channels /\ NodeOf[o[2]] \in Nodes
      BY <2>1, OwedParts
    <2>3. o[2] \in ListenersOf(o[1].channel)
      BY <2>1 DEF OwedToMembers
    <2>4. ~ (NodeOf[o[2]] = n /\ o[1].channel \in gone)
      BY <2>1, <2>2, <2>3, IsListener
    <2>5. OnlySubscribes(NodeOf[o[2]], o[1].channel)'
      BY <1>6, <1>7, <2>2, <2>4 DEF Routed
    <2> QED
      BY <1>3, <1>6, <2>5 DEF Routed
  <1> QED
    BY <1>3, <1>5, <1>6, OwedKept

LEMMA StepOwed ==
  ASSUME TypeOK, Mirror, OwedToMembers, OwedIsRouted, [Next]_vars
  PROVE  OwedToMembers' /\ OwedIsRouted'
  <1>1. CASE UNCHANGED vars
    BY <1>1, OwedQuiet DEF vars, registry, command, traffic
  <1>2. ASSUME NEW c \in Conns, NEW ch \in Channels,
               SubscribeFrame(c, ch) \/ Denied(c, ch) \/ Respond(c, ch)
        PROVE  OwedToMembers' /\ OwedIsRouted'
    BY <1>2, OwedQuiet DEF SubscribeFrame, Denied, Respond, registry, command, traffic
  <1>3. ASSUME NEW c \in Conns, NEW ch \in Channels, UnsubscribeFrame(c, ch)
        PROVE  OwedToMembers' /\ OwedIsRouted'
    <2>1. /\ LeaveChannels(c, {ch}) /\ {ch} \in SUBSET Channels
          /\ outbox' = outbox /\ published' = published /\ bus' = bus /\ live' = live
          /\ open' = open
      BY <1>3 DEF UnsubscribeFrame, traffic
    <2> QED
      BY <2>1, OwedLeave
  <1>4. ASSUME NEW c \in Conns, SocketClosed(c)
        PROVE  OwedToMembers' /\ OwedIsRouted'
    <2>1. /\ LeaveChannels(c, channels[c]) /\ channels[c] \in SUBSET Channels
          /\ outbox' = outbox /\ published' = published /\ bus' = bus /\ live' = live
          /\ open' = open \ {c}
      BY <1>4 DEF SocketClosed, traffic, TypeOK
    <2>2. \A k \in Channels : c \in members[NodeOf[c]][k] => k \in channels[c]
      BY DEF Mirror
    <2> QED
      BY <2>1, <2>2, OwedLeave
  <1>5. ASSUME NEW n \in Nodes, NEW ch \in Channels, CommandApplied(n, ch)
        PROVE  OwedToMembers' /\ OwedIsRouted'
    <2>1. /\ pipe[n][ch] # <<>> /\ pipe' = [pipe EXCEPT ![n][ch] = Tail(@)]
          /\ owed' = owed /\ outbox' = outbox /\ published' = published
          /\ open' = open /\ members' = members /\ bus' = bus
      BY <1>5 DEF CommandApplied, registry, traffic
    <2>2. \A m \in Nodes, k \in Channels :
            k \in live[m] /\ (m = n /\ k = ch => Head(pipe[n][ch]).op = "subscribe") => k \in live'[m]
      BY <1>5 DEF CommandApplied, TypeOK
    <2>3. \A m \in Nodes, k \in Channels : Routed(m, k) => Routed(m, k)'
      BY <2>1, <2>2, PopOnly DEF Routed
    <2>4. \A o \in owed' : Routed(NodeOf[o[2]], o[1].channel) => Routed(NodeOf[o[2]], o[1].channel)'
      BY <2>1, <2>3, OwedParts
    <2>5. \A ch2 \in Channels : ListenersOf(ch2)' = ListenersOf(ch2)
      BY <2>1 DEF ListenersOf
    <2>6. \A o \in owed' : o[2] \in ListenersOf(o[1].channel) => o[2] \in ListenersOf(o[1].channel)'
      BY <2>1, <2>5, OwedParts
    <2> QED
      BY <2>1, <2>4, <2>6, OwedKept
  <1>6. ASSUME NEW n \in Nodes, NEW ch \in Channels, CommandFailed(n, ch)
        PROVE  OwedToMembers' /\ OwedIsRouted'
    <2>1. /\ pipe[n][ch] # <<>> /\ pipe' = [pipe EXCEPT ![n][ch] = Tail(@)]
          /\ owed' = owed /\ outbox' = outbox /\ published' = published
          /\ open' = open /\ members' = members /\ bus' = bus /\ live' = live
      BY <1>6 DEF CommandFailed, registry, traffic
    <2>3. \A m \in Nodes, k \in Channels : Routed(m, k) => Routed(m, k)'
      BY <2>1, PopOnly DEF Routed
    <2>4. \A o \in owed' : Routed(NodeOf[o[2]], o[1].channel) => Routed(NodeOf[o[2]], o[1].channel)'
      BY <2>1, <2>3, OwedParts
    <2>5. \A ch2 \in Channels : ListenersOf(ch2)' = ListenersOf(ch2)
      BY <2>1 DEF ListenersOf
    <2>6. \A o \in owed' : o[2] \in ListenersOf(o[1].channel) => o[2] \in ListenersOf(o[1].channel)'
      BY <2>1, <2>5, OwedParts
    <2> QED
      BY <2>1, <2>4, <2>6, OwedKept
  <1>7. ASSUME NEW n \in Nodes, NEW ch \in Channels, Publish(n, ch)
        PROVE  OwedToMembers' /\ OwedIsRouted'
    <2> PICK p : p = [id |-> published + 1, from |-> n, channel |-> ch]
      OBVIOUS
    <2>1. /\ p.id = published + 1 /\ p.from = n /\ p.channel = ch
          /\ published \in Nat /\ published' = published + 1
          /\ outbox' = outbox \cup {p}
          /\ open' = open /\ members' = members /\ bus' = bus /\ pipe' = pipe /\ live' = live
      BY <1>7 DEF Publish, TypeOK, registry, command
    <2>2. owed' = owed \cup {<<p, l>> : l \in {x \in ListenersOf(ch) \ bus[n][ch] :
                                                Established(NodeOf[x], ch)}}
      BY <1>7 DEF Publish
    <2>3. ASSUME NEW o \in owed'
          PROVE  \/ o \in owed
                 \/ /\ o[1] = p /\ o[2] \in ListenersOf(ch) /\ o[2] \notin bus[n][ch]
                    /\ Established(NodeOf[o[2]], ch)
      BY <2>2
    <2>4. \A ch2 : ListenersOf(ch2)' = ListenersOf(ch2)
      BY <2>1 DEF ListenersOf
    <2>5. ASSUME NEW o \in owed'
          PROVE  /\ o[1].id <= published'
                 /\ o[2] \in ListenersOf(o[1].channel)'
                 /\ o[2] \in Handlers => NodeOf[o[2]] # o[1].from
      <3>1. CASE o \in owed
        <4>1. o[1].id \in Nat
          BY <3>1, OwedParts
        <4> QED
          BY <2>1, <2>4, <3>1, <4>1 DEF OwedToMembers
      <3>2. CASE /\ o[1] = p /\ o[2] \in ListenersOf(ch) /\ o[2] \notin bus[n][ch]
        <4>1. o[2] \in Listeners
          BY <3>2 DEF ListenersOf, Listeners, TypeOK
        <4>2. o[2] \in Handlers => NodeOf[o[2]] # n
          BY <3>2, <4>1, IsListener, Kinds
        <4> QED
          BY <2>1, <2>4, <3>2, <4>2
      <3> QED
        BY <2>3, <3>1, <3>2
    <2>6. ASSUME NEW o \in owed', o[1] \in outbox'
          PROVE  o[1].channel \in live'[NodeOf[o[2]]] /\ OnlySubscribes(NodeOf[o[2]], o[1].channel)'
      <3>1. CASE o \in owed
        <4>1. o[1].id \in Nat /\ o[1].id <= published
          BY <3>1, OwedParts DEF OwedToMembers
        <4>2. o[1] \in outbox
          BY <2>1, <2>6, <4>1
        <4> QED
          BY <2>1, <3>1, <4>2 DEF OwedIsRouted, OnlySubscribes
      <3>2. CASE o[1] = p /\ Established(NodeOf[o[2]], ch)
        BY <2>1, <3>2, EmptySeq DEF Established, OnlySubscribes
      <3> QED
        BY <2>3, <3>1, <3>2
    <2> QED
      BY <2>5, <2>6 DEF OwedToMembers, OwedIsRouted
  <1>8. ASSUME NEW p \in outbox, Route(p) \/ PublishFailed(p)
        PROVE  OwedToMembers' /\ OwedIsRouted'
    BY <1>8, OwedQuiet DEF Route, PublishFailed, registry, command
  <1>9. ASSUME NEW n \in Nodes, NEW p \in inbox[n], Receive(n, p)
        PROVE  OwedToMembers' /\ OwedIsRouted'
    BY <1>9, OwedQuiet DEF Receive, registry, command
  <1>10. ASSUME NEW n \in Nodes, NEW p \in validating[n], DeliverBus(n, p)
         PROVE  OwedToMembers' /\ OwedIsRouted'
    BY <1>10, OwedQuiet DEF DeliverBus, registry, command
  <1>11. ASSUME NEW n \in Nodes, NEW p \in validating[n], FrameRefused(n, p)
         PROVE  OwedToMembers' /\ OwedIsRouted'
    BY <1>11, OwedQuiet DEF FrameRefused, registry, command
  <1> QED
    BY <1>1, <1>2, <1>3, <1>4, <1>5, <1>6, <1>7, <1>8, <1>9, <1>10, <1>11,
       OwedJoin, OwedBusSubscribe, OwedBusUnsubscribe DEF Next

-----------------------------------------------------------------------------
(* What is owed is coming, or has arrived.                                 *)

\* A step that delivers nothing and takes nothing off its way.
LEMMA ComesQuiet ==
  ASSUME TypeOK, OwedComes, owed' \subseteq owed,
         outbox' = outbox, inbox' = inbox, validating' = validating, delivered' = delivered
  PROVE  OwedComes'
  BY DEF OwedComes, Coming

\* A delivery that stays within one per listener leaves what was delivered as it is.
LEMMA DeliveredStays ==
  ASSUME TypeOK, AtMostOnce', NEW p \in Publication, NEW ls, delivered' = Deliver(p, ls),
         NEW i \in 1..MaxPublications, NEW l \in Listeners
  PROVE  /\ delivered[i][l] = 1 => delivered'[i][l] = 1
         /\ i = p.id /\ l \in ls => delivered'[i][l] = 1
  BY DeliverCounts DEF AtMostOnce

LEMMA StepComes ==
  ASSUME TypeOK, TypeOK', HandlersAtHome, Frames, Frames', OwedToMembers, OwedIsRouted, OwedComes,
         [Next]_vars
  PROVE  OwedComes'
  <1>1. CASE UNCHANGED vars
    BY <1>1, ComesQuiet DEF vars, traffic
  <1>2. ASSUME NEW c \in Conns, NEW ch \in Channels,
               \/ SubscribeFrame(c, ch) \/ Denied(c, ch) \/ JoinChannel(c, ch)
               \/ Respond(c, ch) \/ UnsubscribeFrame(c, ch)
        PROVE  OwedComes'
    BY <1>2, ComesQuiet DEF SubscribeFrame, Denied, JoinChannel, Respond, UnsubscribeFrame,
                            LeaveChannels, traffic
  <1>3. ASSUME NEW c \in Conns, SocketClosed(c) PROVE OwedComes'
    BY <1>3, ComesQuiet DEF SocketClosed, LeaveChannels, traffic
  <1>4. ASSUME NEW h \in Handlers, NEW ch \in Channels, BusSubscribe(h, ch) PROVE OwedComes'
    BY <1>4, ComesQuiet DEF BusSubscribe, traffic
  <1>5. ASSUME NEW n \in Nodes, NEW ch \in Channels, CommandApplied(n, ch) \/ CommandFailed(n, ch)
        PROVE  OwedComes'
    BY <1>5, ComesQuiet DEF CommandApplied, CommandFailed, traffic
  <1>6. ASSUME NEW h \in Handlers, NEW ch \in Channels, BusUnsubscribe(h, ch) PROVE OwedComes'
    <2> PICK n : n = NodeOf[h]
      OBVIOUS
    <2>1. n \in Nodes
      BY Kinds DEF Listeners
    <2>2. /\ \A o : o \in owed' <=> o \in owed /\ ~ (o[2] = h /\ o[1].channel = ch)
          /\ outbox' = outbox /\ inbox' = inbox /\ delivered' = delivered
          /\ \A m \in Nodes : \A p \in validating[m] :
               p \in validating'[m] \/ (m = n /\ bus[n][ch] = {h} /\ p.channel = ch)
      BY <1>6, <2>1 DEF BusUnsubscribe, TypeOK
    <2> SUFFICES ASSUME NEW o \in owed', Coming(o[1], o[2])
                 PROVE  Coming(o[1], o[2])'
      BY <2>2 DEF OwedComes
    <2>3. o \in owed /\ ~ (o[2] = h /\ o[1].channel = ch)
      BY <2>2
    <2>4. o[2] \in Listeners /\ o[1].channel \in Channels /\ NodeOf[o[2]] \in Nodes
      BY <2>3, OwedParts
    <2>5. o[2] \in Handlers => o[2] \in bus[NodeOf[o[2]]][o[1].channel]
      BY <2>3, <2>4, IsListener, Kinds DEF OwedToMembers
    <2>6. o[2] \in Handlers /\ o[1] \in validating[NodeOf[o[2]]] => o[1] \in validating'[NodeOf[o[2]]]
      BY <2>2, <2>3, <2>4, <2>5
    <2> QED
      BY <2>2, <2>6 DEF Coming
  <1>7. ASSUME NEW n \in Nodes, NEW ch \in Channels, Publish(n, ch) PROVE OwedComes'
    <2> PICK p : p = [id |-> published + 1, from |-> n, channel |-> ch]
      OBVIOUS
    <2>1. /\ p.from = n /\ outbox' = outbox \cup {p} /\ inbox' = inbox
          /\ validating' = validating /\ delivered' = Deliver(p, bus[n][ch])
      BY <1>7 DEF Publish
    <2>2. p \in Publication
      BY <2>1, <1>7 DEF TypeOK
    <2>3. owed' = owed \cup {<<p, l>> : l \in {x \in ListenersOf(ch) \ bus[n][ch] :
                                                Established(NodeOf[x], ch)}}
      BY <1>7 DEF Publish
    <2> SUFFICES ASSUME NEW o \in owed'
                 PROVE  (Coming(o[1], o[2]) \/ delivered[o[1].id][o[2]] = 1)'
      BY DEF OwedComes
    <2>4. CASE o \in owed
      <3>1. Coming(o[1], o[2]) => Coming(o[1], o[2])'
        BY <2>1 DEF Coming
      <3>2. o[1].id \in 1..MaxPublications /\ o[2] \in Listeners
        BY <2>4, OwedParts
      <3>3. delivered[o[1].id][o[2]] = 1 => delivered'[o[1].id][o[2]] = 1
        BY <2>1, <2>2, <3>2, DeliveredStays DEF Frames
      <3> QED
        BY <2>4, <3>1, <3>3 DEF OwedComes
    <2>5. CASE o[1] = p /\ o[2] \in ListenersOf(ch) /\ o[2] \notin bus[n][ch]
      <3>1. o[2] \in Listeners
        BY <2>5 DEF ListenersOf, Listeners, TypeOK
      <3>2. o[2] \in Handlers => NodeOf[o[2]] # n
        BY <1>7, <2>5, <3>1, IsListener, Kinds
      <3> QED
        BY <2>1, <2>5, <3>2 DEF Coming
    <2> QED
      BY <2>3, <2>4, <2>5
  <1>8. ASSUME NEW p \in outbox, Route(p) PROVE OwedComes'
    <2>1. /\ owed' = owed /\ outbox' = outbox \ {p} /\ validating' = validating
          /\ delivered' = delivered
          /\ \A m \in Nodes : inbox'[m] = IF p.channel \in live[m] THEN inbox[m] \cup {p} ELSE inbox[m]
      BY <1>8 DEF Route
    <2> SUFFICES ASSUME NEW o \in owed, Coming(o[1], o[2])
                 PROVE  Coming(o[1], o[2])'
      BY <2>1 DEF OwedComes
    <2>2. NodeOf[o[2]] \in Nodes
      BY OwedParts
    <2>3. o[1] = p => o[1].channel \in live[NodeOf[o[2]]]
      BY DEF OwedIsRouted
    <2> QED
      BY <2>1, <2>2, <2>3 DEF Coming
  <1>9. ASSUME NEW p \in outbox, PublishFailed(p) PROVE OwedComes'
    <2>1. /\ \A o : o \in owed' <=> o \in owed /\ o[1] # p
          /\ outbox' = outbox \ {p} /\ inbox' = inbox /\ validating' = validating
          /\ delivered' = delivered
      BY <1>9 DEF PublishFailed
    <2> QED
      BY <2>1 DEF OwedComes, Coming
  <1>10. ASSUME NEW n \in Nodes, NEW p \in inbox[n], Receive(n, p) PROVE OwedComes'
    <2> PICK ls : ls = members[n][p.channel] \cap open
      OBVIOUS
    <2>1. /\ p \in Publication /\ p \in inbox[n] /\ owed' = owed /\ outbox' = outbox
          /\ delivered' = Deliver(p, ls)
      BY <1>10 DEF Receive, TypeOK
    <2>2. \A m \in Nodes : \A q : q \in inbox[m] => q \in inbox'[m] \/ (m = n /\ q = p)
      BY <1>10 DEF Receive, TypeOK
    <2>3. /\ \A m \in Nodes : validating[m] \subseteq validating'[m]
          /\ bus[n][p.channel] # {} /\ p.from # n => p \in validating'[n]
      BY <1>10 DEF Receive, TypeOK
    <2> SUFFICES ASSUME NEW o \in owed
                 PROVE  (Coming(o[1], o[2]) \/ delivered[o[1].id][o[2]] = 1)'
      BY <2>1 DEF OwedComes
    <2>4. /\ o[1].id \in 1..MaxPublications /\ o[2] \in Listeners /\ NodeOf[o[2]] \in Nodes
          /\ o[1].channel \in Channels
      BY OwedParts
    <2>5. CASE delivered[o[1].id][o[2]] = 1
      BY <2>1, <2>4, <2>5, DeliveredStays DEF Frames
    <2>6. CASE Coming(o[1], o[2]) /\ ~ (o[1] = p /\ NodeOf[o[2]] = n)
      BY <2>1, <2>2, <2>3, <2>4, <2>6 DEF Coming
    <2>7. CASE Coming(o[1], o[2]) /\ o[1] = p /\ NodeOf[o[2]] = n
      <3>1. o[2] \in ListenersOf(p.channel)
        BY <2>7 DEF OwedToMembers
      <3>2. CASE o[2] \in Conns
        <4>1. o[2] \in ls
          BY <2>4, <2>7, <3>1, <3>2, IsListener, Kinds
        <4> QED
          BY <2>1, <2>4, <2>7, <4>1, DeliveredStays DEF Frames
      <3>3. CASE o[2] \in Handlers
        <4>1. bus[n][p.channel] # {}
          BY <2>4, <2>7, <3>1, <3>3, IsListener, Kinds
        <4>2. p.from # n
          BY <2>7, <3>3 DEF OwedToMembers
        <4> QED
          BY <2>3, <2>7, <3>3, <4>1, <4>2 DEF Coming
      <3> QED
        BY <2>4, <3>2, <3>3, Kinds
    <2> QED
      BY <2>5, <2>6, <2>7 DEF OwedComes
  <1>11. ASSUME NEW n \in Nodes, NEW p \in validating[n], DeliverBus(n, p) PROVE OwedComes'
    <2> PICK ls : ls = bus[n][p.channel]
      OBVIOUS
    <2>1. /\ p \in Publication /\ p \in validating[n] /\ owed' = owed /\ outbox' = outbox
          /\ inbox' = inbox /\ delivered' = Deliver(p, ls)
      BY <1>11 DEF DeliverBus, TypeOK
    <2>2. \A m \in Nodes : \A q : q \in validating[m] => q \in validating'[m] \/ (m = n /\ q = p)
      BY <1>11 DEF DeliverBus, TypeOK
    <2> SUFFICES ASSUME NEW o \in owed
                 PROVE  (Coming(o[1], o[2]) \/ delivered[o[1].id][o[2]] = 1)'
      BY <2>1 DEF OwedComes
    <2>3. /\ o[1].id \in 1..MaxPublications /\ o[2] \in Listeners /\ NodeOf[o[2]] \in Nodes
          /\ o[1].channel \in Channels
      BY OwedParts
    <2>4. CASE delivered[o[1].id][o[2]] = 1
      BY <2>1, <2>3, <2>4, DeliveredStays DEF Frames
    <2>5. CASE Coming(o[1], o[2]) /\ ~ (o[2] \in Handlers /\ o[1] = p /\ NodeOf[o[2]] = n)
      BY <2>1, <2>2, <2>3, <2>5 DEF Coming
    <2>6. CASE o[2] \in Handlers /\ o[1] = p /\ NodeOf[o[2]] = n
      <3>1. o[2] \in ls
        BY <2>3, <2>6, IsListener, Kinds DEF OwedToMembers
      <3> QED
        BY <2>1, <2>3, <2>6, <3>1, DeliveredStays DEF Frames
    <2> QED
      BY <2>4, <2>5, <2>6 DEF OwedComes
  <1>12. ASSUME NEW n \in Nodes, NEW p \in validating[n], FrameRefused(n, p) PROVE OwedComes'
    <2>1. /\ \A o \in owed' : o \in owed /\ ~ (o[1] = p /\ o[2] \in Handlers /\ NodeOf[o[2]] = n)
          /\ outbox' = outbox /\ inbox' = inbox /\ delivered' = delivered
      BY <1>12 DEF FrameRefused
    <2>2. \A m \in Nodes : \A q : q \in validating[m] => q \in validating'[m] \/ (m = n /\ q = p)
      BY <1>12 DEF FrameRefused, TypeOK
    <2> SUFFICES ASSUME NEW o \in owed'
                 PROVE  (Coming(o[1], o[2]) \/ delivered[o[1].id][o[2]] = 1)'
      BY DEF OwedComes
    <2>3. /\ o \in owed /\ NodeOf[o[2]] \in Nodes
          /\ Coming(o[1], o[2]) \/ delivered[o[1].id][o[2]] = 1
      BY <2>1, OwedParts DEF OwedComes
    <2> QED
      BY <2>1, <2>2, <2>3 DEF Coming
  <1> QED
    BY <1>1, <1>2, <1>3, <1>4, <1>5, <1>6, <1>7, <1>8, <1>9, <1>10, <1>11, <1>12 DEF Next

-----------------------------------------------------------------------------
LEMMA InitDelivery == Init => DInv
  <1> SUFFICES ASSUME Init PROVE DInv
    OBVIOUS
  <1>1. \A l \in Listeners : NodeOf[l] \in Nodes
    BY Kinds
  <1>2. TypeOK
    BY InitType
  <1>3. Mirror /\ HandlersAtHome /\ MembersAtHome
    BY <1>1 DEF Init, Mirror, HandlersAtHome, MembersAtHome, Listeners
  <1>4. \A p : ~ UnderWay(p)
    BY DEF Init, UnderWay
  <1>5. NumberedOnce /\ OnePlace
    BY <1>4 DEF NumberedOnce, OnePlace, UnderWay
  <1>6. \A i \in 1..MaxPublications, l \in Listeners : delivered[i][l] = 0
    BY DEF Init
  <1>7. NotYetDelivered /\ AtMostOnce
    BY <1>6 DEF NotYetDelivered, AtMostOnce, Publication
  <1>8. OwedToMembers /\ OwedIsRouted /\ OwedComes
    BY DEF Init, OwedToMembers, OwedIsRouted, OwedComes
  <1> QED
    BY <1>2, <1>3, <1>5, <1>7, <1>8 DEF DInv, Frames

LEMMA StepDelivery == DInv /\ [Next]_vars => DInv'
  <1> SUFFICES ASSUME DInv, [Next]_vars PROVE DInv'
    OBVIOUS
  <1>1. TypeOK' /\ Mirror' /\ HandlersAtHome' /\ MembersAtHome'
    BY StepType, StepMirror, StepHome, StepMembersHome DEF DInv
  <1>2. Frames'
    BY StepFrames DEF DInv
  <1>3. OwedToMembers' /\ OwedIsRouted'
    BY StepOwed DEF DInv
  <1>4. OwedComes'
    BY <1>1, <1>2, StepComes DEF DInv
  <1> QED
    BY <1>1, <1>2, <1>3, <1>4 DEF DInv

LEMMA OwedArrives == DInv => OwedIsDelivered
  BY DEF DInv, OwedComes, Coming, OwedIsDelivered

\* No connection and no bus handler is given a publication twice, although the publishing
\* node both calls its handlers at once and gets its own frame back from the adapter.
THEOREM DeliveredAtMostOnce == Spec => []AtMostOnce
  <1>1. DInv => AtMostOnce
    BY DEF DInv, Frames
  <1> QED
    BY <1>1, InitDelivery, StepDelivery, PTL DEF Spec

\* A publication issued while a member's channel is established at the broker is on its way
\* to that member or has reached it, whatever joins, leaves and failed commands come between.
THEOREM OwedDelivered == Spec => []OwedIsDelivered
  BY InitDelivery, StepDelivery, OwedArrives, PTL DEF Spec
=============================================================================
