----------------------- MODULE ChannelRegistryProofs -----------------------
(***************************************************************************)
(* The channel registry, for every set of nodes, connections, handlers and *)
(* channels: the types, and that the adapter subscription of a node is     *)
(* what its members and bus handlers need.                                 *)
(***************************************************************************)
EXTENDS ChannelRegistry, SequenceTheorems, TLAPS

\* conn.channels and `members` are the two sides of one relation, which is what lets the
\* close handler find every membership.
Mirror ==
  \A c \in Conns, ch \in Channels :
    c \in members[NodeOf[c]][ch] <=> ch \in channels[c]

\* Only an open connection wants a channel, and a join it still wants has registered it.
Joined(c, ch) ==
  /\ c \in open
  /\ task[c][ch] \in {"joining", "joined"} => c \in members[NodeOf[c]][ch]

JoinsAreMembers == \A c \in Conns, ch \in Channels : ch \in wanted[c] => Joined(c, ch)

\* Who holds an acknowledgement is a member.
AckedAreListeners == \A l \in Listeners : \A ch \in acked[l] : l \in ListenersOf(ch)

\* The bus handlers of a node are its own.
HandlersAtHome ==
  \A n \in Nodes, ch \in Channels : \A h \in bus[n][ch] : NodeOf[h] = n

\* A connection an adapter command will answer waits for that command, and for no other.
AnswersAwaited ==
  \A n \in Nodes, ch \in Channels : \A i \in 1..Len(pipe[n][ch]) :
    pipe[n][ch][i].by \in Conns =>
      /\ task[pipe[n][ch][i].by][ch] = "joining"
      /\ NodeOf[pipe[n][ch][i].by] = n
      /\ \A j \in 1..Len(pipe[n][ch]) : pipe[n][ch][j].by = pipe[n][ch][i].by => j = i

IInv == /\ TypeOK /\ SubscriptionTracksInterest /\ Mirror /\ HandlersAtHome
        /\ JoinsAreMembers /\ AckedAreListeners /\ AnswersAwaited

-----------------------------------------------------------------------------
(* What one adapter command does to the request the node has outstanding.  *)

\* What joins a sequence at its end is its last element.
LEMMA AppendIsLast ==
  ASSUME NEW s \in Seq(Command), NEW x \in Command
  PROVE  /\ Append(s, x) \in Seq(Command)
         /\ Append(s, x) # <<>>
         /\ Append(s, x)[Len(Append(s, x))] = x
  <1>1. /\ Append(s, x) \in Seq(Command)
        /\ Len(Append(s, x)) = Len(s) + 1
        /\ Append(s, x)[Len(s) + 1] = x
    OBVIOUS
  <1> QED
    BY <1>1

\* What Issue does to the pipes and the drift of every node, element by element.
Issued(n, chs, op, who) ==
  /\ pipe' \in [Nodes -> [Channels -> Seq(Command)]]
  /\ drift' \in [Nodes -> SUBSET Channels]
  /\ \A m \in Nodes, ch \in Channels :
       ch \in drift'[m] <=> ch \in drift[m] /\ ~ (m = n /\ ch \in chs)
  /\ \A m \in Nodes, ch \in Channels : ~ (m = n /\ ch \in chs) => pipe'[m][ch] = pipe[m][ch]
  /\ \A ch \in chs : pipe'[n][ch] # <<>> /\ LastOp(pipe'[n][ch]) = op

\* Issue puts its command last on every channel it names, and touches nothing else.
LEMMA IssueIsLast ==
  ASSUME TypeOK, NEW n \in Nodes, NEW chs \in SUBSET Channels,
         NEW op \in {"subscribe", "unsubscribe"}, NEW who \in Listeners \cup {NoOne},
         Issue(n, chs, op, who)
  PROVE  Issued(n, chs, op, who)
  <1> DEFINE cmd == [op |-> op, by |-> who]
  <1>0. cmd.op = op
    OBVIOUS
  <1>1. cmd \in Command
    BY DEF Command
  <1>2. pipe' = [pipe EXCEPT ![n] = [ch \in Channels |->
                   IF ch \in chs THEN Append(@[ch], cmd) ELSE @[ch]]]
    BY DEF Issue
  <1> HIDE DEF cmd
  <1>3. \A ch \in Channels : /\ Append(pipe[n][ch], cmd) \in Seq(Command)
                             /\ Append(pipe[n][ch], cmd) # <<>>
                             /\ Append(pipe[n][ch], cmd)[Len(Append(pipe[n][ch], cmd))] = cmd
    BY <1>1, AppendIsLast, ZenonT(60) DEF TypeOK
  <1>4. \A m \in Nodes, ch \in Channels :
          pipe'[m][ch] = IF m = n /\ ch \in chs THEN Append(pipe[n][ch], cmd) ELSE pipe[m][ch]
    BY <1>2 DEF TypeOK
  <1>5. pipe' \in [Nodes -> [Channels -> Seq(Command)]]
    BY <1>2, <1>3 DEF TypeOK
  <1>6. /\ drift' \in [Nodes -> SUBSET Channels]
        /\ \A m \in Nodes, ch \in Channels :
             ch \in drift'[m] <=> ch \in drift[m] /\ ~ (m = n /\ ch \in chs)
    BY DEF Issue, TypeOK
  <1>7. \A ch \in chs : pipe'[n][ch] # <<>> /\ LastOp(pipe'[n][ch]) = op
    BY <1>0, <1>3, <1>4 DEF LastOp
  <1>8. \A m \in Nodes, ch \in Channels : ~ (m = n /\ ch \in chs) => pipe'[m][ch] = pipe[m][ch]
    BY <1>4
  <1> QED
    BY <1>5, <1>6, <1>7, <1>8 DEF Issued

\* Taking the first command off a pipe leaves its last command the last.
LEMMA TailKeepsLast ==
  ASSUME NEW s \in Seq(Command), s # <<>>
  PROVE  /\ Tail(s) \in Seq(Command)
         /\ Head(s) \in Command
         /\ Len(s) = 1 => Tail(s) = <<>> /\ s[Len(s)] = Head(s)
         /\ Len(s) # 1 => Tail(s) # <<>> /\ Tail(s)[Len(Tail(s))] = s[Len(s)]
  <1>0. \A t \in Seq(Command) : t # <<>> => Len(t) \in Nat \ {0}
    BY EmptySeq
  <1>1. /\ Len(s) \in Nat /\ Len(s) # 0
        /\ Tail(s) \in Seq(Command) /\ Len(Tail(s)) = Len(s) - 1
        /\ Head(s) = s[1] /\ Head(s) \in Command
    BY <1>0, HeadTailProperties
  <1>2. \A i \in 1..Len(Tail(s)) : Tail(s)[i] = s[i + 1]
    BY <1>1, HeadTailProperties
  <1>3. ASSUME Len(s) = 1 PROVE Tail(s) = <<>> /\ s[Len(s)] = Head(s)
    <2>1. Len(Tail(s)) = 0
      BY <1>1, <1>3
    <2>2. Tail(s) = <<>>
      BY <1>0, <1>1, <2>1
    <2> QED
      BY <1>1, <1>3, <2>2
  <1>4. ASSUME Len(s) # 1 PROVE Tail(s) # <<>> /\ Tail(s)[Len(Tail(s))] = s[Len(s)]
    <2>1. Len(Tail(s)) \in 1..Len(Tail(s)) /\ Len(Tail(s)) # 0
      BY <1>1, <1>4
    <2>2. Tail(s) # <<>>
      <3>1. Len(<<>>) = 0
        BY EmptySeq
      <3> QED
        BY <2>1, <3>1
    <2>3. Tail(s)[Len(Tail(s))] = s[Len(Tail(s)) + 1]
      BY <1>2, <2>1
    <2>4. Len(Tail(s)) + 1 = Len(s)
      BY <1>1
    <2> QED
      BY <2>2, <2>3, <2>4
  <1> QED
    BY <1>1, <1>3, <1>4

-----------------------------------------------------------------------------
(* Types.                                                                  *)

LEMMA InitType == Init => TypeOK
  BY RegistryConstants, EmptySeq DEF Init, TypeOK

\* Leaving keeps the types of everything it assigns.
LEMMA LeaveType ==
  ASSUME TypeOK, NEW c \in Conns, NEW chs \in SUBSET Channels, LeaveChannels(c, chs)
  PROVE  /\ channels' \in [Conns -> SUBSET Channels]
         /\ members' \in [Nodes -> [Channels -> SUBSET Conns]]
         /\ pipe' \in [Nodes -> [Channels -> Seq(Command)]]
         /\ drift' \in [Nodes -> SUBSET Channels]
         /\ acked' \in [Listeners -> SUBSET Channels]
         /\ owed' \subseteq Publication \X Listeners
  <1>1. NodeOf[c] \in Nodes /\ c \in Listeners
    BY RegistryConstants DEF Listeners
  <1>2. PICK chs2 \in SUBSET Channels : Issue(NodeOf[c], chs2, "unsubscribe", NoOne)
    BY DEF LeaveChannels
  <1>3. /\ pipe' \in [Nodes -> [Channels -> Seq(Command)]]
        /\ drift' \in [Nodes -> SUBSET Channels]
    BY <1>1, <1>2, IssueIsLast DEF Issued
  <1>4. channels' \in [Conns -> SUBSET Channels]
    BY DEF LeaveChannels, TypeOK
  <1>5. members' \in [Nodes -> [Channels -> SUBSET Conns]]
    BY <1>1 DEF LeaveChannels, TypeOK
  <1>6. acked' \in [Listeners -> SUBSET Channels]
    BY <1>1 DEF LeaveChannels, TypeOK
  <1>7. owed' \subseteq Publication \X Listeners
    BY DEF LeaveChannels, TypeOK
  <1> QED
    BY <1>3, <1>4, <1>5, <1>6, <1>7

\* Delivering counts for the listeners given, each once.
LEMMA DeliverType ==
  ASSUME TypeOK, NEW p \in Publication, NEW ls
  PROVE  Deliver(p, ls) \in [1..MaxPublications -> [Listeners -> Nat]]
  <1>1. p.id \in 1..MaxPublications
    BY DEF Publication
  <1>2. \A l \in Listeners : delivered[p.id][l] \in Nat
    BY <1>1 DEF TypeOK
  <1> QED
    BY <1>1, <1>2 DEF TypeOK, Deliver

LEMMA StepType == TypeOK /\ [Next]_vars => TypeOK'
  <1> SUFFICES ASSUME TypeOK, [Next]_vars PROVE TypeOK'
    OBVIOUS
  <1> USE RegistryConstants
  <1>1. ASSUME NEW c \in Conns, NEW ch \in Channels, SubscribeFrame(c, ch) PROVE TypeOK'
    BY <1>1 DEF SubscribeFrame, TypeOK, registry, command, traffic
  <1>2. ASSUME NEW c \in Conns, NEW ch \in Channels, Denied(c, ch) PROVE TypeOK'
    BY <1>2 DEF Denied, TypeOK, registry, command, traffic
  <1>3. ASSUME NEW c \in Conns, NEW ch \in Channels, JoinChannel(c, ch) PROVE TypeOK'
    <2>1. NodeOf[c] \in Nodes /\ c \in Listeners
      BY DEF Listeners
    <2>2. PICK chs \in SUBSET Channels : Issue(NodeOf[c], chs, "subscribe", c)
      BY <1>3 DEF JoinChannel
    <2>3. /\ pipe' \in [Nodes -> [Channels -> Seq(Command)]]
          /\ drift' \in [Nodes -> SUBSET Channels]
      BY <2>1, <2>2, IssueIsLast DEF Issued
    <2>4. /\ channels' \in [Conns -> SUBSET Channels]
          /\ members' \in [Nodes -> [Channels -> SUBSET Conns]]
      BY <1>3, <2>1 DEF JoinChannel, TypeOK
    <2>5. task' \in [Conns -> [Channels -> {"idle", "deciding", "joining", "joined"}]]
      BY <1>3 DEF JoinChannel, TypeOK
    <2> QED
      BY <1>3, <2>3, <2>4, <2>5 DEF JoinChannel, TypeOK, traffic
  <1>4. ASSUME NEW c \in Conns, NEW ch \in Channels, Respond(c, ch) PROVE TypeOK'
    BY <1>4 DEF Respond, TypeOK, registry, command, traffic, Listeners
  <1>5. ASSUME NEW c \in Conns, NEW ch \in Channels, UnsubscribeFrame(c, ch) PROVE TypeOK'
    BY <1>5, LeaveType DEF UnsubscribeFrame, TypeOK, traffic
  <1>6. ASSUME NEW c \in Conns, SocketClosed(c) PROVE TypeOK'
    <2>1. channels[c] \in SUBSET Channels
      BY DEF TypeOK
    <2> QED
      BY <1>6, <2>1, LeaveType DEF SocketClosed, TypeOK, traffic
  <1>7. ASSUME NEW h \in Handlers, NEW ch \in Channels, BusSubscribe(h, ch) PROVE TypeOK'
    <2>1. NodeOf[h] \in Nodes /\ h \in Listeners
      BY DEF Listeners
    <2>2. PICK chs \in SUBSET Channels : Issue(NodeOf[h], chs, "subscribe", h)
      BY <1>7 DEF BusSubscribe
    <2>3. /\ pipe' \in [Nodes -> [Channels -> Seq(Command)]]
          /\ drift' \in [Nodes -> SUBSET Channels]
      BY <2>1, <2>2, IssueIsLast DEF Issued
    <2> QED
      BY <1>7, <2>1, <2>3, ZenonT(60) DEF BusSubscribe, TypeOK, traffic
  <1>8. ASSUME NEW h \in Handlers, NEW ch \in Channels, BusUnsubscribe(h, ch) PROVE TypeOK'
    <2>1. NodeOf[h] \in Nodes /\ h \in Listeners
      BY DEF Listeners
    <2>2. PICK chs \in SUBSET Channels : Issue(NodeOf[h], chs, "unsubscribe", NoOne)
      BY <1>8 DEF BusUnsubscribe
    <2>3. /\ pipe' \in [Nodes -> [Channels -> Seq(Command)]]
          /\ drift' \in [Nodes -> SUBSET Channels]
      BY <2>1, <2>2, IssueIsLast DEF Issued
    <2> QED
      BY <1>8, <2>1, <2>3, ZenonT(60) DEF BusUnsubscribe, TypeOK
  <1>9. ASSUME NEW n \in Nodes, NEW ch \in Channels, CommandApplied(n, ch) PROVE TypeOK'
    <2>1. Head(pipe[n][ch]) \in Command /\ Tail(pipe[n][ch]) \in Seq(Command)
      BY <1>9, TailKeepsLast DEF CommandApplied, TypeOK
    <2> QED
      BY <1>9, <2>1, ZenonT(60) DEF CommandApplied, TypeOK, registry, traffic, Command, Listeners
  <1>10. ASSUME NEW n \in Nodes, NEW ch \in Channels, CommandFailed(n, ch) PROVE TypeOK'
    <2>1. Head(pipe[n][ch]) \in Command /\ Tail(pipe[n][ch]) \in Seq(Command)
      BY <1>10, TailKeepsLast DEF CommandFailed, TypeOK
    <2> QED
      BY <1>10, <2>1 DEF CommandFailed, TypeOK, registry, traffic
  <1>11. ASSUME NEW n \in Nodes, NEW ch \in Channels, Publish(n, ch) PROVE TypeOK'
    <2> DEFINE p == [id |-> published + 1, from |-> n, channel |-> ch]
    <2>1. p \in Publication
      BY <1>11 DEF Publish, TypeOK, Publication
    <2>2. Deliver(p, bus[n][ch]) \in [1..MaxPublications -> [Listeners -> Nat]]
      BY <2>1, DeliverType
    <2>3. ListenersOf(ch) \subseteq Listeners
      BY DEF ListenersOf, Listeners, TypeOK
    <2> QED
      BY <1>11, <2>1, <2>2, <2>3 DEF Publish, TypeOK, registry, command
  <1>12. ASSUME NEW p \in outbox, Route(p) PROVE TypeOK'
    BY <1>12 DEF Route, TypeOK, registry, command
  <1>13. ASSUME NEW p \in outbox, PublishFailed(p) PROVE TypeOK'
    BY <1>13 DEF PublishFailed, TypeOK, registry, command
  <1>14. ASSUME NEW n \in Nodes, NEW p \in inbox[n], Receive(n, p) PROVE TypeOK'
    <2>1. p \in Publication
      BY DEF TypeOK
    <2>2. delivered' \in [1..MaxPublications -> [Listeners -> Nat]]
      BY <1>14, <2>1, DeliverType DEF Receive
    <2> QED
      BY <1>14, <2>1, <2>2 DEF Receive, TypeOK, registry, command
  <1>15. ASSUME NEW n \in Nodes, NEW p \in validating[n], DeliverBus(n, p) PROVE TypeOK'
    <2>1. p \in Publication
      BY DEF TypeOK
    <2>2. delivered' \in [1..MaxPublications -> [Listeners -> Nat]]
      BY <1>15, <2>1, DeliverType DEF DeliverBus
    <2> QED
      BY <1>15, <2>1, <2>2 DEF DeliverBus, TypeOK, registry, command
  <1>16. ASSUME NEW n \in Nodes, NEW p \in validating[n], FrameRefused(n, p) PROVE TypeOK'
    BY <1>16 DEF FrameRefused, TypeOK, registry, command
  <1>17. CASE UNCHANGED vars
    BY <1>17 DEF vars, TypeOK, registry, command, traffic
  <1> QED
    BY <1>1, <1>2, <1>3, <1>4, <1>5, <1>6, <1>7, <1>8, <1>9, <1>10, <1>11, <1>12,
       <1>13, <1>14, <1>15, <1>16, <1>17 DEF Next

\* Every variable keeps its type, whatever the nodes, connections and channels are.
THEOREM TypeCorrect == Spec => []TypeOK
  BY InitType, StepType, PTL DEF Spec

-----------------------------------------------------------------------------
(* The subscription follows the interest.                                  *)

Tracks(n, ch) == ch \notin drift[n] => (Desired(n, ch) <=> Interest(n, ch))

\* A step that issues `op` for the channels whose interest turned to what `op` says, and
\* changes the interest of no other channel, keeps the subscription on track.
LEMMA IssueTracks ==
  ASSUME TypeOK, SubscriptionTracksInterest,
         NEW n \in Nodes, NEW chs \in SUBSET Channels,
         NEW op \in {"subscribe", "unsubscribe"}, NEW who \in Listeners \cup {NoOne},
         Issue(n, chs, op, who), live' = live,
         \A ch \in chs : Interest(n, ch)' <=> (op = "subscribe"),
         \A m \in Nodes, ch \in Channels :
           ~ (m = n /\ ch \in chs) => (Interest(m, ch)' <=> Interest(m, ch))
  PROVE  SubscriptionTracksInterest'
  <1>a. Issued(n, chs, op, who)
    BY IssueIsLast
  <1> SUFFICES ASSUME NEW m \in Nodes, NEW ch \in Channels, ch \notin drift'[m]
               PROVE  Desired(m, ch)' <=> Interest(m, ch)'
    BY DEF SubscriptionTracksInterest
  <1>1. CASE m = n /\ ch \in chs
    <2>1. pipe'[m][ch] # <<>> /\ LastOp(pipe'[m][ch]) = op
      BY <1>1, <1>a DEF Issued
    <2>2. Desired(m, ch)' <=> op = "subscribe"
      BY <2>1 DEF Desired
    <2> QED
      BY <1>1, <2>2
  <1>2. CASE ~ (m = n /\ ch \in chs)
    <2>1. pipe'[m][ch] = pipe[m][ch] /\ ch \notin drift[m]
      BY <1>2, <1>a DEF Issued
    <2>2. Desired(m, ch)' <=> Desired(m, ch)
      BY <2>1 DEF Desired
    <2> QED
      BY <1>2, <2>1, <2>2 DEF SubscriptionTracksInterest
  <1> QED
    BY <1>1, <1>2

LEMMA LeaveTracks ==
  ASSUME TypeOK, SubscriptionTracksInterest, NEW c \in Conns, NEW chs \in SUBSET Channels,
         LeaveChannels(c, chs), bus' = bus, live' = live
  PROVE  SubscriptionTracksInterest'
  <1> DEFINE n == NodeOf[c]
  <1> DEFINE last == {ch \in chs : members[n][ch] = {c} /\ bus[n][ch] = {}}
  <1>1. n \in Nodes
    BY RegistryConstants DEF Listeners
  <1>2. Issue(n, last, "unsubscribe", NoOne)
    BY DEF LeaveChannels
  <1>3. \A m \in Nodes, ch \in Channels :
          members'[m][ch] = IF m = n /\ ch \in chs THEN members[m][ch] \ {c} ELSE members[m][ch]
    BY <1>1 DEF LeaveChannels, TypeOK
  <1>4. \A ch \in last : ~ Interest(n, ch)'
    BY <1>1, <1>3 DEF Interest
  <1>5. ASSUME NEW m \in Nodes, NEW ch \in Channels, ~ (m = n /\ ch \in last)
        PROVE  Interest(m, ch)' <=> Interest(m, ch)
    <2>1. CASE m = n /\ ch \in chs
      <3>1. bus[n][ch] # {} \/ members[n][ch] # {c}
        BY <1>5, <2>1
      <3>2. members'[m][ch] = members[m][ch] \ {c}
        BY <1>3, <2>1
      <3> QED
        BY <2>1, <3>1, <3>2 DEF Interest
    <2>2. CASE ~ (m = n /\ ch \in chs)
      BY <1>3, <2>2 DEF Interest
    <2> QED
      BY <2>1, <2>2
  <1> HIDE DEF n, last
  <1>6. last \in SUBSET Channels
    BY DEF last
  <1> QED
    BY <1>1, <1>2, <1>4, <1>5, <1>6, IssueTracks

\* Taking the first command off a pipe: what the rest of it will bring about is what it
\* would have, unless it was the only one, and then the broker's state decides.
LEMMA PopTracks ==
  ASSUME TypeOK, SubscriptionTracksInterest, NEW n \in Nodes, NEW ch \in Channels,
         pipe[n][ch] # <<>>, pipe' = [pipe EXCEPT ![n][ch] = Tail(@)],
         members' = members, bus' = bus,
         \A m \in Nodes, k \in Channels :
           m # n \/ k # ch => /\ k \in live'[m] <=> k \in live[m]
                              /\ k \in drift'[m] <=> k \in drift[m],
         Len(pipe[n][ch]) # 1 => (ch \in drift'[n] <=> ch \in drift[n]),
         Len(pipe[n][ch]) = 1 /\ ch \notin drift'[n] =>
           /\ ch \notin drift[n]
           /\ ch \in live'[n] <=> Head(pipe[n][ch]).op = "subscribe"
  PROVE  SubscriptionTracksInterest'
  <1> SUFFICES ASSUME NEW m \in Nodes, NEW k \in Channels, k \notin drift'[m]
               PROVE  Desired(m, k)' <=> Interest(m, k)'
    BY DEF SubscriptionTracksInterest
  <1>0. Interest(m, k)' <=> Interest(m, k)
    BY DEF Interest
  <1>1. pipe[n][ch] \in Seq(Command)
    BY DEF TypeOK
  <1>2. CASE m # n \/ k # ch
    <2>1. pipe'[m][k] = pipe[m][k]
      BY <1>2 DEF TypeOK
    <2>2. Desired(m, k)' <=> Desired(m, k)
      BY <1>2, <2>1 DEF Desired
    <2> QED
      BY <1>0, <1>2, <2>2 DEF SubscriptionTracksInterest
  <1>3. CASE m = n /\ k = ch
    <2>1. pipe'[n][ch] = Tail(pipe[n][ch])
      BY DEF TypeOK
    <2>2. CASE Len(pipe[n][ch]) = 1
      <3>1. pipe'[n][ch] = <<>> /\ pipe[n][ch][Len(pipe[n][ch])] = Head(pipe[n][ch])
        BY <1>1, <2>1, <2>2, TailKeepsLast
      <3>2. Desired(n, ch)' <=> Desired(n, ch)
        BY <1>3, <2>2, <3>1 DEF Desired, LastOp
      <3> QED
        BY <1>0, <1>3, <2>2, <3>2 DEF SubscriptionTracksInterest
    <2>3. CASE Len(pipe[n][ch]) # 1
      <3>1. /\ pipe'[n][ch] # <<>>
            /\ pipe'[n][ch][Len(pipe'[n][ch])] = pipe[n][ch][Len(pipe[n][ch])]
        BY <1>1, <2>1, <2>3, TailKeepsLast
      <3>2. Desired(n, ch)' <=> Desired(n, ch)
        BY <3>1 DEF Desired, LastOp
      <3> QED
        BY <1>0, <1>3, <2>3, <3>2 DEF SubscriptionTracksInterest
    <2> QED
      BY <2>2, <2>3
  <1> QED
    BY <1>2, <1>3

\* The steps that can change the registry, a join or an acknowledgement; the others carry
\* publications.
LEMMA Steps ==
  [Next]_vars =>
    \/ UNCHANGED <<open, registry, task, command, live, wanted, acked>>
    \/ \E c \in Conns, ch \in Channels :
         SubscribeFrame(c, ch) \/ Denied(c, ch) \/ JoinChannel(c, ch) \/ Respond(c, ch)
         \/ UnsubscribeFrame(c, ch)
    \/ \E c \in Conns : SocketClosed(c)
    \/ \E h \in Handlers, ch \in Channels : BusSubscribe(h, ch) \/ BusUnsubscribe(h, ch)
    \/ \E n \in Nodes, ch \in Channels : CommandApplied(n, ch) \/ CommandFailed(n, ch)
  BY DEF Next, vars, Publish, Route, PublishFailed, Receive, DeliverBus, FrameRefused

LEMMA InitTracks == Init => SubscriptionTracksInterest
  BY DEF Init, SubscriptionTracksInterest, Desired, Interest

LEMMA StepTracks == TypeOK /\ SubscriptionTracksInterest /\ [Next]_vars => SubscriptionTracksInterest'
  <1> SUFFICES ASSUME TypeOK, SubscriptionTracksInterest, [Next]_vars
               PROVE  SubscriptionTracksInterest'
    OBVIOUS
  <1>0. ASSUME UNCHANGED <<registry, command, live>> PROVE SubscriptionTracksInterest'
    BY <1>0 DEF registry, command, SubscriptionTracksInterest, Desired, Interest, LastOp
  <1>1. ASSUME NEW c \in Conns, NEW ch \in Channels, JoinChannel(c, ch)
        PROVE  SubscriptionTracksInterest'
    <2> DEFINE n == NodeOf[c]
    <2> DEFINE chs == IF Interest(n, ch) THEN {} ELSE {ch}
    <2>1. n \in Nodes /\ c \in Listeners \cup {NoOne} /\ chs \in SUBSET Channels
      BY RegistryConstants DEF Listeners
    <2>2. Issue(n, chs, "subscribe", c) /\ live' = live
      BY <1>1 DEF JoinChannel
    <2>3. /\ bus' = bus
          /\ \A m \in Nodes, k \in Channels :
               members'[m][k] = IF m = n /\ k = ch THEN members[m][k] \cup {c} ELSE members[m][k]
      BY <1>1, <2>1 DEF JoinChannel, TypeOK
    <2>4. \A k \in chs : Interest(n, k)' <=> ("subscribe" = "subscribe")
      BY <2>1, <2>3 DEF Interest
    <2>5. \A m \in Nodes, k \in Channels :
            ~ (m = n /\ k \in chs) => (Interest(m, k)' <=> Interest(m, k))
      BY <2>1, <2>3 DEF Interest
    <2> HIDE DEF n, chs
    <2> QED
      BY <2>1, <2>2, <2>4, <2>5, IssueTracks
  <1>2. ASSUME NEW h \in Handlers, NEW ch \in Channels, BusSubscribe(h, ch)
        PROVE  SubscriptionTracksInterest'
    <2> DEFINE n == NodeOf[h]
    <2> DEFINE chs == IF Interest(n, ch) THEN {} ELSE {ch}
    <2>1. n \in Nodes /\ h \in Listeners \cup {NoOne} /\ chs \in SUBSET Channels
      BY RegistryConstants DEF Listeners
    <2>2. Issue(n, chs, "subscribe", h) /\ live' = live
      BY <1>2 DEF BusSubscribe
    <2>3. /\ members' = members
          /\ \A m \in Nodes, k \in Channels :
               bus'[m][k] = IF m = n /\ k = ch THEN bus[m][k] \cup {h} ELSE bus[m][k]
      BY <1>2, <2>1 DEF BusSubscribe, TypeOK
    <2>4. \A k \in chs : Interest(n, k)' <=> ("subscribe" = "subscribe")
      BY <2>1, <2>3 DEF Interest
    <2>5. \A m \in Nodes, k \in Channels :
            ~ (m = n /\ k \in chs) => (Interest(m, k)' <=> Interest(m, k))
      BY <2>1, <2>3 DEF Interest
    <2> HIDE DEF n, chs
    <2> QED
      BY <2>1, <2>2, <2>4, <2>5, IssueTracks
  <1>3. ASSUME NEW h \in Handlers, NEW ch \in Channels, BusUnsubscribe(h, ch)
        PROVE  SubscriptionTracksInterest'
    <2> DEFINE n == NodeOf[h]
    <2> DEFINE chs == IF bus[n][ch] = {h} /\ members[n][ch] = {} THEN {ch} ELSE {}
    <2>1. n \in Nodes /\ NoOne \in Listeners \cup {NoOne} /\ chs \in SUBSET Channels
      BY RegistryConstants DEF Listeners
    <2>2. Issue(n, chs, "unsubscribe", NoOne) /\ live' = live
      BY <1>3 DEF BusUnsubscribe
    <2>3. /\ members' = members /\ h \in bus[n][ch]
          /\ \A m \in Nodes, k \in Channels :
               bus'[m][k] = IF m = n /\ k = ch THEN bus[m][k] \ {h} ELSE bus[m][k]
      BY <1>3, <2>1 DEF BusUnsubscribe, TypeOK
    <2>4. \A k \in chs : Interest(n, k)' <=> ("unsubscribe" = "subscribe")
      BY <2>1, <2>3 DEF Interest
    <2>5. \A m \in Nodes, k \in Channels :
            ~ (m = n /\ k \in chs) => (Interest(m, k)' <=> Interest(m, k))
      BY <2>1, <2>3, ZenonT(60) DEF Interest
    <2> HIDE DEF n, chs
    <2> QED
      BY <2>1, <2>2, <2>4, <2>5, IssueTracks
  <1>4. ASSUME NEW c \in Conns, NEW ch \in Channels, UnsubscribeFrame(c, ch)
        PROVE  SubscriptionTracksInterest'
    BY <1>4, LeaveTracks DEF UnsubscribeFrame
  <1>5. ASSUME NEW c \in Conns, SocketClosed(c) PROVE SubscriptionTracksInterest'
    <2>1. channels[c] \in SUBSET Channels
      BY DEF TypeOK
    <2> QED
      BY <1>5, <2>1, LeaveTracks DEF SocketClosed
  <1>6. ASSUME NEW n \in Nodes, NEW ch \in Channels, CommandApplied(n, ch)
        PROVE  SubscriptionTracksInterest'
    <2>1. /\ pipe[n][ch] # <<>> /\ pipe' = [pipe EXCEPT ![n][ch] = Tail(@)]
          /\ members' = members /\ bus' = bus /\ drift' = drift
      BY <1>6 DEF CommandApplied, registry
    <2>2. \A m \in Nodes, k \in Channels : m # n \/ k # ch => (k \in live'[m] <=> k \in live[m])
      BY <1>6 DEF CommandApplied, TypeOK
    <2>3. ch \in live'[n] <=> Head(pipe[n][ch]).op = "subscribe"
      BY <1>6 DEF CommandApplied, TypeOK
    <2> QED
      BY <2>1, <2>2, <2>3, PopTracks, ZenonT(60)
  <1>7. ASSUME NEW n \in Nodes, NEW ch \in Channels, CommandFailed(n, ch)
        PROVE  SubscriptionTracksInterest'
    <2> DEFINE lost == Len(pipe[n][ch]) = 1
                       /\ (Head(pipe[n][ch]).op = "subscribe") # (ch \in live[n])
    <2>1. /\ pipe[n][ch] # <<>> /\ pipe' = [pipe EXCEPT ![n][ch] = Tail(@)]
          /\ members' = members /\ bus' = bus /\ live' = live
          /\ drift' = IF lost THEN [drift EXCEPT ![n] = @ \cup {ch}] ELSE drift
      BY <1>7 DEF CommandFailed, registry
    <2>2. \A m \in Nodes, k \in Channels :
            m # n \/ k # ch => /\ k \in live'[m] <=> k \in live[m]
                               /\ k \in drift'[m] <=> k \in drift[m]
      BY <2>1 DEF TypeOK
    <2>3. Len(pipe[n][ch]) # 1 => (ch \in drift'[n] <=> ch \in drift[n])
      BY <2>1
    <2>4. lost => ch \in drift'[n]
      BY <2>1 DEF TypeOK
    <2>5. Len(pipe[n][ch]) = 1 /\ ch \notin drift'[n] =>
            /\ ch \notin drift[n]
            /\ ch \in live'[n] <=> Head(pipe[n][ch]).op = "subscribe"
      BY <2>1, <2>4
    <2> HIDE DEF lost
    <2> QED
      BY <2>1, <2>2, <2>3, <2>5, PopTracks
  <1>8. ASSUME NEW c \in Conns, NEW ch \in Channels,
               SubscribeFrame(c, ch) \/ Denied(c, ch) \/ Respond(c, ch)
        PROVE  SubscriptionTracksInterest'
    BY <1>8, <1>0 DEF SubscribeFrame, Denied, Respond
  <1> QED
    BY <1>0, <1>1, <1>2, <1>3, <1>4, <1>5, <1>6, <1>7, <1>8, Steps

\* Whatever joins, leaves and bus subscriptions interleave, and however the adapter delays
\* its commands, a node's subscription ends up being what its members and handlers need
\* unless a command of it fails.
THEOREM SubscriptionCorrect == Spec => []SubscriptionTracksInterest
  BY InitType, InitTracks, StepType, StepTracks, PTL DEF Spec

-----------------------------------------------------------------------------
(* Who waits for the adapter, and who holds an acknowledgement.            *)

LEMMA AppendElements ==
  ASSUME NEW s \in Seq(Command), NEW x \in Command, NEW i \in 1..Len(Append(s, x))
  PROVE  \/ i \in 1..Len(s) /\ Append(s, x)[i] = s[i]
         \/ i = Len(s) + 1 /\ Append(s, x)[i] = x
  OBVIOUS

LEMMA TailElements ==
  ASSUME NEW s \in Seq(Command), s # <<>>, NEW i \in 1..Len(Tail(s))
  PROVE  i + 1 \in 1..Len(s) /\ i + 1 # 1 /\ Tail(s)[i] = s[i + 1]
  BY HeadTailProperties, EmptySeq

LEMMA IssueAwaited ==
  ASSUME TypeOK, AnswersAwaited,
         NEW n \in Nodes, NEW chs \in SUBSET Channels,
         NEW op \in {"subscribe", "unsubscribe"}, NEW who \in Listeners \cup {NoOne},
         Issue(n, chs, op, who),
         \A c \in Conns, ch \in Channels : task[c][ch] = "joining" => task'[c][ch] = "joining",
         who \in Conns => \A ch \in chs : /\ task[who][ch] # "joining"
                                          /\ task'[who][ch] = "joining"
                                          /\ NodeOf[who] = n
  PROVE  AnswersAwaited'
  <1> DEFINE cmd == [op |-> op, by |-> who]
  <1>0. cmd.by = who
    OBVIOUS
  <1>1. cmd \in Command
    BY DEF Command
  <1>2. pipe' = [pipe EXCEPT ![n] = [ch \in Channels |->
                   IF ch \in chs THEN Append(@[ch], cmd) ELSE @[ch]]]
    BY DEF Issue
  <1> HIDE DEF cmd
  <1>3. \A m \in Nodes, ch \in Channels :
          pipe'[m][ch] = IF m = n /\ ch \in chs THEN Append(pipe[n][ch], cmd) ELSE pipe[m][ch]
    BY <1>2 DEF TypeOK
  <1> SUFFICES ASSUME NEW m \in Nodes, NEW ch \in Channels, NEW i \in 1..Len(pipe'[m][ch]),
                      pipe'[m][ch][i].by \in Conns
               PROVE  /\ task'[pipe'[m][ch][i].by][ch] = "joining"
                      /\ NodeOf[pipe'[m][ch][i].by] = m
                      /\ \A j \in 1..Len(pipe'[m][ch]) :
                           pipe'[m][ch][j].by = pipe'[m][ch][i].by => j = i
    BY DEF AnswersAwaited
  <1>4. CASE ~ (m = n /\ ch \in chs)
    <2>1. pipe'[m][ch] = pipe[m][ch]
      BY <1>3, <1>4
    <2> QED
      BY <2>1 DEF AnswersAwaited
  <1>5. CASE m = n /\ ch \in chs
    <2> DEFINE s == pipe[n][ch]
    <2>0. s \in Seq(Command)
      BY DEF TypeOK
    <2>1. pipe'[m][ch] = Append(s, cmd)
      BY <1>3, <1>5
    <2>2. \A j \in 1..Len(pipe'[m][ch]) : \/ j \in 1..Len(s) /\ pipe'[m][ch][j] = s[j]
                                          \/ j = Len(s) + 1 /\ pipe'[m][ch][j] = cmd
      BY <1>1, <2>0, <2>1, AppendElements
    <2>3. \A j \in 1..Len(s) : s[j].by \in Conns =>
            /\ task[s[j].by][ch] = "joining"
            /\ NodeOf[s[j].by] = n
            /\ \A k \in 1..Len(s) : s[k].by = s[j].by => k = j
      BY DEF AnswersAwaited
    <2>4. \A j \in 1..Len(s) : s[j].by = who => who \notin Conns
      BY <1>5, <2>3
    <2> HIDE DEF s
    <2> QED
      BY <1>0, <1>5, <2>2, <2>3, <2>4, SMTT(30)
  <1> QED
    BY <1>4, <1>5

LEMMA PopAwaited ==
  ASSUME TypeOK, AnswersAwaited, NEW n \in Nodes, NEW ch \in Channels,
         pipe[n][ch] # <<>>, pipe' = [pipe EXCEPT ![n][ch] = Tail(@)],
         \A c \in Conns, k \in Channels :
           task[c][k] = "joining" /\ ~ (k = ch /\ c = Head(pipe[n][ch]).by)
             => task'[c][k] = "joining"
  PROVE  AnswersAwaited'
  <1> DEFINE s == pipe[n][ch]
  <1>1. s \in Seq(Command) /\ s # <<>> /\ 1 \in 1..Len(s) /\ Head(s) = s[1]
    <2>1. s \in Seq(Command) /\ s # <<>>
      BY DEF TypeOK
    <2> QED
      BY <2>1, HeadTailProperties, EmptySeq
  <1>2. \A m \in Nodes, k \in Channels :
          pipe'[m][k] = IF m = n /\ k = ch THEN Tail(s) ELSE pipe[m][k]
    BY DEF TypeOK
  <1>3. \A m \in Nodes, k \in Channels : \A j \in 1..Len(pipe[m][k]) :
          pipe[m][k][j].by \in Conns =>
            /\ task[pipe[m][k][j].by][k] = "joining"
            /\ NodeOf[pipe[m][k][j].by] = m
            /\ \A l \in 1..Len(pipe[m][k]) : pipe[m][k][l].by = pipe[m][k][j].by => l = j
    BY DEF AnswersAwaited
  <1> SUFFICES ASSUME NEW m \in Nodes, NEW k \in Channels, NEW i \in 1..Len(pipe'[m][k]),
                      pipe'[m][k][i].by \in Conns
               PROVE  /\ task'[pipe'[m][k][i].by][k] = "joining"
                      /\ NodeOf[pipe'[m][k][i].by] = m
                      /\ \A j \in 1..Len(pipe'[m][k]) :
                           pipe'[m][k][j].by = pipe'[m][k][i].by => j = i
    BY DEF AnswersAwaited
  <1>4. CASE ~ (m = n /\ k = ch)
    <2>1. pipe'[m][k] = pipe[m][k]
      BY <1>2, <1>4
    <2>2. task[pipe[m][k][i].by][k] = "joining" /\ NodeOf[pipe[m][k][i].by] = m
      BY <1>3, <2>1, ZenonT(60)
    <2>3. ~ (k = ch /\ pipe[m][k][i].by = Head(s).by)
      BY <1>1, <1>3, <1>4, <2>1, <2>2
    <2>4. task'[pipe[m][k][i].by][k] = "joining"
      BY <2>1, <2>2, <2>3
    <2>5. i \in 1..Len(pipe[m][k]) /\ pipe[m][k][i].by \in Conns
      BY <2>1
    <2>6. \A j \in 1..Len(pipe[m][k]) : pipe[m][k][j].by = pipe[m][k][i].by => j = i
      BY <1>3, <2>5
    <2> QED
      BY <2>1, <2>2, <2>4, <2>6
  <1>5. CASE m = n /\ k = ch
    <2>1. pipe'[m][k] = Tail(s)
      BY <1>2, <1>5
    <2>2. \A j \in 1..Len(pipe'[m][k]) :
            j + 1 \in 1..Len(s) /\ j + 1 # 1 /\ pipe'[m][k][j] = s[j + 1]
      BY <1>1, <2>1, TailElements
    <2>3. \A j \in 1..Len(s) : s[j].by \in Conns =>
            /\ task[s[j].by][k] = "joining"
            /\ NodeOf[s[j].by] = m
            /\ \A l \in 1..Len(s) : s[l].by = s[j].by => l = j
      BY <1>3, <1>5
    <2>4. pipe'[m][k][i].by # Head(s).by
      BY <1>1, <2>2, <2>3
    <2>5. /\ task[pipe'[m][k][i].by][k] = "joining"
          /\ NodeOf[pipe'[m][k][i].by] = m
      BY <2>2, <2>3, SMTT(30)
    <2>6. \A j \in 1..Len(pipe'[m][k]) : pipe'[m][k][j].by = pipe'[m][k][i].by => j = i
      <3> SUFFICES ASSUME NEW j \in 1..Len(pipe'[m][k]),
                          pipe'[m][k][j].by = pipe'[m][k][i].by
                   PROVE  j = i
        OBVIOUS
      <3>1. /\ j + 1 \in 1..Len(s) /\ i + 1 \in 1..Len(s)
            /\ s[i + 1].by \in Conns /\ s[j + 1].by = s[i + 1].by
        BY <2>2
      <3>2. \A l \in 1..Len(s) : s[l].by = s[i + 1].by => l = i + 1
        BY <2>3, <3>1
      <3>3. j + 1 = i + 1
        BY <3>1, <3>2
      <3> QED
        BY <3>3
    <2>7. task'[pipe'[m][k][i].by][k] = "joining"
      BY <2>4, <2>5
    <2> QED
      BY <2>5, <2>6, <2>7
  <1> QED
    BY <1>4, <1>5

LEMMA StepAwaited == TypeOK /\ AnswersAwaited /\ [Next]_vars => AnswersAwaited'
  <1> SUFFICES ASSUME TypeOK, AnswersAwaited, [Next]_vars PROVE AnswersAwaited'
    OBVIOUS
  <1>0. ASSUME pipe' = pipe,
               \A c \in Conns, ch \in Channels :
                 task[c][ch] = "joining" => task'[c][ch] = "joining"
        PROVE  AnswersAwaited'
    BY <1>0 DEF AnswersAwaited
  <1>1. ASSUME NEW c \in Conns, NEW ch \in Channels, JoinChannel(c, ch) PROVE AnswersAwaited'
    <2> DEFINE n == NodeOf[c]
    <2> DEFINE chs == IF Interest(n, ch) THEN {} ELSE {ch}
    <2>1. n \in Nodes /\ c \in Listeners \cup {NoOne} /\ chs \in SUBSET Channels
      BY RegistryConstants DEF Listeners
    <2>2. Issue(n, chs, "subscribe", c)
      BY <1>1 DEF JoinChannel
    <2>3. \A d \in Conns, k \in Channels : task[d][k] = "joining" => task'[d][k] = "joining"
      BY <1>1 DEF JoinChannel, TypeOK
    <2>4. \A k \in chs : task[c][k] # "joining" /\ task'[c][k] = "joining" /\ NodeOf[c] = n
      BY <1>1 DEF JoinChannel, TypeOK
    <2> HIDE DEF n, chs
    <2> QED
      BY <2>1, <2>2, <2>3, <2>4, IssueAwaited
  <1>2. ASSUME NEW h \in Handlers, NEW ch \in Channels, BusSubscribe(h, ch)
        PROVE  AnswersAwaited'
    <2>1. /\ NodeOf[h] \in Nodes /\ h \in Listeners \cup {NoOne} /\ h \notin Conns
      BY RegistryConstants DEF Listeners
    <2>2. PICK chs \in SUBSET Channels : Issue(NodeOf[h], chs, "subscribe", h)
      BY <1>2 DEF BusSubscribe
    <2>3. task' = task
      BY <1>2 DEF BusSubscribe
    <2> QED
      BY <2>1, <2>2, <2>3, IssueAwaited
  <1>3. ASSUME NEW h \in Handlers, NEW ch \in Channels, BusUnsubscribe(h, ch)
        PROVE  AnswersAwaited'
    <2>1. NodeOf[h] \in Nodes /\ NoOne \in Listeners \cup {NoOne} /\ NoOne \notin Conns
      BY RegistryConstants DEF Listeners
    <2>2. PICK chs \in SUBSET Channels : Issue(NodeOf[h], chs, "unsubscribe", NoOne)
      BY <1>3 DEF BusUnsubscribe
    <2>3. task' = task
      BY <1>3 DEF BusUnsubscribe
    <2> QED
      BY <2>1, <2>2, <2>3, IssueAwaited
  <1>4. ASSUME NEW c \in Conns, NEW chs \in SUBSET Channels, LeaveChannels(c, chs), task' = task
        PROVE  AnswersAwaited'
    <2>1. NodeOf[c] \in Nodes /\ NoOne \in Listeners \cup {NoOne} /\ NoOne \notin Conns
      BY RegistryConstants DEF Listeners
    <2>2. PICK ks \in SUBSET Channels : Issue(NodeOf[c], ks, "unsubscribe", NoOne)
      BY <1>4 DEF LeaveChannels
    <2> QED
      BY <1>4, <2>1, <2>2, IssueAwaited
  <1>5. ASSUME NEW c \in Conns, NEW ch \in Channels, UnsubscribeFrame(c, ch)
        PROVE  AnswersAwaited'
    BY <1>4, <1>5 DEF UnsubscribeFrame
  <1>6. ASSUME NEW c \in Conns, SocketClosed(c) PROVE AnswersAwaited'
    <2>1. channels[c] \in SUBSET Channels
      BY DEF TypeOK
    <2> QED
      BY <1>4, <1>6, <2>1 DEF SocketClosed
  <1>7. ASSUME NEW n \in Nodes, NEW ch \in Channels, CommandApplied(n, ch)
        PROVE  AnswersAwaited'
    <2>1. pipe[n][ch] # <<>> /\ pipe' = [pipe EXCEPT ![n][ch] = Tail(@)]
      BY <1>7 DEF CommandApplied
    <2>2. \A c \in Conns, k \in Channels :
            task[c][k] = "joining" /\ ~ (k = ch /\ c = Head(pipe[n][ch]).by)
              => task'[c][k] = "joining"
      BY <1>7 DEF CommandApplied, TypeOK
    <2> QED
      BY <2>1, <2>2, PopAwaited
  <1>8. ASSUME NEW n \in Nodes, NEW ch \in Channels, CommandFailed(n, ch)
        PROVE  AnswersAwaited'
    <2>1. pipe[n][ch] # <<>> /\ pipe' = [pipe EXCEPT ![n][ch] = Tail(@)]
      BY <1>8 DEF CommandFailed
    <2>2. \A c \in Conns, k \in Channels :
            task[c][k] = "joining" /\ ~ (k = ch /\ c = Head(pipe[n][ch]).by)
              => task'[c][k] = "joining"
      BY <1>8 DEF CommandFailed, TypeOK
    <2> QED
      BY <2>1, <2>2, PopAwaited
  <1>9. ASSUME NEW c \in Conns, NEW ch \in Channels,
               SubscribeFrame(c, ch) \/ Denied(c, ch) \/ Respond(c, ch)
        PROVE  AnswersAwaited'
    <2>1. pipe' = pipe
      BY <1>9 DEF SubscribeFrame, Denied, Respond, command
    <2>2. /\ task[c][ch] # "joining"
          /\ task' = [task EXCEPT ![c][ch] = "deciding"] \/ task' = [task EXCEPT ![c][ch] = "idle"]
      BY <1>9 DEF SubscribeFrame, Denied, Respond
    <2>3. \A d \in Conns, k \in Channels :
            ~ (d = c /\ k = ch) => task'[d][k] = task[d][k]
      BY <2>2 DEF TypeOK
    <2>4. \A d \in Conns, k \in Channels : task[d][k] = "joining" => task'[d][k] = "joining"
      BY <2>2, <2>3
    <2> QED
      BY <1>0, <2>1, <2>4
  <1>10. CASE UNCHANGED <<open, registry, task, command, live, wanted, acked>>
    BY <1>0, <1>10 DEF command
  <1> QED
    BY <1>1, <1>2, <1>3, <1>5, <1>6, <1>7, <1>8, <1>9, <1>10, Steps

\* What leaving changes, element by element.
Left(c, chs) ==
  /\ \A m \in Nodes, k \in Channels :
       members'[m][k] = IF m = NodeOf[c] /\ k \in chs THEN members[m][k] \ {c} ELSE members[m][k]
  /\ \A d \in Conns, k \in Channels :
       k \in channels'[d] <=>
         k \in channels[d] /\ ~ (d = c /\ k \in chs /\ members[NodeOf[c]][k] # {})
  /\ \A l \in Listeners :
       acked'[l] = IF l = c THEN acked[l] \ chs ELSE acked[l]

LEMMA LeaveLeft ==
  ASSUME TypeOK, NEW c \in Conns, NEW chs \in SUBSET Channels, LeaveChannels(c, chs)
  PROVE  Left(c, chs)
  <1>1. NodeOf[c] \in Nodes /\ c \in Listeners
    BY RegistryConstants DEF Listeners
  <1>2. \A m \in Nodes, k \in Channels :
          members'[m][k] = IF m = NodeOf[c] /\ k \in chs THEN members[m][k] \ {c} ELSE members[m][k]
    BY <1>1 DEF LeaveChannels, TypeOK
  <1>3. \A d \in Conns, k \in Channels :
          k \in channels'[d] <=>
            k \in channels[d] /\ ~ (d = c /\ k \in chs /\ members[NodeOf[c]][k] # {})
    BY DEF LeaveChannels, TypeOK
  <1>4. \A l \in Listeners : acked'[l] = IF l = c THEN acked[l] \ chs ELSE acked[l]
    BY <1>1 DEF LeaveChannels, TypeOK
  <1> QED
    BY <1>2, <1>3, <1>4 DEF Left

LEMMA StepMirror == TypeOK /\ Mirror /\ [Next]_vars => Mirror'
  <1> SUFFICES ASSUME TypeOK, Mirror, [Next]_vars PROVE Mirror'
    OBVIOUS
  <1>0. ASSUME members' = members, channels' = channels PROVE Mirror'
    BY <1>0 DEF Mirror
  <1>1. ASSUME NEW c \in Conns, NEW ch \in Channels, JoinChannel(c, ch) PROVE Mirror'
    <2>1. NodeOf \in [Listeners -> Nodes] /\ Conns \subseteq Listeners
      BY RegistryConstants DEF Listeners
    <2>2. /\ \A m \in Nodes, k \in Channels :
               members'[m][k] = IF m = NodeOf[c] /\ k = ch THEN members[m][k] \cup {c}
                                                            ELSE members[m][k]
          /\ \A d \in Conns, k \in Channels :
               k \in channels'[d] <=> k \in channels[d] \/ (d = c /\ k = ch)
      BY <1>1, <2>1 DEF JoinChannel, TypeOK
    <2> SUFFICES ASSUME NEW d \in Conns, NEW k \in Channels
                 PROVE  d \in members'[NodeOf[d]][k] <=> k \in channels'[d]
      BY DEF Mirror
    <2>3. NodeOf[d] \in Nodes
      BY <2>1
    <2>4. d \in members[NodeOf[d]][k] <=> k \in channels[d]
      BY DEF Mirror
    <2>5. CASE d = c /\ k = ch
      <3>1. members'[NodeOf[d]][k] = members[NodeOf[d]][k] \cup {c}
        BY <2>2, <2>3, <2>5
      <3>2. k \in channels'[d]
        BY <2>2, <2>5
      <3> QED
        BY <2>5, <3>1, <3>2
    <2>6. CASE ~ (d = c /\ k = ch)
      <3>1. \/ members'[NodeOf[d]][k] = members[NodeOf[d]][k]
            \/ members'[NodeOf[d]][k] = members[NodeOf[d]][k] \cup {c} /\ d # c
        BY <2>2, <2>3, <2>6
      <3>2. k \in channels'[d] <=> k \in channels[d]
        BY <2>2, <2>6
      <3> QED
        BY <2>4, <3>1, <3>2
    <2> QED
      BY <2>5, <2>6
  <1>2. ASSUME NEW c \in Conns, NEW chs \in SUBSET Channels, Left(c, chs) PROVE Mirror'
    <2>1. NodeOf \in [Listeners -> Nodes] /\ Conns \subseteq Listeners
      BY RegistryConstants DEF Listeners
    <2> SUFFICES ASSUME NEW d \in Conns, NEW k \in Channels
                 PROVE  d \in members'[NodeOf[d]][k] <=> k \in channels'[d]
      BY DEF Mirror
    <2>3. NodeOf[d] \in Nodes
      BY <2>1
    <2>4. d \in members[NodeOf[d]][k] <=> k \in channels[d]
      BY DEF Mirror
    <2>5. CASE d = c /\ k \in chs
      <3>1. members'[NodeOf[c]][k] = members[NodeOf[c]][k] \ {c}
        BY <1>2, <2>3, <2>5 DEF Left
      <3>2. k \in channels'[c] <=> k \in channels[c] /\ members[NodeOf[c]][k] = {}
        BY <1>2, <2>5 DEF Left
      <3> QED
        BY <2>4, <2>5, <3>1, <3>2
    <2>6. CASE ~ (d = c /\ k \in chs)
      <3>1. \/ members'[NodeOf[d]][k] = members[NodeOf[d]][k]
            \/ members'[NodeOf[d]][k] = members[NodeOf[d]][k] \ {c} /\ d # c
        BY <1>2, <2>3, <2>6 DEF Left
      <3>2. k \in channels'[d] <=> k \in channels[d]
        BY <1>2, <2>6 DEF Left
      <3> QED
        BY <2>4, <3>1, <3>2
    <2> QED
      BY <2>5, <2>6
  <1>3. ASSUME NEW c \in Conns, NEW ch \in Channels, UnsubscribeFrame(c, ch) PROVE Mirror'
    BY <1>2, <1>3, LeaveLeft DEF UnsubscribeFrame
  <1>4. ASSUME NEW c \in Conns, SocketClosed(c) PROVE Mirror'
    <2>1. channels[c] \in SUBSET Channels
      BY DEF TypeOK
    <2> QED
      BY <1>2, <1>4, <2>1, LeaveLeft DEF SocketClosed
  <1>5. ASSUME NEW c \in Conns, NEW ch \in Channels,
               SubscribeFrame(c, ch) \/ Denied(c, ch) \/ Respond(c, ch)
        PROVE  Mirror'
    BY <1>0, <1>5 DEF SubscribeFrame, Denied, Respond, registry
  <1>6. ASSUME NEW h \in Handlers, NEW ch \in Channels, BusSubscribe(h, ch) \/ BusUnsubscribe(h, ch)
        PROVE  Mirror'
    BY <1>0, <1>6 DEF BusSubscribe, BusUnsubscribe
  <1>7. ASSUME NEW n \in Nodes, NEW ch \in Channels, CommandApplied(n, ch) \/ CommandFailed(n, ch)
        PROVE  Mirror'
    BY <1>0, <1>7 DEF CommandApplied, CommandFailed, registry
  <1>8. CASE UNCHANGED <<open, registry, task, command, live, wanted, acked>>
    BY <1>0, <1>8 DEF registry
  <1> QED
    BY <1>1, <1>3, <1>4, <1>5, <1>6, <1>7, <1>8, Steps

LEMMA StepJoins ==
  TypeOK /\ AnswersAwaited /\ JoinsAreMembers /\ [Next]_vars => JoinsAreMembers'
  <1> SUFFICES ASSUME TypeOK, AnswersAwaited, JoinsAreMembers, [Next]_vars,
                      NEW d \in Conns, NEW k \in Channels, k \in wanted'[d]
               PROVE  Joined(d, k)'
    BY DEF JoinsAreMembers
  <1>a. k \in wanted[d] => Joined(d, k)
    BY DEF JoinsAreMembers
  <1>b. NodeOf[d] \in Nodes /\ d \in Listeners
    BY RegistryConstants DEF Listeners
  <1>1. ASSUME NEW c \in Conns, NEW ch \in Channels, SubscribeFrame(c, ch) PROVE Joined(d, k)'
    <2>1. CASE d = c /\ k = ch
      BY <1>1, <2>1 DEF SubscribeFrame, TypeOK, Joined
    <2>2. CASE ~ (d = c /\ k = ch)
      <3>1. k \in wanted[d] /\ task'[d][k] = task[d][k]
        BY <1>1, <2>2 DEF SubscribeFrame, TypeOK
      <3> QED
        BY <1>1, <1>a, <3>1 DEF SubscribeFrame, registry, Joined
    <2> QED
      BY <2>1, <2>2
  <1>2. ASSUME NEW c \in Conns, NEW ch \in Channels, Denied(c, ch) \/ Respond(c, ch) PROVE Joined(d, k)'
    <2>1. k \in wanted[d]
      BY <1>2, ZenonT(60) DEF Denied, Respond, TypeOK
    <2>2. task'[d][k] \in {"joining", "joined"} => task'[d][k] = task[d][k]
      <3>1. task' = [task EXCEPT ![c][ch] = "idle"]
        BY <1>2 DEF Denied, Respond
      <3>2. task'[d][k] = IF d = c /\ k = ch THEN "idle" ELSE task[d][k]
        BY <3>1 DEF TypeOK
      <3> QED
        BY <3>2
    <2> QED
      BY <1>2, <1>a, <2>1, <2>2 DEF Denied, Respond, registry, Joined
  <1>3. ASSUME NEW c \in Conns, NEW ch \in Channels, JoinChannel(c, ch) PROVE Joined(d, k)'
    <2>1. /\ d \in members[NodeOf[d]][k] => d \in members'[NodeOf[d]][k]
          /\ d = c /\ k = ch => d \in members'[NodeOf[d]][k]
          /\ ~ (d = c /\ k = ch) => task'[d][k] = task[d][k]
      BY <1>3, <1>b DEF JoinChannel, TypeOK
    <2> QED
      BY <1>3, <1>a, <2>1 DEF JoinChannel, Joined
  <1>4. ASSUME NEW c \in Conns, NEW ch \in Channels, UnsubscribeFrame(c, ch) PROVE Joined(d, k)'
    <2>1. k \in wanted[d] /\ ~ (d = c /\ k = ch) /\ open' = open /\ task' = task
      BY <1>4 DEF UnsubscribeFrame, TypeOK
    <2>2. Left(c, {ch})
      BY <1>4, LeaveLeft DEF UnsubscribeFrame
    <2>3. d \in members[NodeOf[d]][k] => d \in members'[NodeOf[d]][k]
      BY <1>b, <2>1, <2>2, ZenonT(60) DEF Left
    <2> QED
      BY <1>a, <2>1, <2>3 DEF Joined
  <1>5. ASSUME NEW c \in Conns, SocketClosed(c) PROVE Joined(d, k)'
    <2>1. k \in wanted[d] /\ d # c /\ open' = open \ {c} /\ task' = task
      BY <1>5 DEF SocketClosed, TypeOK
    <2>2. channels[c] \in SUBSET Channels
      BY DEF TypeOK
    <2>3. Left(c, channels[c])
      BY <1>5, <2>2, LeaveLeft DEF SocketClosed
    <2>4. d \in members[NodeOf[d]][k] => d \in members'[NodeOf[d]][k]
      BY <1>b, <2>1, <2>3, ZenonT(60) DEF Left
    <2> QED
      BY <1>a, <2>1, <2>4 DEF Joined
  <1>6. ASSUME NEW h \in Handlers, NEW ch \in Channels, BusSubscribe(h, ch) \/ BusUnsubscribe(h, ch)
        PROVE  Joined(d, k)'
    BY <1>6, <1>a DEF BusSubscribe, BusUnsubscribe, Joined
  <1>7. ASSUME NEW n \in Nodes, NEW ch \in Channels, CommandApplied(n, ch) PROVE Joined(d, k)'
    <2>1. /\ open' = open /\ members' = members /\ k \in wanted[d]
          /\ pipe[n][ch] # <<>> /\ pipe[n][ch] \in Seq(Command)
      BY <1>7 DEF CommandApplied, registry, TypeOK
    <2>2. 1 \in 1..Len(pipe[n][ch]) /\ Head(pipe[n][ch]) = pipe[n][ch][1]
      BY <2>1, HeadTailProperties, EmptySeq
    <2>3. CASE d = Head(pipe[n][ch]).by /\ k = ch
      <3>1. task[d][k] = "joining"
        BY <2>2, <2>3 DEF AnswersAwaited
      <3> QED
        BY <1>a, <2>1, <3>1 DEF Joined
    <2>4. CASE ~ (d = Head(pipe[n][ch]).by /\ k = ch)
      <3>1. task'[d][k] = task[d][k]
        BY <1>7, <2>4 DEF CommandApplied, TypeOK
      <3> QED
        BY <1>a, <2>1, <3>1 DEF Joined
    <2> QED
      BY <2>3, <2>4
  <1>8. ASSUME NEW n \in Nodes, NEW ch \in Channels, CommandFailed(n, ch) PROVE Joined(d, k)'
    <2>1. /\ open' = open /\ members' = members /\ k \in wanted[d]
          /\ task'[d][k] \in {"joining", "joined"} => task'[d][k] = task[d][k]
      BY <1>8 DEF CommandFailed, registry, TypeOK
    <2> QED
      BY <1>a, <2>1 DEF Joined
  <1>9. CASE UNCHANGED <<open, registry, task, command, live, wanted, acked>>
    BY <1>a, <1>9 DEF registry, Joined
  <1> QED
    BY <1>1, <1>2, <1>3, <1>4, <1>5, <1>6, <1>7, <1>8, <1>9, Steps

LEMMA StepHome == TypeOK /\ HandlersAtHome /\ [Next]_vars => HandlersAtHome'
  <1> SUFFICES ASSUME TypeOK, HandlersAtHome, [Next]_vars PROVE HandlersAtHome'
    OBVIOUS
  <1>1. ASSUME NEW h \in Handlers, NEW ch \in Channels, BusSubscribe(h, ch) \/ BusUnsubscribe(h, ch)
        PROVE  HandlersAtHome'
    <2>1. NodeOf[h] \in Nodes
      BY RegistryConstants DEF Listeners
    <2>2. \/ bus' = [bus EXCEPT ![NodeOf[h]][ch] = @ \cup {h}]
          \/ bus' = [bus EXCEPT ![NodeOf[h]][ch] = @ \ {h}]
      BY <1>1 DEF BusSubscribe, BusUnsubscribe
    <2>3. CASE bus' = [bus EXCEPT ![NodeOf[h]][ch] = @ \cup {h}]
      <3>1. \A m \in Nodes, k \in Channels :
              bus'[m][k] = IF m = NodeOf[h] /\ k = ch THEN bus[m][k] \cup {h} ELSE bus[m][k]
        BY <2>1, <2>3 DEF TypeOK
      <3> SUFFICES ASSUME NEW m \in Nodes, NEW k \in Channels, NEW g \in bus'[m][k]
                   PROVE  NodeOf[g] = m
        BY DEF HandlersAtHome
      <3>2. g \in bus[m][k] \/ (m = NodeOf[h] /\ g = h)
        BY <3>1, ZenonT(60)
      <3> QED
        BY <3>2 DEF HandlersAtHome
    <2>4. CASE bus' = [bus EXCEPT ![NodeOf[h]][ch] = @ \ {h}]
      <3>1. \A m \in Nodes, k \in Channels :
              bus'[m][k] = IF m = NodeOf[h] /\ k = ch THEN bus[m][k] \ {h} ELSE bus[m][k]
        BY <2>1, <2>4 DEF TypeOK
      <3> SUFFICES ASSUME NEW m \in Nodes, NEW k \in Channels, NEW g \in bus'[m][k]
                   PROVE  NodeOf[g] = m
        BY DEF HandlersAtHome
      <3>2. g \in bus[m][k] \/ (m = NodeOf[h] /\ g = h)
        BY <3>1
      <3> QED
        BY <3>2 DEF HandlersAtHome
    <2> QED
      BY <2>2, <2>3, <2>4
  <1>2. ASSUME bus' = bus PROVE HandlersAtHome'
    BY <1>2 DEF HandlersAtHome
  <1>3. bus' = bus \/ \E h \in Handlers, ch \in Channels : BusSubscribe(h, ch) \/ BusUnsubscribe(h, ch)
    BY Steps, ZenonT(60) DEF SubscribeFrame, Denied, JoinChannel, Respond, UnsubscribeFrame, SocketClosed,
                 CommandApplied, CommandFailed, registry
  <1> QED
    BY <1>1, <1>2, <1>3

LEMMA StepAcked ==
  TypeOK /\ Mirror /\ HandlersAtHome /\ JoinsAreMembers /\ AckedAreListeners /\ [Next]_vars
    => AckedAreListeners'
  <1> SUFFICES ASSUME TypeOK, Mirror, HandlersAtHome, JoinsAreMembers, AckedAreListeners, [Next]_vars,
                      NEW l \in Listeners, NEW k \in acked'[l]
               PROVE  (l \in ListenersOf(k))'
    BY DEF AckedAreListeners
  <1>a. k \in acked[l] => l \in ListenersOf(k)
    BY DEF AckedAreListeners
  <1>b. NodeOf[l] \in Nodes /\ Conns \subseteq Listeners /\ Handlers \subseteq Listeners
    BY RegistryConstants DEF Listeners
  <1>c. \A c \in Conns : c \notin Handlers
    BY RegistryConstants
  <1>0. ASSUME k \in acked[l], UNCHANGED <<open, members, bus>> PROVE (l \in ListenersOf(k))'
    BY <1>0, <1>a DEF ListenersOf
  <1>1. ASSUME NEW c \in Conns, NEW ch \in Channels, SubscribeFrame(c, ch) \/ Denied(c, ch)
        PROVE  (l \in ListenersOf(k))'
    BY <1>0, <1>1 DEF SubscribeFrame, Denied, registry
  <1>2. ASSUME NEW c \in Conns, NEW ch \in Channels, Respond(c, ch)
        PROVE  (l \in ListenersOf(k))'
    <2>1. UNCHANGED <<open, members, bus>> /\ task[c][ch] = "joined"
      BY <1>2 DEF Respond, registry
    <2>2. k \in acked[l] \/ (l = c /\ k = ch /\ c \in open /\ ch \in wanted[c])
      BY <1>2, <1>b DEF Respond, TypeOK
    <2>3. CASE l = c /\ k = ch /\ c \in open /\ ch \in wanted[c]
      <3>1. Joined(c, ch)
        BY <2>3 DEF JoinsAreMembers
      <3> QED
        BY <2>1, <2>3, <3>1 DEF Joined, ListenersOf
    <2> QED
      BY <1>0, <2>1, <2>2, <2>3
  <1>3. ASSUME NEW c \in Conns, NEW ch \in Channels, JoinChannel(c, ch)
        PROVE  (l \in ListenersOf(k))'
    <2>1. k \in acked[l] /\ k \in Channels /\ open' = open /\ bus' = bus
      BY <1>3 DEF JoinChannel, TypeOK
    <2>2. \A d \in Conns : d \in members[NodeOf[d]][k] => d \in members'[NodeOf[d]][k]
      BY <1>3, RegistryConstants, <2>1 DEF JoinChannel, TypeOK, Listeners
    <2> QED
      BY <1>a, <2>1, <2>2 DEF ListenersOf, TypeOK
  <1>4. ASSUME NEW c \in Conns, NEW chs \in SUBSET Channels, Left(c, chs), bus' = bus,
               open' = open \/ (open' = open \ {c} /\ chs = channels[c])
        PROVE  (l \in ListenersOf(k))'
    <2>0. acked'[l] = IF l = c THEN acked[l] \ chs ELSE acked[l]
      BY <1>4 DEF Left
    <2>1. k \in acked[l] /\ k \in Channels /\ ~ (l = c /\ k \in chs)
      BY <2>0 DEF TypeOK
    <2>2. CASE l \in Handlers
      BY <1>4, <1>a, <1>c, <2>1, <2>2 DEF ListenersOf, TypeOK
    <2>3. CASE l \in Conns
      <3>1. l \in open /\ l \in members[NodeOf[l]][k]
        BY <1>a, <1>c, <2>1, <2>3 DEF ListenersOf
      <3>2. l \in open'
        <4>1. CASE l = c
          BY <1>4, <2>1, <2>3, <3>1, <4>1 DEF Mirror
        <4>2. CASE l # c
          BY <1>4, <3>1, <4>2
        <4> QED
          BY <4>1, <4>2
      <3>3. \/ members'[NodeOf[l]][k] = members[NodeOf[l]][k]
            \/ members'[NodeOf[l]][k] = members[NodeOf[l]][k] \ {c} /\ l # c
        BY <1>4, <1>b, <2>1 DEF Left
      <3> QED
        BY <3>1, <3>2, <3>3 DEF ListenersOf
    <2> QED
      BY <2>2, <2>3 DEF Listeners
  <1>5. ASSUME NEW c \in Conns, NEW ch \in Channels, UnsubscribeFrame(c, ch)
        PROVE  (l \in ListenersOf(k))'
    BY <1>4, <1>5, LeaveLeft DEF UnsubscribeFrame
  <1>6. ASSUME NEW c \in Conns, SocketClosed(c) PROVE (l \in ListenersOf(k))'
    <2>1. channels[c] \in SUBSET Channels
      BY DEF TypeOK
    <2> QED
      BY <1>4, <1>6, <2>1, LeaveLeft DEF SocketClosed
  <1>7. ASSUME NEW h \in Handlers, NEW ch \in Channels, BusSubscribe(h, ch)
        PROVE  (l \in ListenersOf(k))'
    <2>1. /\ open' = open /\ members' = members
          /\ k \in acked[l] \/ (l = h /\ k = ch)
      BY <1>7, <1>b DEF BusSubscribe, TypeOK
    <2>2. /\ h \in bus'[NodeOf[h]][ch]
          /\ \A g \in Handlers : g \in bus[NodeOf[g]][k] => g \in bus'[NodeOf[g]][k]
      BY <1>7, <1>b, <2>1, RegistryConstants DEF BusSubscribe, TypeOK
    <2> QED
      BY <1>a, <2>1, <2>2 DEF ListenersOf
  <1>8. ASSUME NEW h \in Handlers, NEW ch \in Channels, BusUnsubscribe(h, ch)
        PROVE  (l \in ListenersOf(k))'
    <2>1. /\ open' = open /\ members' = members
          /\ k \in acked[l] /\ ~ (l = h /\ k = ch)
      BY <1>8, <1>b DEF BusUnsubscribe, TypeOK
    <2>2. l \in Handlers /\ l \in bus[NodeOf[l]][k] => l \in bus'[NodeOf[l]][k]
      BY <1>8, <1>b, <2>1 DEF BusUnsubscribe, TypeOK
    <2> QED
      BY <1>a, <2>1, <2>2 DEF ListenersOf
  <1>9. ASSUME NEW n \in Nodes, NEW ch \in Channels, CommandApplied(n, ch)
        PROVE  (l \in ListenersOf(k))'
    <2>1. UNCHANGED <<open, members, bus>>
      BY <1>9 DEF CommandApplied, registry
    <2>2. \/ k \in acked[l]
          \/ l \in Handlers /\ l \in bus[n][ch] /\ k = ch
      BY <1>9 DEF CommandApplied, TypeOK
    <2>3. l \in Handlers /\ l \in bus[n][ch] /\ k = ch => (l \in ListenersOf(k))'
      BY <2>1 DEF HandlersAtHome, ListenersOf
    <2> QED
      BY <1>0, <2>1, <2>2, <2>3
  <1>10. ASSUME NEW n \in Nodes, NEW ch \in Channels, CommandFailed(n, ch)
         PROVE  (l \in ListenersOf(k))'
    BY <1>0, <1>10 DEF CommandFailed, registry
  <1>11. CASE UNCHANGED <<open, registry, task, command, live, wanted, acked>>
    BY <1>0, <1>11 DEF registry
  <1> QED
    BY <1>1, <1>2, <1>3, <1>5, <1>6, <1>7, <1>8, <1>9, <1>10, <1>11, Steps

LEMMA InitAcked ==
  Init => SubscriptionTracksInterest /\ Mirror /\ HandlersAtHome /\ JoinsAreMembers
          /\ AckedAreListeners /\ AnswersAwaited
  <1> SUFFICES ASSUME Init PROVE Mirror /\ HandlersAtHome /\ JoinsAreMembers
                                 /\ AckedAreListeners /\ AnswersAwaited
    BY InitTracks
  <1>1. \A c \in Conns : NodeOf[c] \in Nodes
    BY RegistryConstants DEF Listeners
  <1>2. Mirror
    BY <1>1 DEF Init, Mirror
  <1>3. HandlersAtHome /\ JoinsAreMembers /\ AckedAreListeners
    BY DEF Init, HandlersAtHome, JoinsAreMembers, AckedAreListeners
  <1>4. AnswersAwaited
    <2>1. \A n \in Nodes, ch \in Channels : 1..Len(pipe[n][ch]) = {}
      BY EmptySeq DEF Init
    <2> QED
      BY <2>1 DEF AnswersAwaited
  <1> QED
    BY <1>2, <1>3, <1>4

LEMMA Inductive == IInv /\ [Next]_vars => IInv'
  BY StepType, StepTracks, StepMirror, StepHome, StepJoins, StepAwaited, StepAcked DEF IInv

\* An acknowledged listener's node wants the channel, so a quiet pipe means it is live.
LEMMA AckedIsWanted == IInv => AckedAndQuietIsLive
  <1> SUFFICES ASSUME IInv, NEW l \in Listeners, NEW ch \in acked[l]
               PROVE  /\ l \in ListenersOf(ch)
                      /\ pipe[NodeOf[l]][ch] = <<>> /\ ch \notin drift[NodeOf[l]]
                           => ch \in live[NodeOf[l]]
    BY DEF AckedAndQuietIsLive
  <1>1. NodeOf[l] \in Nodes /\ ch \in Channels
    BY RegistryConstants DEF IInv, TypeOK
  <1>2. l \in ListenersOf(ch)
    BY DEF IInv, AckedAreListeners
  <1>3. Interest(NodeOf[l], ch)
    BY <1>2 DEF ListenersOf, Interest
  <1> QED
    BY <1>1, <1>2, <1>3 DEF IInv, SubscriptionTracksInterest, Desired

\* An acknowledgement is never a dead letter: its holder is a member, and once the adapter
\* has caught up the broker routes the channel to the holder's node.
THEOREM AcknowledgedCorrect == Spec => []AckedAndQuietIsLive
  <1>1. Init => IInv
    BY InitType, InitAcked DEF IInv
  <1> QED
    BY <1>1, Inductive, AckedIsWanted, PTL DEF Spec
=============================================================================
