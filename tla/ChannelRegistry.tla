-------------------------- MODULE ChannelRegistry --------------------------
(***************************************************************************)
(* The channel registry of packages/server: which connections and which    *)
(* server-side bus subscribers of a node are members of a channel, and the *)
(* subscription the node holds on the pub/sub adapter on their behalf.     *)
(*                                                                         *)
(* A channel is a topic or a room.  joinChannel and leaveChannel serve     *)
(* both; only the shared topics have bus subscribers (srv.subscribe), so   *)
(* BusChannels names the channels where those may appear.                  *)
(* A node talks to the adapter asynchronously: subscribe and unsubscribe   *)
(* are commands that take effect at the broker later, in the order they    *)
(* were issued per channel (one connection per node).  Publications travel *)
(* on another connection and are not ordered with the commands.            *)
(***************************************************************************)
EXTENDS Naturals, Sequences, FiniteSets

CONSTANTS
  Nodes,            \* server processes sharing one adapter
  Conns,            \* client connections; an id is never reused
  Handlers,         \* callbacks passed to srv.subscribe
  NodeOf,           \* the node that owns a connection or a handler
  Channels,         \* namespaced channels: t:<ns>:<topic> and r:<room>
  BusChannels,      \* the shared topics, where srv.subscribe works
  NoOne,            \* nobody waits for the answer to an adapter command
  MaxPipe,          \* bound: adapter commands of one node and channel in flight
  MaxPublications,  \* bound: publications of one behaviour
  MaxFailures       \* bound: commands and publications that fail, frames that are refused

Listeners == Conns \cup Handlers

ASSUME RegistryConstants ==
  /\ NodeOf \in [Listeners -> Nodes]
  /\ Conns \cap Handlers = {}
  /\ NoOne \notin Listeners
  /\ BusChannels \subseteq Channels
  /\ MaxPipe \in Nat /\ MaxPublications \in Nat /\ MaxFailures \in Nat

Command == [op : {"subscribe", "unsubscribe"}, by : Listeners \cup {NoOne}]
Publication == [id : 1..MaxPublications, from : Nodes, channel : Channels]

VARIABLES
  open,        \* `conns`: the connections whose socket is open
  channels,    \* conn.channels, per connection
  members,     \* `members`, per node: channel -> connections
  bus,         \* `busListeners`, per node: channel -> handlers
  task,        \* handleSub, or a room.add inside a handler, per connection and channel
  pipe,        \* adapter commands the broker has not applied, per node and channel
  live,        \* channels the broker routes to each node
  outbox,      \* publications on their way to the broker
  inbox,       \* publications on their way to each node
  validating,  \* bus frames whose payload is being validated, per node
  published,   \* number of publications so far
  failures,    \* number of failures so far
  drift,       \* ghost: channels a failed command left different from what the node wants
  wanted,      \* ghost: channels the last word of the client (or handler) asks for
  acked,       \* ghost: channels whose `res` (or `ready`) the listener holds
  delivered,   \* ghost: times each publication reached each listener
  owed         \* ghost: publications and the listeners they must still be able to reach

registry == <<channels, members, bus>>
command  == <<pipe, drift>>
traffic  == <<outbox, inbox, validating, published, delivered>>
vars == <<open, registry, task, command, live, traffic, failures, wanted, acked, owed>>

TypeOK ==
  /\ open \subseteq Conns
  /\ channels \in [Conns -> SUBSET Channels]
  /\ members \in [Nodes -> [Channels -> SUBSET Conns]]
  /\ bus \in [Nodes -> [Channels -> SUBSET Handlers]]
  /\ task \in [Conns -> [Channels -> {"idle", "deciding", "joining", "joined"}]]
  /\ pipe \in [Nodes -> [Channels -> Seq(Command)]]
  /\ live \in [Nodes -> SUBSET Channels]
  /\ outbox \subseteq Publication
  /\ inbox \in [Nodes -> SUBSET Publication]
  /\ validating \in [Nodes -> SUBSET Publication]
  /\ published \in 0..MaxPublications
  /\ failures \in 0..MaxFailures
  /\ drift \in [Nodes -> SUBSET Channels]
  /\ wanted \in [Conns -> SUBSET Channels]
  /\ acked \in [Listeners -> SUBSET Channels]
  /\ delivered \in [1..MaxPublications -> [Listeners -> Nat]]
  /\ owed \subseteq Publication \X Listeners

Init ==
  /\ open = Conns
  /\ channels = [c \in Conns |-> {}]
  /\ members = [n \in Nodes |-> [ch \in Channels |-> {}]]
  /\ bus = [n \in Nodes |-> [ch \in Channels |-> {}]]
  /\ task = [c \in Conns |-> [ch \in Channels |-> "idle"]]
  /\ pipe = [n \in Nodes |-> [ch \in Channels |-> <<>>]]
  /\ live = [n \in Nodes |-> {}]
  /\ outbox = {}
  /\ inbox = [n \in Nodes |-> {}]
  /\ validating = [n \in Nodes |-> {}]
  /\ published = 0
  /\ failures = 0
  /\ drift = [n \in Nodes |-> {}]
  /\ wanted = [c \in Conns |-> {}]
  /\ acked = [l \in Listeners |-> {}]
  /\ delivered = [i \in 1..MaxPublications |-> [l \in Listeners |-> 0]]
  /\ owed = {}

-----------------------------------------------------------------------------
(* What a node wants from the adapter, and what it will have once the      *)
(* commands in flight have been applied.                                   *)

Interest(n, ch) == members[n][ch] # {} \/ bus[n][ch] # {}

LastOp(cmds) == cmds[Len(cmds)].op

Desired(n, ch) ==
  IF pipe[n][ch] = <<>> THEN ch \in live[n] ELSE LastOp(pipe[n][ch]) = "subscribe"

\* The broker routes the channel to the node and no command of it is in flight.
Established(n, ch) == pipe[n][ch] = <<>> /\ ch \in live[n]

\* adapter.subscribe or adapter.unsubscribe, for every channel of `chs`: one more command
\* behind those of the channel.
Issue(n, chs, op, who) ==
  /\ \A ch \in chs : Len(pipe[n][ch]) < MaxPipe
  /\ pipe' = [pipe EXCEPT ![n] = [ch \in Channels |->
        IF ch \in chs THEN Append(@[ch], [op |-> op, by |-> who]) ELSE @[ch]]]
  /\ drift' = [drift EXCEPT ![n] = @ \ chs]

\* The listeners that are members of a channel, on any node.
ListenersOf(ch) ==
  {c \in open : c \in members[NodeOf[c]][ch]} \cup {h \in Handlers : h \in bus[NodeOf[h]][ch]}

-----------------------------------------------------------------------------
(* Subscribing: the sub frame, the decision, joinChannel, the answer.      *)

\* A `sub` frame reaches handleSub (or a request handler starts that will call
\* room(r).add): middleware and authorizeSubscribe run before anything is joined.
\* One such operation per connection and channel is in flight.
SubscribeFrame(c, ch) ==
  /\ c \in open /\ task[c][ch] = "idle"
  /\ task' = [task EXCEPT ![c][ch] = "deciding"]
  /\ wanted' = [wanted EXCEPT ![c] = @ \cup {ch}]
  /\ UNCHANGED <<open, registry, command, live, traffic, failures, acked, owed>>

\* authorizeSubscribe returned false, or it or a middleware threw: `err`, nothing joined.
Denied(c, ch) ==
  /\ task[c][ch] = "deciding"
  /\ task' = [task EXCEPT ![c][ch] = "idle"]
  /\ wanted' = [wanted EXCEPT ![c] = @ \ {ch}]
  /\ UNCHANGED <<open, registry, command, live, traffic, failures, acked, owed>>

\* joinChannel, after the await: the first local member of either kind subscribes.  The
\* connection may have closed or unsubscribed meanwhile; nothing looks again.
JoinChannel(c, ch) ==
  LET n == NodeOf[c]
      first == ~ Interest(n, ch) IN
  /\ task[c][ch] = "deciding"
  /\ channels' = [channels EXCEPT ![c] = @ \cup {ch}]
  /\ members' = [members EXCEPT ![n][ch] = @ \cup {c}]
  /\ Issue(n, IF first THEN {ch} ELSE {}, "subscribe", c)
  /\ task' = [task EXCEPT ![c][ch] = IF first THEN "joining" ELSE "joined"]
  /\ UNCHANGED <<open, bus, live, traffic, failures, wanted, acked, owed>>

\* conn.send({ t: 'res' }): dropped when the socket is not writable any more.
Respond(c, ch) ==
  /\ task[c][ch] = "joined"
  /\ task' = [task EXCEPT ![c][ch] = "idle"]
  /\ acked' = IF c \in open /\ ch \in wanted[c]
                THEN [acked EXCEPT ![c] = @ \cup {ch}] ELSE acked
  /\ UNCHANGED <<open, registry, command, live, traffic, failures, wanted, owed>>

-----------------------------------------------------------------------------
(* Leaving: one channel (unsub, room.remove) or all of them (the socket's  *)
(* close handler).                                                         *)

\* Faulty: unsubscribes without looking at the bus handlers of the channel.
LeaveIgnoringHandlers(c, chs) ==
  LET n == NodeOf[c] IN
  /\ channels' = [channels EXCEPT ![c] = @ \ {ch \in chs : members[n][ch] # {}}]
  /\ members' = [members EXCEPT ![n] = [ch \in Channels |->
        IF ch \in chs THEN @[ch] \ {c} ELSE @[ch]]]
  /\ Issue(n, {ch \in chs : members[n][ch] = {c}}, "unsubscribe", NoOne)
  /\ acked' = [acked EXCEPT ![c] = @ \ chs]
  /\ owed' = {o \in owed : ~ (o[2] = c /\ o[1].channel \in chs)}

\* Faulty: a departed member's channel is never given back to the adapter.
LeaveKeepingSubscription(c, chs) ==
  LET n == NodeOf[c] IN
  /\ channels' = [channels EXCEPT ![c] = @ \ {ch \in chs : members[n][ch] # {}}]
  /\ members' = [members EXCEPT ![n] = [ch \in Channels |->
        IF ch \in chs THEN @[ch] \ {c} ELSE @[ch]]]
  /\ acked' = [acked EXCEPT ![c] = @ \ chs]
  /\ owed' = {o \in owed : ~ (o[2] = c /\ o[1].channel \in chs)}
  /\ UNCHANGED command

\* leaveChannel of one connection for every channel of `chs`: where it was the last local
\* member of either kind, the node unsubscribes.
LeaveChannels(c, chs) ==
  LET n == NodeOf[c] IN
  /\ channels' = [channels EXCEPT ![c] = @ \ {ch \in chs : members[n][ch] # {}}]
  /\ members' = [members EXCEPT ![n] = [ch \in Channels |->
        IF ch \in chs THEN @[ch] \ {c} ELSE @[ch]]]
  /\ Issue(n, {ch \in chs : members[n][ch] = {c} /\ bus[n][ch] = {}}, "unsubscribe", NoOne)
  /\ acked' = [acked EXCEPT ![c] = @ \ chs]
  /\ owed' = {o \in owed : ~ (o[2] = c /\ o[1].channel \in chs)}

\* An `unsub` frame, or room(r).remove.  A subscribe still being decided goes on.
UnsubscribeFrame(c, ch) ==
  /\ c \in open
  /\ wanted' = [wanted EXCEPT ![c] = @ \ {ch}]
  /\ LeaveChannels(c, {ch})
  /\ UNCHANGED <<open, bus, task, live, traffic, failures>>

\* raw.onClose: out of `conns`, out of every channel in conn.channels.
SocketClosed(c) ==
  /\ c \in open
  /\ open' = open \ {c}
  /\ wanted' = [wanted EXCEPT ![c] = {}]
  /\ LeaveChannels(c, channels[c])
  /\ UNCHANGED <<bus, task, live, traffic, failures>>

-----------------------------------------------------------------------------
(* The server-side bus: srv.subscribe and the unsubscribe it returns.      *)

BusSubscribe(h, ch) ==
  LET n == NodeOf[h]
      first == ~ Interest(n, ch) IN
  /\ ch \in BusChannels /\ h \notin bus[n][ch]
  /\ bus' = [bus EXCEPT ![n][ch] = @ \cup {h}]
  /\ Issue(n, IF first THEN {ch} ELSE {}, "subscribe", h)
  /\ acked' = IF first THEN acked ELSE [acked EXCEPT ![h] = @ \cup {ch}]
  /\ UNCHANGED <<open, channels, members, task, live, traffic, failures, wanted, owed>>

\* Faulty: the last handler gives the channel back although connections are members.
BusUnsubscribeIgnoringMembers(h, ch) ==
  LET n == NodeOf[h]
      emptied == bus[n][ch] = {h} IN
  /\ h \in bus[n][ch]
  /\ bus' = [bus EXCEPT ![n][ch] = @ \ {h}]
  /\ Issue(n, IF emptied THEN {ch} ELSE {}, "unsubscribe", NoOne)
  /\ validating' = [validating EXCEPT ![n] =
        IF emptied THEN {p \in @ : p.channel # ch} ELSE @]
  /\ acked' = [acked EXCEPT ![h] = @ \ {ch}]
  /\ owed' = {o \in owed : ~ (o[2] = h /\ o[1].channel = ch)}
  /\ UNCHANGED <<open, channels, members, task, live, outbox, inbox, published,
                 delivered, failures, wanted>>

\* The last handler takes the channel's Set with it: a validation in flight holds the
\* emptied Set, not one a later subscriber creates.
BusUnsubscribe(h, ch) ==
  LET n == NodeOf[h]
      emptied == bus[n][ch] = {h} IN
  /\ h \in bus[n][ch]
  /\ bus' = [bus EXCEPT ![n][ch] = @ \ {h}]
  /\ Issue(n, IF emptied /\ members[n][ch] = {} THEN {ch} ELSE {}, "unsubscribe", NoOne)
  /\ validating' = [validating EXCEPT ![n] =
        IF emptied THEN {p \in @ : p.channel # ch} ELSE @]
  /\ acked' = [acked EXCEPT ![h] = @ \ {ch}]
  /\ owed' = {o \in owed : ~ (o[2] = h /\ o[1].channel = ch)}
  /\ UNCHANGED <<open, channels, members, task, live, outbox, inbox, published,
                 delivered, failures, wanted>>

-----------------------------------------------------------------------------
(* The adapter applies the commands of a channel in order, or fails one.   *)

\* Faulty: the promise of the join is lost when its connection has left meanwhile.
AppliedForMembersOnly(n, ch) ==
  LET cmd == Head(pipe[n][ch]) IN
  /\ pipe[n][ch] # <<>>
  /\ pipe' = [pipe EXCEPT ![n][ch] = Tail(@)]
  /\ live' = [live EXCEPT ![n] = IF cmd.op = "subscribe" THEN @ \cup {ch} ELSE @ \ {ch}]
  /\ task' = IF cmd.by \in members[n][ch] THEN [task EXCEPT ![cmd.by][ch] = "joined"] ELSE task
  /\ acked' = IF cmd.by \in Handlers /\ cmd.by \in bus[n][ch]
                THEN [acked EXCEPT ![cmd.by] = @ \cup {ch}] ELSE acked
  /\ UNCHANGED <<open, registry, traffic, failures, drift, wanted, owed>>

\* The promise of a subscribe resolves: the join that waits for it, or the handler's ready.
CommandApplied(n, ch) ==
  LET cmd == Head(pipe[n][ch]) IN
  /\ pipe[n][ch] # <<>>
  /\ pipe' = [pipe EXCEPT ![n][ch] = Tail(@)]
  /\ live' = [live EXCEPT ![n] = IF cmd.op = "subscribe" THEN @ \cup {ch} ELSE @ \ {ch}]
  /\ task' = IF cmd.by \in Conns THEN [task EXCEPT ![cmd.by][ch] = "joined"] ELSE task
  /\ acked' = IF cmd.by \in Handlers /\ cmd.by \in bus[n][ch]
                THEN [acked EXCEPT ![cmd.by] = @ \cup {ch}] ELSE acked
  /\ UNCHANGED <<open, registry, traffic, failures, drift, wanted, owed>>

\* Faulty: a rejected command leaves the join in a state of its own.
CommandFailedForGood(n, ch) ==
  LET cmd == Head(pipe[n][ch]) IN
  /\ pipe[n][ch] # <<>> /\ failures < MaxFailures
  /\ failures' = failures + 1
  /\ pipe' = [pipe EXCEPT ![n][ch] = Tail(@)]
  /\ drift' = [drift EXCEPT ![n] = @ \cup {ch}]
  /\ task' = IF cmd.by \in Conns THEN [task EXCEPT ![cmd.by][ch] = "failed"] ELSE task
  /\ UNCHANGED <<open, registry, live, traffic, acked, owed, wanted>>

\* The command is rejected.  A failed subscribe surfaces as `err` to the client that waits
\* for it, and its membership stays; a failed unsubscribe is swallowed by the adapter.
CommandFailed(n, ch) ==
  LET cmd == Head(pipe[n][ch]) IN
  /\ pipe[n][ch] # <<>> /\ failures < MaxFailures
  /\ failures' = failures + 1
  /\ pipe' = [pipe EXCEPT ![n][ch] = Tail(@)]
  /\ drift' = IF Len(pipe[n][ch]) = 1 /\ (cmd.op = "subscribe") # (ch \in live[n])
                THEN [drift EXCEPT ![n] = @ \cup {ch}] ELSE drift
  /\ task' = IF cmd.by \in Conns THEN [task EXCEPT ![cmd.by][ch] = "idle"] ELSE task
  /\ wanted' = IF cmd.by \in Conns THEN [wanted EXCEPT ![cmd.by] = @ \ {ch}] ELSE wanted
  /\ UNCHANGED <<open, registry, live, traffic, acked, owed>>

-----------------------------------------------------------------------------
(* Publishing: the local bus echo, the broker's fan-out, the delivery.     *)

Deliver(p, ls) == [delivered EXCEPT ![p.id] =
                     [l \in Listeners |-> IF l \in ls THEN @[l] + 1 ELSE @[l]]]

\* publishTo (or room.broadcast): this node's handlers are called at once, everybody else
\* is reached through the adapter, which loops the frame back to this node as well.
Publish(n, ch) ==
  LET p == [id |-> published + 1, from |-> n, channel |-> ch] IN
  /\ published < MaxPublications
  /\ published' = published + 1
  /\ delivered' = Deliver(p, bus[n][ch])
  /\ outbox' = outbox \cup {p}
  /\ owed' = owed \cup {<<p, l>> : l \in {x \in ListenersOf(ch) \ bus[n][ch] :
                                            Established(NodeOf[x], ch)}}
  /\ UNCHANGED <<open, registry, task, command, live, inbox, validating, failures,
                 wanted, acked>>

\* The broker fans the frame out to the nodes subscribed at this moment.
Route(p) ==
  /\ p \in outbox
  /\ outbox' = outbox \ {p}
  /\ inbox' = [n \in Nodes |-> IF p.channel \in live[n] THEN inbox[n] \cup {p} ELSE inbox[n]]
  /\ UNCHANGED <<open, registry, task, command, live, validating, published, delivered,
                 failures, wanted, acked, owed>>

\* adapter.publish swallows an error: the publication is lost for everyone.
PublishFailed(p) ==
  /\ p \in outbox /\ failures < MaxFailures
  /\ failures' = failures + 1
  /\ outbox' = outbox \ {p}
  /\ owed' = {o \in owed : o[1] # p}
  /\ UNCHANGED <<open, registry, task, command, live, inbox, validating, published,
                 delivered, wanted, acked>>

\* Faulty: the node's own looped-back frame reaches the bus handlers again.
ReceiveWithoutEchoCheck(n, p) ==
  /\ p \in inbox[n]
  /\ inbox' = [inbox EXCEPT ![n] = @ \ {p}]
  /\ delivered' = Deliver(p, members[n][p.channel] \cap open)
  /\ validating' = IF bus[n][p.channel] # {}
                     THEN [validating EXCEPT ![n] = @ \cup {p}] ELSE validating
  /\ UNCHANGED <<open, registry, task, command, live, outbox, published, failures,
                 wanted, acked, owed>>

\* adapter.onMessage: raw to the local members, and to the bus handlers unless it is the
\* node's own frame, whose handlers publishTo has already called.
Receive(n, p) ==
  /\ p \in inbox[n]
  /\ inbox' = [inbox EXCEPT ![n] = @ \ {p}]
  /\ delivered' = Deliver(p, members[n][p.channel] \cap open)
  /\ validating' = IF bus[n][p.channel] # {} /\ p.from # n
                     THEN [validating EXCEPT ![n] = @ \cup {p}] ELSE validating
  /\ UNCHANGED <<open, registry, task, command, live, outbox, published, failures,
                 wanted, acked, owed>>

\* deliverBus after the payload validated: the handlers that are in the Set by now.
DeliverBus(n, p) ==
  /\ p \in validating[n]
  /\ validating' = [validating EXCEPT ![n] = @ \ {p}]
  /\ delivered' = Deliver(p, bus[n][p.channel])
  /\ UNCHANGED <<open, registry, task, command, live, outbox, inbox, published, failures,
                 wanted, acked, owed>>

\* The payload does not validate against the node's own contract: the frame ends in
\* fireError, and no handler of the node is called with it.  Members got it raw.
FrameRefused(n, p) ==
  /\ p \in validating[n] /\ failures < MaxFailures
  /\ failures' = failures + 1
  /\ validating' = [validating EXCEPT ![n] = @ \ {p}]
  /\ owed' = {o \in owed : ~ (o[1] = p /\ o[2] \in Handlers /\ NodeOf[o[2]] = n)}
  /\ UNCHANGED <<open, registry, task, command, live, outbox, inbox, published, delivered,
                 wanted, acked>>

-----------------------------------------------------------------------------
Next ==
  \/ \E c \in Conns, ch \in Channels :
       \/ SubscribeFrame(c, ch) \/ Denied(c, ch) \/ JoinChannel(c, ch) \/ Respond(c, ch)
       \/ UnsubscribeFrame(c, ch)
  \/ \E c \in Conns : SocketClosed(c)
  \/ \E h \in Handlers, ch \in Channels : BusSubscribe(h, ch) \/ BusUnsubscribe(h, ch)
  \/ \E n \in Nodes, ch \in Channels :
       CommandApplied(n, ch) \/ CommandFailed(n, ch) \/ Publish(n, ch)
  \/ \E p \in outbox : Route(p) \/ PublishFailed(p)
  \/ \E n \in Nodes : \E p \in inbox[n] : Receive(n, p)
  \/ \E n \in Nodes : \E p \in validating[n] : DeliverBus(n, p) \/ FrameRefused(n, p)

\* The adapter answers every command and carries every publication, and an answered
\* subscribe is a resolved promise; hooks of the application may take for ever.
Fairness ==
  /\ \A n \in Nodes, ch \in Channels : WF_vars(CommandApplied(n, ch))
  /\ \A c \in Conns, ch \in Channels : WF_vars(Respond(c, ch))

Spec == Init /\ [][Next]_vars
FairSpec == Spec /\ Fairness
-----------------------------------------------------------------------------
(* Properties.                                                             *)

\* What the node asked of the adapter, counted to the last command in flight, is exactly
\* what its members and bus handlers need; only a command the adapter failed makes them
\* differ.  (joinChannel, leaveChannel, srv.subscribe and its unsubscribe each decide from
\* one registry whether the other still holds the channel.)
SubscriptionTracksInterest ==
  \A n \in Nodes, ch \in Channels :
    ch \notin drift[n] => (Desired(n, ch) <=> Interest(n, ch))

\* No connection and no bus handler sees a publication twice, although the publishing node
\* both calls its handlers at once and receives its own frame back from the adapter.
AtMostOnce ==
  \A i \in 1..MaxPublications, l \in Listeners : delivered[i][l] <= 1

\* A publication issued while a member's channel is established at the broker reaches that
\* member, whatever joins and leaves happen until then, as long as it stays a member, the
\* adapter does not lose the frame and, for a bus handler, its payload validates.
OwedIsDelivered ==
  \A o \in owed :
    LET n == NodeOf[o[2]] IN
    o[1] \in outbox \cup inbox[n] \cup validating[n] \/ delivered[o[1].id][o[2]] = 1

\* A listener that holds its acknowledgement is a member, and once no command of the channel
\* is in flight the broker does route the channel to its node.
AckedAndQuietIsLive ==
  \A l \in Listeners : \A ch \in acked[l] :
    /\ l \in ListenersOf(ch)
    /\ pipe[NodeOf[l]][ch] = <<>> /\ ch \notin drift[NodeOf[l]] => ch \in live[NodeOf[l]]

\* "await adapter.subscribe so ready == active" (handleSub): a client that holds its `res`
\* is subscribed at the broker.  The code breaks this for a second member.
AckedIsActive ==
  \A c \in Conns : \A ch \in acked[c] : ch \in live[NodeOf[c]]

\* The broker ends up routing what the node needs, and nothing it does not need.
BrokerFollowsInterest ==
  \A n \in Nodes, ch \in Channels :
    /\ Interest(n, ch) ~> (ch \in live[n] \/ ~ Interest(n, ch) \/ ch \in drift[n])
    /\ ~ Interest(n, ch) ~> (ch \notin live[n] \/ Interest(n, ch) \/ ch \in drift[n])

\* A subscribe that reached joinChannel is answered: no join waits for ever for an
\* acknowledgement that another join's command has taken.
JoinIsAnswered ==
  \A c \in Conns, ch \in Channels : task[c][ch] = "joining" ~> task[c][ch] = "idle"
=============================================================================
