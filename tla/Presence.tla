------------------------------ MODULE Presence ------------------------------
(***************************************************************************)
(* The cluster-wide directory of connections: what packages/server writes  *)
(* to adapter.presence as connections come, join rooms and go, and how     *)
(* packages/adapter-redis carries that out.                                *)
(*                                                                         *)
(* A node sends its Redis commands over one connection: they are executed  *)
(* in the order they were issued, and answered in that order, later.  An   *)
(* operation that reads first (del, addRoom, removeRoom, clearNode) issues *)
(* its write when the answer arrives, behind whatever was issued meanwhile.*)
(* A pipeline is executed at once.  K_CONNS, the node's set and the user's *)
(* set are written together, and are one index here.                       *)
(***************************************************************************)
EXTENDS Naturals, SequencesExt

CONSTANTS
  Nodes,       \* server processes
  Conns,       \* connections; an id is never reused
  NodeOf,      \* the node a connection is accepted on
  Rooms,       \* the rooms of a run: finitely many
  Beating,     \* the nodes whose heartbeat timer runs
  MaxMoves,    \* bound, per connection: room.add and room.remove calls (one after the close)
  NoConn, NoRoom, NoDescriptor

ASSUME PresenceConstants ==
  /\ NodeOf \in [Conns -> Nodes] /\ Beating \subseteq Nodes /\ MaxMoves \in [Conns -> Nat]
  /\ IsFiniteSet(Rooms)
  /\ NoConn \notin Conns /\ NoRoom \notin Rooms /\ \A rs \in SUBSET Rooms : NoDescriptor # rs

\* `of` is the operation the command belongs to; `rooms` is what a write was computed from.
Command == [op : {"set", "get", "put", "drop", "members", "wipe"},
            of : {"set", "addRoom", "removeRoom", "del", "clearNode"},
            conn : Conns \cup {NoConn}, room : Rooms \cup {NoRoom}, rooms : SUBSET Rooms]
\* The answer to a get is a descriptor, to members a set of connections.
Answer == [to : Command, found : {NoDescriptor} \cup (SUBSET Rooms) \cup (SUBSET Conns)]
RoomWrite == [of : {"addRoom", "removeRoom"}, room : Rooms]

VARIABLES
  \* the server
  node,        \* up, closing (clearNode is running) or down
  open,        \* `conns`
  registered,  \* conn.registered: none, joining, setting or done
  rooms,       \* the rooms in conn.channels
  snapshot,    \* the rooms of buildDescriptor, from accept to the announcement
  deferred,    \* afterRegistered: writes chained behind conn.registered
  left,        \* clearNode: connections still to be deleted
  moves,       \* room calls so far
  \* the connection to Redis
  pipe,        \* commands not executed yet
  answers,     \* answers the node has not handled yet
  \* Redis and the broker
  descriptor,  \* sl:conn:<id>
  index,       \* sl:conns, sl:node:<n>, sl:user:<u>
  inRoom,      \* sl:room:<r>
  alive,       \* sl:alive:<n>
  reachable,   \* the connections whose personal channel the broker routes
  overlap      \* ghost: connections one of whose room writes began before another ended

server == <<node, open, registered, rooms, snapshot, deferred, left, moves>>
redis == <<descriptor, index, inRoom, alive>>
vars == <<server, pipe, answers, redis, reachable, overlap>>

TypeOK ==
  /\ node \in [Nodes -> {"up", "closing", "down"}]
  /\ open \subseteq Conns
  /\ registered \in [Conns -> {"none", "joining", "setting", "done"}]
  /\ rooms \in [Conns -> SUBSET Rooms]
  /\ snapshot \in [Conns -> SUBSET Rooms]
  /\ deferred \in [Conns -> Seq(RoomWrite)]
  /\ left \in [Nodes -> SUBSET Conns]
  /\ moves \in [Conns -> Nat] /\ \A c \in Conns : moves[c] <= MaxMoves[c]
  /\ pipe \in [Nodes -> Seq(Command)]
  /\ answers \in [Nodes -> Seq(Answer)]
  /\ descriptor \in [Conns -> {NoDescriptor} \cup SUBSET Rooms]
  /\ index \subseteq Conns
  /\ inRoom \in [Rooms -> SUBSET Conns]
  /\ alive \subseteq Nodes
  /\ reachable \subseteq Conns
  /\ overlap \subseteq Conns

Init ==
  /\ node = [n \in Nodes |-> "up"]
  /\ open = {}
  /\ registered = [c \in Conns |-> "none"]
  /\ rooms = [c \in Conns |-> {}]
  /\ snapshot = [c \in Conns |-> {}]
  /\ deferred = [c \in Conns |-> <<>>]
  /\ left = [n \in Nodes |-> {}]
  /\ moves = [c \in Conns |-> 0]
  /\ pipe = [n \in Nodes |-> <<>>]
  /\ answers = [n \in Nodes |-> <<>>]
  /\ descriptor = [c \in Conns |-> NoDescriptor]
  /\ index = {}
  /\ inRoom = [r \in Rooms |-> {}]
  /\ alive = {}
  /\ reachable = {}
  /\ overlap = {}

-----------------------------------------------------------------------------
(* Commands and answers.                                                   *)

Get(of, c, r) == [op |-> "get", of |-> of, conn |-> c, room |-> r, rooms |-> {}]
NodeCommand(op) ==
  [op |-> op, of |-> "clearNode", conn |-> NoConn, room |-> NoRoom, rooms |-> {}]

\* pub.get(kConn(c)), for each of these room writes in turn.
Gets(c, writes) == [i \in DOMAIN writes |-> Get(writes[i].of, c, writes[i].room)]

Send(n, cmds) == pipe' = [pipe EXCEPT ![n] = @ \o cmds]

Running(n) == node[n] # "down"

\* A room write of the connection that has begun and not ended.
RoomWrites == {"addRoom", "removeRoom"}
Unsettled(c) ==
  LET n == NodeOf[c] IN
  \/ deferred[c] # <<>>
  \/ \E i \in DOMAIN pipe[n] : pipe[n][i].conn = c /\ pipe[n][i].of \in RoomWrites
  \/ \E i \in DOMAIN answers[n] : answers[n][i].to.conn = c /\ answers[n][i].to.of \in RoomWrites

-----------------------------------------------------------------------------
(* The server: a connection comes, joins and leaves rooms, and goes.       *)

\* presence.set(descriptor), as the node issues it.
Announce(c) ==
  Send(NodeOf[c], <<[op |-> "set", of |-> "set", conn |-> c, room |-> NoRoom,
                     rooms |-> snapshot[c]]>>)

\* Faulty: announces first, while the channel is being subscribed.
AnnounceFirst(c, rs) ==
  /\ node[NodeOf[c]] # "down" /\ registered[c] = "none"
  /\ Cardinality(rs) <= MaxMoves[c] /\ moves' = [moves EXCEPT ![c] = Cardinality(rs)]
  /\ open' = open \cup {c}
  /\ rooms' = [rooms EXCEPT ![c] = rs]
  /\ snapshot' = [snapshot EXCEPT ![c] = rs]
  /\ registered' = [registered EXCEPT ![c] = "joining"]
  /\ Announce(c)
  /\ UNCHANGED <<node, deferred, left, answers, redis, reachable, overlap>>

\* acceptConn: onConnection may join rooms (they are in the descriptor already; the addRoom
\* they trigger finds nothing), then the personal channel is subscribed.
Accept(c, rs) ==
  /\ node[NodeOf[c]] # "down" /\ registered[c] = "none"
  /\ Cardinality(rs) <= MaxMoves[c] /\ moves' = [moves EXCEPT ![c] = Cardinality(rs)]
  /\ open' = open \cup {c}
  /\ rooms' = [rooms EXCEPT ![c] = rs]
  /\ snapshot' = [snapshot EXCEPT ![c] = rs]
  /\ registered' = [registered EXCEPT ![c] = "joining"]
  /\ UNCHANGED <<node, deferred, left, pipe, answers, redis, reachable, overlap>>

\* The adapter has subscribed the personal channel (and gives it back at once if the
\* connection is gone): `reachable` resolves, and the descriptor is announced.
Reachable(c) ==
  /\ Running(NodeOf[c]) /\ registered[c] = "joining"
  /\ registered' = [registered EXCEPT ![c] = "setting"]
  /\ reachable' = IF c \in open THEN reachable \cup {c} ELSE reachable
  /\ Announce(c)
  /\ snapshot' = [snapshot EXCEPT ![c] = {}]
  /\ UNCHANGED <<node, open, rooms, deferred, left, moves, answers, redis, overlap>>

\* Faulty: the write does not wait for the announcement.
WriteAtOnce(c, writes) ==
  Send(NodeOf[c], Gets(c, writes)) /\ UNCHANGED deferred

\* Writes of the descriptor's rooms wait for the announcement.
AfterRegistered(c, writes) ==
  IF registered[c] = "done"
    THEN Send(NodeOf[c], Gets(c, writes)) /\ UNCHANGED deferred
    ELSE deferred' = [deferred EXCEPT ![c] = @ \o writes] /\ UNCHANGED pipe

\* room(r).add(conn), by the application; nothing asks whether the connection is still open.
JoinRoom(c, r) ==
  /\ registered[c] # "none" /\ Running(NodeOf[c]) /\ moves[c] < MaxMoves[c] /\ r \notin rooms[c]
  /\ moves' = [moves EXCEPT ![c] = IF c \in open THEN @ + 1 ELSE MaxMoves[c]]
  /\ rooms' = [rooms EXCEPT ![c] = @ \cup {r}]
  /\ overlap' = IF Unsettled(c) THEN overlap \cup {c} ELSE overlap
  /\ AfterRegistered(c, <<[of |-> "addRoom", room |-> r]>>)
  /\ UNCHANGED <<node, open, registered, snapshot, left, answers, redis, reachable>>

LeaveRoom(c, r) ==
  /\ registered[c] # "none" /\ Running(NodeOf[c]) /\ moves[c] < MaxMoves[c] /\ r \in rooms[c]
  /\ moves' = [moves EXCEPT ![c] = IF c \in open THEN @ + 1 ELSE MaxMoves[c]]
  /\ rooms' = [rooms EXCEPT ![c] = @ \ {r}]
  /\ overlap' = IF Unsettled(c) THEN overlap \cup {c} ELSE overlap
  /\ AfterRegistered(c, <<[of |-> "removeRoom", room |-> r]>>)
  /\ UNCHANGED <<node, open, registered, snapshot, left, answers, redis, reachable>>

\* raw.onClose: leaveChannel of every room, chained behind conn.registered; presence.del, which
\* is not chained.  The chained writes are issued after the handler, behind del's get, although
\* they come first in it: what del drops, a removeRoom that read it before may write again.
SocketClosed(c) ==
  LET removals == [i \in 1..Cardinality(rooms[c]) |->
                     [of |-> "removeRoom", room |-> SetToSeq(rooms[c])[i]]]
      del == <<Get("del", c, NoRoom)>> IN
  /\ c \in open /\ Running(NodeOf[c])
  /\ open' = open \ {c}
  /\ reachable' = reachable \ {c}
  /\ rooms' = [rooms EXCEPT ![c] = {}]
  /\ IF registered[c] = "done"
       THEN Send(NodeOf[c], del \o Gets(c, removals)) /\ UNCHANGED deferred
       ELSE Send(NodeOf[c], del) /\ deferred' = [deferred EXCEPT ![c] = @ \o removals]
  /\ UNCHANGED <<node, registered, snapshot, left, moves, answers, redis, overlap>>

-----------------------------------------------------------------------------
(* The server: srv.close(), and the end of the process.                    *)

\* close(): the sockets are asked to close (their handlers run when they do), and clearNode
\* lists the node's connections.
Close(n) ==
  /\ node[n] = "up"
  /\ node' = [node EXCEPT ![n] = "closing"]
  /\ Send(n, <<NodeCommand("members")>>)
  /\ UNCHANGED <<open, registered, rooms, snapshot, deferred, left, moves, answers, redis,
                 reachable, overlap>>

\* The process is gone, and its memory with it.
Forget(n, f, nothing) == [c \in Conns |-> IF NodeOf[c] = n THEN nothing ELSE f[c]]
Down(n) ==
  /\ node' = [node EXCEPT ![n] = "down"]
  /\ open' = {c \in open : NodeOf[c] # n}
  /\ registered' = Forget(n, registered, "none")
  /\ rooms' = Forget(n, rooms, {})
  /\ snapshot' = Forget(n, snapshot, {})
  /\ deferred' = Forget(n, deferred, <<>>)
  /\ left' = [left EXCEPT ![n] = {}]
  /\ moves' = Forget(n, moves, 0)
  /\ answers' = [answers EXCEPT ![n] = <<>>]
  /\ reachable' = {c \in reachable : NodeOf[c] # n}
  /\ overlap' = {c \in overlap : NodeOf[c] # n}

\* What Redis has not received is lost.
Crash(n) ==
  /\ Running(n) /\ Down(n)
  /\ pipe' = [pipe EXCEPT ![n] = <<>>]
  /\ UNCHANGED redis

-----------------------------------------------------------------------------
(* Redis executes the first command of a node.                             *)

Executes(n, op) == pipe[n] # <<>> /\ Head(pipe[n]).op = op
Executed(n) == pipe' = [pipe EXCEPT ![n] = Tail(@)]
Reply(n, found) ==
  answers' = IF Running(n)
    THEN [answers EXCEPT ![n] = Append(@, [to |-> Head(pipe[n]), found |-> found])] ELSE answers

\* Faulty: leaves the liveness key to the next heartbeat.
SetWithoutLiveness(n) ==
  LET cmd == Head(pipe[n]) IN
  /\ Executes(n, "set") /\ Executed(n) /\ Reply(n, {})
  /\ descriptor' = [descriptor EXCEPT ![cmd.conn] = cmd.rooms]
  /\ index' = index \cup {cmd.conn}
  /\ inRoom' = [r \in Rooms |-> IF r \in cmd.rooms THEN inRoom[r] \cup {cmd.conn} ELSE inRoom[r]]
  /\ UNCHANGED <<server, alive, reachable, overlap>>

\* The descriptor, the index, its rooms and the node's liveness key, in one pipeline.
ExecuteSet(n) ==
  LET cmd == Head(pipe[n]) IN
  /\ Executes(n, "set") /\ Executed(n) /\ Reply(n, {})
  /\ descriptor' = [descriptor EXCEPT ![cmd.conn] = cmd.rooms]
  /\ index' = index \cup {cmd.conn}
  /\ inRoom' = [r \in Rooms |-> IF r \in cmd.rooms THEN inRoom[r] \cup {cmd.conn} ELSE inRoom[r]]
  /\ alive' = alive \cup {n}
  /\ UNCHANGED <<server, reachable, overlap>>

ExecuteGet(n) ==
  /\ Executes(n, "get") /\ Executed(n) /\ Reply(n, descriptor[Head(pipe[n]).conn])
  /\ UNCHANGED <<server, redis, reachable, overlap>>

\* addRoom and removeRoom write the whole descriptor back, from what they read.
ExecutePut(n) ==
  LET cmd == Head(pipe[n])
      adds == cmd.of = "addRoom" IN
  /\ Executes(n, "put") /\ Executed(n) /\ UNCHANGED answers
  /\ descriptor' = [descriptor EXCEPT ![cmd.conn] =
        IF adds THEN cmd.rooms \cup {cmd.room} ELSE cmd.rooms \ {cmd.room}]
  /\ inRoom' = [inRoom EXCEPT ![cmd.room] = IF adds THEN @ \cup {cmd.conn} ELSE @ \ {cmd.conn}]
  /\ UNCHANGED <<server, index, alive, reachable, overlap>>

ExecuteDrop(n) ==
  LET cmd == Head(pipe[n]) IN
  /\ Executes(n, "drop") /\ Executed(n)
  /\ IF cmd.of = "clearNode" THEN Reply(n, {}) ELSE UNCHANGED answers
  /\ descriptor' = [descriptor EXCEPT ![cmd.conn] = NoDescriptor]
  /\ index' = index \ {cmd.conn}
  /\ inRoom' = [r \in Rooms |-> IF r \in cmd.rooms THEN inRoom[r] \ {cmd.conn} ELSE inRoom[r]]
  /\ UNCHANGED <<server, alive, reachable, overlap>>

ExecuteMembers(n) ==
  /\ Executes(n, "members") /\ Executed(n)
  /\ Reply(n, {c \in index : NodeOf[c] = n})
  /\ UNCHANGED <<server, redis, reachable, overlap>>

ExecuteWipe(n) ==
  /\ Executes(n, "wipe") /\ Executed(n) /\ Reply(n, {})
  /\ alive' = alive \ {n}
  /\ UNCHANGED <<server, descriptor, index, inRoom, reachable, overlap>>

\* The liveness key expires: nothing renews it, because the node closes, is gone or does
\* not beat.  (A node that beats does so more often than the key lives.)
AliveExpires(n) ==
  /\ n \in alive /\ (node[n] # "up" \/ n \notin Beating)
  /\ alive' = alive \ {n}
  /\ UNCHANGED <<server, pipe, answers, descriptor, index, inRoom, reachable, overlap>>

-----------------------------------------------------------------------------
(* The node handles the first answer.                                      *)

First(n, op) == Running(n) /\ answers[n] # <<>> /\ Head(answers[n]).to.op = op
Handled(n) == answers' = [answers EXCEPT ![n] = Tail(@)]

\* conn.registered resolves, and the writes chained behind it are issued.
Registered(n) ==
  LET c == Head(answers[n]).to.conn IN
  /\ First(n, "set") /\ Handled(n)
  /\ registered' = [registered EXCEPT ![c] = "done"]
  /\ deferred' = [deferred EXCEPT ![c] = <<>>]
  /\ Send(n, Gets(c, deferred[c]))
  /\ UNCHANGED <<node, open, rooms, snapshot, left, moves, redis, reachable, overlap>>

\* Faulty: mistakes the connection for the room.
WriteBackSwapped(to, found) ==
  LET op == IF to.of \in RoomWrites THEN "put" ELSE "drop" IN
  IF found = NoDescriptor THEN <<>> ELSE <<[to EXCEPT !.op = op, !.rooms = found \cup {to.conn}]>>

\* What an operation does about the descriptor it found: nothing if there is none, or if the
\* room is already there or already gone.
WriteBack(to, found) ==
  LET op == IF to.of \in RoomWrites THEN "put" ELSE "drop"
      idle == \/ to.of = "addRoom" /\ to.room \in found
              \/ to.of = "removeRoom" /\ to.room \notin found IN
  IF found = NoDescriptor \/ idle THEN <<>> ELSE <<[to EXCEPT !.op = op, !.rooms = found]>>

Found(n) ==
  LET answer == Head(answers[n]) IN
  /\ First(n, "get") /\ answer.to.of # "clearNode" /\ Handled(n)
  /\ Send(n, WriteBack(answer.to, answer.found))
  /\ UNCHANGED <<server, redis, reachable, overlap>>

\* clearNode deletes the connections it listed one after the other, then the node's keys.
ClearNext(n, remaining) ==
  IF remaining = {}
    THEN Send(n, <<NodeCommand("wipe")>>) /\ left' = [left EXCEPT ![n] = {}]
    ELSE \E c \in remaining :
           /\ Send(n, <<Get("clearNode", c, NoRoom)>>)
           /\ left' = [left EXCEPT ![n] = remaining \ {c}]

ClearNode(n) ==
  LET answer == Head(answers[n]) IN
  /\ First(n, "members") \/ First(n, "drop") \/ (First(n, "get") /\ answer.to.of = "clearNode")
  /\ Handled(n)
  /\ IF answer.to.op = "get" /\ answer.found # NoDescriptor
       THEN Send(n, WriteBack(answer.to, answer.found)) /\ UNCHANGED left
       ELSE ClearNext(n, IF answer.to.op = "members" THEN answer.found ELSE left[n])
  /\ UNCHANGED <<node, open, registered, rooms, snapshot, deferred, moves, redis, reachable,
                 overlap>>

\* clearNode is done: adapter.close() quits behind what was issued, the transports stop.
Stopped(n) ==
  /\ First(n, "wipe") /\ Down(n)
  /\ UNCHANGED <<pipe, redis>>

-----------------------------------------------------------------------------
Execute(n) ==
  \/ ExecuteSet(n) \/ ExecuteGet(n) \/ ExecutePut(n) \/ ExecuteDrop(n)
  \/ ExecuteMembers(n) \/ ExecuteWipe(n)

Handle(n) == Registered(n) \/ Found(n) \/ ClearNode(n) \/ Stopped(n)

Next ==
  \/ \E c \in Conns : Reachable(c) \/ SocketClosed(c)
  \/ \E c \in Conns, rs \in SUBSET Rooms : Accept(c, rs)
  \/ \E c \in Conns, r \in Rooms : JoinRoom(c, r) \/ LeaveRoom(c, r)
  \/ \E n \in Nodes : Close(n) \/ Crash(n) \/ Execute(n) \/ Handle(n) \/ AliveExpires(n)

Spec == Init /\ [][Next]_vars

\* Redis executes and answers, the event loop runs, keys expire.
Fairness ==
  /\ \A n \in Nodes : WF_vars(Execute(n)) /\ WF_vars(Handle(n)) /\ WF_vars(AliveExpires(n))
  /\ \A c \in Conns : WF_vars(Reachable(c))

FairSpec == Spec /\ Fairness

-----------------------------------------------------------------------------
(* Properties.                                                             *)

\* Faulty: takes descriptors of nodes that are gone for connections.
IndexedOnly == {c \in index : descriptor[c] # NoDescriptor}

\* list(), byUser(), count() and topology(): indexed, described, and on a live node.
Listed == {c \in index : descriptor[c] # NoDescriptor /\ NodeOf[c] \in alive}

\* get(): described, and on a live node; it does not ask the index.
Described == {c \in Conns : descriptor[c] # NoDescriptor /\ NodeOf[c] \in alive}

\* A connection another node can find is one it can reach: "Subscribe the channels that make
\* this conn REACHABLE before presence advertises it."
ListedIsReachable == \A c \in open \cap Listed : c \in reachable

\* Nothing is in flight between the node and Redis.
Quiet(n) == pipe[n] = <<>> /\ answers[n] = <<>>

\* A registered connection stays in the directory while it is open, whatever other
\* connections of its node come and go, provided the node beats.
OpenIsListed ==
  \A c \in open :
    registered[c] = "done" /\ node[NodeOf[c]] = "up" /\ NodeOf[c] \in Beating => c \in Listed

\* A connection whose room writes did not overlap has its rooms in the directory once they
\* have been carried out, the ones joined before the announcement included.
RoomsAreListed ==
  \A c \in open \ overlap :
    registered[c] = "done" /\ node[NodeOf[c]] = "up" /\ ~ Unsettled(c) =>
      /\ descriptor[c] = rooms[c]
      /\ \A r \in Rooms : c \in inRoom[r] <=> r \in rooms[c]

\* "A crashed node's connections drop out of cluster queries automatically": and they stay
\* out, of the queries by id too, as those of a node that was closed do, whatever removals its
\* close handlers had in flight.
GoneNodeIsForgotten ==
  \A n \in Nodes : node[n] = "down" ~> [](\A c \in Listed \cup Described : NodeOf[c] # n)

\* "is this user connected anywhere?": a connection that has closed is not listed once its
\* node has nothing more to tell Redis about it.  The code breaks this.
ClosedIsNotListed ==
  \A c \in Conns \ open :
    node[NodeOf[c]] = "up" /\ Quiet(NodeOf[c]) /\ registered[c] = "done" => c \notin Listed
=============================================================================
