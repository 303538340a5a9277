--------------------------- MODULE GossipPresence ---------------------------
(***************************************************************************)
(* The replicated presence directory of the RabbitMQ, ZeroMQ and libp2p    *)
(* adapters (packages/adapter-*/src/presence.ts, one class in three        *)
(* copies).  A node writes only its own slice, the connections it serves,  *)
(* and numbers its writes; it broadcasts each as a delta, and now and then *)
(* its whole slice as a snapshot.  The others keep what they have heard,   *)
(* and leave out of their answers a node they have not heard for a while.  *)
(*                                                                         *)
(* A broadcast reaches each node once or not at all, and in any order, as  *)
(* over gossipsub; a broker keeps the order, which is one of those.  Equal *)
(* snapshots that are under way together count as one.  `set` comes before *)
(* `del`, and a descriptor is the rooms of its connection; what the server *)
(* does in another order is in module Presence.                            *)
(***************************************************************************)
EXTENDS Naturals, Sequences, FiniteSets, Functions

CONSTANTS
  Nodes,     \* servers; a node that comes back has another id
  Conns,     \* connection ids
  Home,      \* the node that accepts a connection
  Rooms,
  Mortal,    \* the nodes that close or crash
  MaxWrites, \* bound: writes of one node
  MaxWire    \* bound: messages under way to one node; what is sent beyond is lost

ASSUME GossipConstants ==
  /\ Home \in [Conns -> Nodes] /\ Mortal \subseteq Nodes /\ MaxWrites \in Nat /\ MaxWire \in Nat \ {0}

\* ConnDescriptors by id.
Slice == UNION {[cs -> SUBSET Rooms] : cs \in SUBSET Conns}
Nobody == [c \in {} |-> {}]

DeltaOp == [k : {"set", "del"}, c : Conns] \cup [k : {"addRoom", "removeRoom"}, c : Conns, room : Rooms]
PresenceMsg == [t : {"d"}, q : Nat, op : DeltaOp] \cup [t : {"s"}, q : Nat, c : Slice] \cup [t : {"l"}]

VARIABLES
  node,        \* up, left (after clearNode), crashed, or gone (it left, and has ended)
  conn,        \* new, open or gone
  replica,     \* the slice of each node as each node has it; its own on the diagonal
  appliedSeq,  \* the number up to which a node has followed another, 0 for none
  heard,       \* lastSeen of a node is within the TTL
  selfSeq,
  wire,        \* messages under way, per sender and receiver
  past,        \* history: the slice of each node after each of its writes
  whole        \* history: no write has been missed since the last snapshot

vars == <<node, conn, replica, appliedSeq, heard, selfSeq, wire, past, whole>>

TypeOK ==
  /\ node \in [Nodes -> {"up", "left", "crashed", "gone"}]
  /\ conn \in [Conns -> {"new", "open", "gone"}]
  /\ replica \in [Nodes -> [Nodes -> Slice]]
  /\ appliedSeq \in [Nodes -> [Nodes -> Nat]]
  /\ heard \in [Nodes -> [Nodes -> BOOLEAN]]
  /\ selfSeq \in [Nodes -> 0..MaxWrites]
  /\ wire \in [Nodes -> [Nodes -> SUBSET PresenceMsg]]
  /\ past \in [Nodes -> Seq(Slice)] /\ \A n \in Nodes : Len(past[n]) = selfSeq[n]
  /\ whole \in [Nodes -> [Nodes -> BOOLEAN]]

Init ==
  /\ node = [n \in Nodes |-> "up"]
  /\ conn = [c \in Conns |-> "new"]
  /\ replica = [n \in Nodes |-> [p \in Nodes |-> Nobody]]
  /\ appliedSeq = [n \in Nodes |-> [p \in Nodes |-> 0]]
  /\ heard = [n \in Nodes |-> [p \in Nodes |-> FALSE]]
  /\ selfSeq = [n \in Nodes |-> 0]
  /\ wire = [p \in Nodes |-> [n \in Nodes |-> {}]]
  /\ past = [n \in Nodes |-> <<>>]
  /\ whole = [n \in Nodes |-> [p \in Nodes |-> TRUE]]

Running(n) == node[n] \in {"up", "left"}
own(n) == replica[n][n]

-----------------------------------------------------------------------------
(* Slices.                                                                 *)

\* Faulty: the operation is taken for its room.
applyDeltaRaw(slice, op) ==
  CASE op.k = "set" -> [c \in DOMAIN slice \cup {op.c} |-> IF c = op.c THEN {} ELSE slice[c]]
    [] op.k = "del" -> Restrict(slice, DOMAIN slice \ {op.c})
    [] OTHER -> [c \in DOMAIN slice |-> IF c = op.c THEN slice[c] \cup {op} ELSE slice[c]]

\* applyDelta; the owner changes its own slice the same way.
applyDelta(slice, op) ==
  CASE op.k = "set" -> [c \in DOMAIN slice \cup {op.c} |-> IF c = op.c THEN {} ELSE slice[c]]
    [] op.k = "del" -> Restrict(slice, DOMAIN slice \ {op.c})
    [] op.k = "addRoom" -> [c \in DOMAIN slice |-> IF c = op.c THEN slice[c] \cup {op.room} ELSE slice[c]]
    [] op.k = "removeRoom" -> [c \in DOMAIN slice |-> IF c = op.c THEN slice[c] \ {op.room} ELSE slice[c]]

\* Faulty: a node that is not heard of any more stays in the answers.
liveForEver(n, c) == c \in DOMAIN replica[n][Home[c]]

\* live(): what list, get, byUser, roomMembers, count and topology of node n answer from.
live(n, c) ==
  LET p == Home[c] IN
  /\ c \in DOMAIN replica[n][p]
  /\ n = p \/ heard[n][p]

-----------------------------------------------------------------------------
(* Local writes.                                                           *)

\* Sent to every node, without waiting and without a second attempt; the copy that comes back
\* to the sender is ignored there.
broadcast(p, m) ==
  wire' = [wire EXCEPT ![p] =
    [n \in Nodes |-> IF n = p \/ Cardinality(@[n]) = MaxWire THEN @[n] ELSE @[n] \cup {m}]]

Write(p, op) ==
  LET slice == applyDelta(own(p), op) IN
  /\ selfSeq[p] < MaxWrites
  /\ replica' = [replica EXCEPT ![p][p] = slice]
  /\ selfSeq' = [selfSeq EXCEPT ![p] = @ + 1]
  /\ past' = [past EXCEPT ![p] = Append(@, slice)]
  /\ broadcast(p, [t |-> "d", q |-> selfSeq[p] + 1, op |-> op])
  /\ UNCHANGED <<node, appliedSeq, heard, whole>>

set(c) ==
  /\ conn[c] = "new" /\ Running(Home[c])
  /\ conn' = [conn EXCEPT ![c] = "open"]
  /\ Write(Home[c], [k |-> "set", c |-> c])

del(c) ==
  /\ conn[c] = "open" /\ Running(Home[c])
  /\ conn' = [conn EXCEPT ![c] = "gone"]
  /\ Write(Home[c], [k |-> "del", c |-> c])

addRoom(c, room) ==
  LET p == Home[c] IN
  /\ Running(p) /\ c \in DOMAIN own(p) /\ room \notin own(p)[c]
  /\ Write(p, [k |-> "addRoom", c |-> c, room |-> room])
  /\ UNCHANGED conn

removeRoom(c, room) ==
  LET p == Home[c] IN
  /\ Running(p) /\ c \in DOMAIN own(p) /\ room \in own(p)[c]
  /\ Write(p, [k |-> "removeRoom", c |-> c, room |-> room])
  /\ UNCHANGED conn

\* clearNode, by srv.close(); the connections are closed after that.
clearNode(p) ==
  /\ p \in Mortal /\ node[p] = "up"
  /\ node' = [node EXCEPT ![p] = "left"]
  /\ replica' = [replica EXCEPT ![p][p] = Nobody]
  /\ broadcast(p, [t |-> "l"])
  /\ UNCHANGED <<conn, appliedSeq, heard, selfSeq, past, whole>>

\* sendSnapshot, from the timer and from resnapshot; an empty slice is not sent.
sendSnapshot(p) ==
  /\ Running(p) /\ own(p) # Nobody
  /\ broadcast(p, [t |-> "s", q |-> selfSeq[p], c |-> own(p)])
  /\ UNCHANGED <<node, conn, replica, appliedSeq, heard, selfSeq, past, whole>>

-----------------------------------------------------------------------------
(* receive.                                                                *)

Arrives(n, p, m) ==
  /\ Running(n) /\ m \in wire[p][n]
  /\ wire' = [wire EXCEPT ![p][n] = @ \ {m}]
  /\ UNCHANGED <<node, conn, selfSeq, past>>

receiveLeave(n, p, m) ==
  /\ Arrives(n, p, m) /\ m.t = "l"
  /\ replica' = [replica EXCEPT ![n][p] = Nobody]
  /\ appliedSeq' = [appliedSeq EXCEPT ![n][p] = 0]
  /\ heard' = [heard EXCEPT ![n][p] = FALSE]
  /\ whole' = [whole EXCEPT ![n][p] = TRUE]

\* Faulty: a snapshot counts as stale if it says nothing newer.
receiveSnapshotNewer(n, p, m) ==
  /\ Arrives(n, p, m) /\ m.t = "s"
  /\ heard' = [heard EXCEPT ![n][p] = TRUE]
  /\ IF m.q > appliedSeq[n][p]
       THEN /\ replica' = [replica EXCEPT ![n][p] = m.c]
            /\ appliedSeq' = [appliedSeq EXCEPT ![n][p] = m.q]
            /\ whole' = [whole EXCEPT ![n][p] = TRUE]
       ELSE UNCHANGED <<replica, appliedSeq, whole>>

\* Faulty: a snapshot is authoritative, however old.
receiveSnapshotAny(n, p, m) ==
  /\ Arrives(n, p, m) /\ m.t = "s"
  /\ heard' = [heard EXCEPT ![n][p] = TRUE]
  /\ replica' = [replica EXCEPT ![n][p] = m.c]
  /\ appliedSeq' = [appliedSeq EXCEPT ![n][p] = m.q]
  /\ whole' = [whole EXCEPT ![n][p] = TRUE]

\* A snapshot replaces the slice, unless a newer delta has been applied.
receiveSnapshot(n, p, m) ==
  /\ Arrives(n, p, m) /\ m.t = "s"
  /\ heard' = [heard EXCEPT ![n][p] = TRUE]
  /\ IF m.q >= appliedSeq[n][p]
       THEN /\ replica' = [replica EXCEPT ![n][p] = m.c]
            /\ appliedSeq' = [appliedSeq EXCEPT ![n][p] = m.q]
            /\ whole' = [whole EXCEPT ![n][p] = TRUE]
       ELSE UNCHANGED <<replica, appliedSeq, whole>>

\* Faulty: every delta is applied when it arrives.
receiveDeltaAny(n, p, m) ==
  /\ Arrives(n, p, m) /\ m.t = "d"
  /\ heard' = [heard EXCEPT ![n][p] = TRUE]
  /\ replica' = [replica EXCEPT ![n][p] = applyDelta(@, m.op)]
  /\ appliedSeq' = [appliedSeq EXCEPT ![n][p] = IF m.q > @ THEN m.q ELSE @]
  /\ whole' = [whole EXCEPT ![n][p] = @ /\ m.q <= appliedSeq[n][p] + 1]

\* A delta is applied if it is newer than everything before, though some may be missing.
receiveDelta(n, p, m) ==
  /\ Arrives(n, p, m) /\ m.t = "d"
  /\ heard' = [heard EXCEPT ![n][p] = TRUE]
  /\ IF m.q > appliedSeq[n][p]
       THEN /\ replica' = [replica EXCEPT ![n][p] = applyDelta(@, m.op)]
            /\ appliedSeq' = [appliedSeq EXCEPT ![n][p] = m.q]
            /\ whole' = [whole EXCEPT ![n][p] = @ /\ m.q = appliedSeq[n][p] + 1]
       ELSE UNCHANGED <<replica, appliedSeq, whole>>

receive(n, p, m) == receiveLeave(n, p, m) \/ receiveSnapshot(n, p, m) \/ receiveDelta(n, p, m)

Lose(n, p, m) ==
  /\ m \in wire[p][n]
  /\ wire' = [wire EXCEPT ![p][n] = @ \ {m}]
  /\ UNCHANGED <<node, conn, replica, appliedSeq, heard, selfSeq, past, whole>>

\* The TTL: nothing has been heard of the node for that long.
Expire(n, p) ==
  /\ Running(n) /\ heard[n][p]
  /\ heard' = [heard EXCEPT ![n][p] = FALSE]
  /\ UNCHANGED <<node, conn, replica, appliedSeq, selfSeq, wire, past, whole>>

\* The process ends, with its connections.
Exit(p) ==
  /\ p \in Mortal /\ Running(p)
  /\ node' = [node EXCEPT ![p] = IF @ = "up" THEN "crashed" ELSE "gone"]
  /\ conn' = [c \in Conns |-> IF Home[c] = p THEN "gone" ELSE conn[c]]
  /\ UNCHANGED <<replica, appliedSeq, heard, selfSeq, wire, past, whole>>

-----------------------------------------------------------------------------
Next ==
  \/ \E c \in Conns : set(c) \/ del(c) \/ \E room \in Rooms : addRoom(c, room) \/ removeRoom(c, room)
  \/ \E p \in Nodes : clearNode(p) \/ sendSnapshot(p) \/ Exit(p)
  \/ \E n, p \in Nodes : Expire(n, p) \/ \E m \in wire[p][n] : receive(n, p, m) \/ Lose(n, p, m)

Spec == Init /\ [][Next]_vars

\* Nothing stays under way for ever.
Drained(n, p) == \E m \in wire[p][n] : receive(n, p, m) \/ Lose(n, p, m)

\* Of the snapshots that are sent again and again while the slice stays as it is, one arrives.
SnapshotArrives(n, p) ==
  \E m \in wire[p][n] : m.t = "s" /\ m.q = selfSeq[p] /\ receiveSnapshot(n, p, m)

\* The TTL of a node that sends nothing more runs out.
Silence(n, p) == ~ (Running(p) /\ own(p) # Nobody) /\ wire[p][n] = {} /\ Expire(n, p)

\* The snapshot timer runs as long as the node does.
Fairness ==
  /\ \A p \in Nodes : WF_vars(sendSnapshot(p))
  /\ \A p \in Nodes : \A n \in Nodes \ {p} :
       WF_vars(Drained(n, p)) /\ WF_vars(Silence(n, p)) /\ SF_vars(SnapshotArrives(n, p))

FairSpec == Spec /\ Fairness

-----------------------------------------------------------------------------
(* Properties.                                                             *)

\* "A stale snapshot never clobbers a newer delta", and no delta does: a connection enters a
\* replica only because the slice had it after the last write the node has followed, or later.
NothingComesBack ==
  [][\A n, p \in Nodes, c \in Conns :
       n # p /\ c \in DOMAIN replica'[n][p] /\ c \notin DOMAIN replica[n][p] =>
         \E q \in 1..selfSeq[p] : q >= appliedSeq[n][p] /\ c \in DOMAIN past[p][q]]_vars

\* Messages that overtake each other do no harm: a replica that has missed no write since its
\* last snapshot is the slice, rooms included, as it was after the last write it followed.
ReplicaIsPast ==
  \A n, p \in Nodes :
    n # p /\ whole[n][p] /\ node[p] \in {"up", "crashed"} =>
      replica[n][p] = IF appliedSeq[n][p] = 0 THEN Nobody ELSE past[p][appliedSeq[n][p]]

\* "A crashed node's connections clear after a liveness TTL", and so does one whose `del` was
\* lost: a connection that is over is sooner or later in nobody's answers.
GoneIsForgotten ==
  \A c \in Conns : \A n \in Nodes \ {Home[c]} :
    conn[c] = "gone" /\ Running(n) ~> ~ (Running(n) /\ live(n, c))

\* "A periodic snapshot heals any dropped delta": an open connection is sooner or later in
\* everybody's answers, whatever was lost.
OpenIsListed ==
  \A c \in Conns : \A n \in Nodes \ {Home[c]} :
    conn[c] = "open" /\ node[Home[c]] = "up" ~>
      conn[c] # "open" \/ node[Home[c]] # "up" \/ ~ Running(n) \/ live(n, c)
=============================================================================
