----------------------- MODULE GossipPresenceProofs -----------------------
(***************************************************************************)
(* The replicated presence directory, for any nodes, connections, rooms    *)
(* and bounds: the types, that a replica which has missed nothing is a     *)
(* past state of the slice it copies, and that nothing comes back into it. *)
(***************************************************************************)
EXTENDS GossipPresence, TLAPS

Intact(p) == node[p] \in {"up", "crashed"}

\* The slice of a node after its write number q.
SliceAt(p, q) == IF q = 0 THEN Nobody ELSE past[p][q]

\* A node has, of its own, what it wrote last, or nothing since it has left.
OwnIsLast ==
  \A p \in Nodes : own(p) = SliceAt(p, selfSeq[p]) \/ (own(p) = Nobody /\ ~ Intact(p))

\* Nobody receives what it sent.
NoEcho == \A p \in Nodes : wire[p][p] = {}

\* What a message says of its sender is so, whenever it was sent.
Truthful(p, m) ==
  /\ m.t = "s" => m.q \in 1..selfSeq[p] /\ m.c = past[p][m.q]
  /\ m.t = "d" => m.q \in 1..selfSeq[p] /\ (m.op.k = "set" => m.op.c \in DOMAIN past[p][m.q])
  /\ m.t = "d" /\ Intact(p) => past[p][m.q] = applyDelta(SliceAt(p, m.q - 1), m.op)
  /\ m.t = "l" => ~ Intact(p)

MessagesAreTrue == \A p, n \in Nodes : \A m \in wire[p][n] : Truthful(p, m)

\* A node follows nobody further than they have written.
NotAhead == \A n, p \in Nodes : appliedSeq[n][p] <= selfSeq[p]

IInv == TypeOK /\ OwnIsLast /\ NoEcho /\ MessagesAreTrue /\ NotAhead /\ ReplicaIsPast

-----------------------------------------------------------------------------
(* Slices.                                                                 *)

LEMMA NobodyIsSlice == Nobody \in Slice /\ DOMAIN Nobody = {}
  <1>1. Nobody \in [{} -> SUBSET Rooms] /\ {} \in SUBSET Conns
    BY DEF Nobody
  <1> QED
    BY <1>1 DEF Slice, Nobody

LEMMA SliceIsFunction ==
  ASSUME NEW slice
  PROVE  slice \in Slice <=> /\ DOMAIN slice \subseteq Conns
                             /\ slice \in [DOMAIN slice -> SUBSET Rooms]
  BY DEF Slice

\* applyDelta makes slices of slices; only a `set` brings a connection in, and it does.
LEMMA ApplyDelta ==
  ASSUME NEW slice \in Slice, NEW op \in DeltaOp
  PROVE  /\ applyDelta(slice, op) \in Slice
         /\ op.k = "set" => op.c \in DOMAIN applyDelta(slice, op)
         /\ \A c \in DOMAIN applyDelta(slice, op) :
              c \notin DOMAIN slice => op.k = "set" /\ op.c = c
  <1> DEFINE next == applyDelta(slice, op)
  <1>0. /\ DOMAIN slice \subseteq Conns /\ slice \in [DOMAIN slice -> SUBSET Rooms]
        /\ op.c \in Conns
    BY SliceIsFunction DEF DeltaOp
  <1>1. CASE op.k = "set"
    <2>1. next = [c \in DOMAIN slice \cup {op.c} |-> IF c = op.c THEN {} ELSE slice[c]]
      BY <1>1 DEF applyDelta
    <2>2. DOMAIN next \subseteq Conns /\ next \in [DOMAIN next -> SUBSET Rooms]
      BY <1>0, <2>1
    <2>3. next \in Slice
      BY <2>2, SliceIsFunction
    <2> QED
      BY <1>1, <2>1, <2>3
  <1>2. CASE op.k = "del"
    <2>1. next = [c \in DOMAIN slice \ {op.c} |-> slice[c]]
      BY <1>2 DEF applyDelta, Restrict
    <2>2. DOMAIN next \subseteq Conns /\ next \in [DOMAIN next -> SUBSET Rooms]
      BY <1>0, <2>1
    <2>3. next \in Slice
      BY <2>2, SliceIsFunction
    <2> QED
      BY <1>2, <2>1, <2>3
  <1>3. CASE op.k = "addRoom"
    <2>1. next = [c \in DOMAIN slice |-> IF c = op.c THEN slice[c] \cup {op.room} ELSE slice[c]]
      BY <1>3 DEF applyDelta
    <2>2. op.room \in Rooms
      BY <1>3 DEF DeltaOp
    <2>3. DOMAIN next \subseteq Conns /\ next \in [DOMAIN next -> SUBSET Rooms]
      BY <1>0, <2>1, <2>2
    <2>4. next \in Slice
      BY <2>3, SliceIsFunction
    <2> QED
      BY <1>3, <2>1, <2>4
  <1>4. CASE op.k = "removeRoom"
    <2>1. next = [c \in DOMAIN slice |-> IF c = op.c THEN slice[c] \ {op.room} ELSE slice[c]]
      BY <1>4 DEF applyDelta
    <2>2. DOMAIN next \subseteq Conns /\ next \in [DOMAIN next -> SUBSET Rooms]
      BY <1>0, <2>1
    <2>3. next \in Slice
      BY <2>2, SliceIsFunction
    <2> QED
      BY <1>4, <2>1, <2>3
  <1> QED
    BY <1>1, <1>2, <1>3, <1>4 DEF DeltaOp

-----------------------------------------------------------------------------
(* Messages.                                                               *)

\* What broadcast leaves under way.
LEMMA Broadcast ==
  ASSUME TypeOK, NoEcho, NEW p \in Nodes, NEW m \in PresenceMsg, broadcast(p, m)
  PROVE  /\ wire' \in [Nodes -> [Nodes -> SUBSET PresenceMsg]]
         /\ NoEcho'
         /\ \A q, n \in Nodes : \A x \in wire'[q][n] : x \in wire[q][n] \/ (q = p /\ x = m)
  <1>0. wire \in [Nodes -> [Nodes -> SUBSET PresenceMsg]]
    BY DEF TypeOK
  <1> DEFINE full(n) == n = p \/ Cardinality(wire[p][n]) = MaxWire
  <1>1. wire' = [wire EXCEPT ![p] = [n \in Nodes |-> IF full(n) THEN @[n] ELSE @[n] \cup {m}]]
    BY DEF broadcast
  <1>2. \A n \in Nodes : n = p => full(n)
    OBVIOUS
  <1> HIDE DEF full
  <1>3. \A q, n \in Nodes : wire'[q][n] = IF q = p /\ ~ full(n) THEN wire[q][n] \cup {m} ELSE wire[q][n]
    BY <1>0, <1>1
  <1>4. wire' \in [Nodes -> [Nodes -> SUBSET PresenceMsg]]
    BY <1>0, <1>1
  <1>5. NoEcho'
    BY <1>2, <1>3 DEF NoEcho
  <1> QED
    BY <1>3, <1>4, <1>5

\* What is left when a message arrives or is lost.
LEMMA TakenOff ==
  ASSUME TypeOK, NoEcho, NEW p \in Nodes, NEW n \in Nodes, NEW m,
         wire' = [wire EXCEPT ![p][n] = @ \ {m}]
  PROVE  /\ wire' \in [Nodes -> [Nodes -> SUBSET PresenceMsg]]
         /\ NoEcho'
         /\ \A q, k \in Nodes : wire'[q][k] \subseteq wire[q][k]
  <1>0. wire \in [Nodes -> [Nodes -> SUBSET PresenceMsg]]
    BY DEF TypeOK
  <1>1. \A q, k \in Nodes : wire'[q][k] = IF q = p /\ k = n THEN wire[q][k] \ {m} ELSE wire[q][k]
    BY <1>0
  <1>2. wire' \in [Nodes -> [Nodes -> SUBSET PresenceMsg]]
    BY <1>0
  <1>3. NoEcho'
    BY <1>1 DEF NoEcho
  <1> QED
    BY <1>1, <1>2, <1>3

-----------------------------------------------------------------------------
(* The owner's steps.                                                      *)

LEMMA AppendKeeps ==
  ASSUME NEW S, NEW s \in Seq(S), NEW x \in S
  PROVE  /\ Append(s, x) \in Seq(S)
         /\ Len(Append(s, x)) = Len(s) + 1
         /\ Append(s, x)[Len(s) + 1] = x
         /\ \A i \in 1..Len(s) : Append(s, x)[i] = s[i]
  OBVIOUS

\* A write adds a state of the slice, and a message that tells how it came about.
LEMMA WriteStep ==
  ASSUME IInv, NEW p \in Nodes, NEW op \in DeltaOp, Write(p, op),
         conn' \in [Conns -> {"new", "open", "gone"}]
  PROVE  IInv' /\ \A n, q \in Nodes : n # q => replica'[n][q] = replica[n][q]
  <1> DEFINE slice == applyDelta(own(p), op)
             m == [t |-> "d", q |-> selfSeq[p] + 1, op |-> op]
  <1>0. TypeOK /\ OwnIsLast /\ NoEcho /\ MessagesAreTrue /\ NotAhead /\ ReplicaIsPast
    BY DEF IInv
  <1>1. slice \in Slice /\ (op.k = "set" => op.c \in DOMAIN slice)
    BY <1>0, ApplyDelta DEF TypeOK, own
  <1>2. /\ selfSeq[p] \in Nat /\ selfSeq[p] < MaxWrites /\ MaxWrites \in Nat
        /\ m \in PresenceMsg /\ m.t = "d" /\ m.q = selfSeq[p] + 1 /\ m.op = op
    BY <1>0, GossipConstants DEF TypeOK, PresenceMsg, Write
  <1>3. /\ replica' = [replica EXCEPT ![p][p] = slice]
        /\ selfSeq' = [selfSeq EXCEPT ![p] = selfSeq[p] + 1]
        /\ past' = [past EXCEPT ![p] = Append(past[p], slice)]
        /\ broadcast(p, m)
        /\ UNCHANGED <<node, appliedSeq, heard, whole>>
    BY DEF Write
  <1> HIDE DEF slice, m
  <1>4. /\ wire' \in [Nodes -> [Nodes -> SUBSET PresenceMsg]] /\ NoEcho'
        /\ \A q, n \in Nodes : \A x \in wire'[q][n] : x \in wire[q][n] \/ (q = p /\ x = m)
    BY <1>0, <1>2, <1>3, Broadcast
  <1>5. /\ \A q \in Nodes : past[q] \in Seq(Slice) /\ Len(past[q]) = selfSeq[q] /\ selfSeq[q] \in Nat
        /\ Append(past[p], slice) \in Seq(Slice)
        /\ Len(Append(past[p], slice)) = selfSeq[p] + 1
        /\ Append(past[p], slice)[selfSeq[p] + 1] = slice
        /\ \A i \in 1..selfSeq[p] : Append(past[p], slice)[i] = past[p][i]
    <2>1. \A q \in Nodes : past[q] \in Seq(Slice) /\ Len(past[q]) = selfSeq[q] /\ selfSeq[q] \in Nat
      BY <1>0 DEF TypeOK
    <2> QED
      BY <1>1, <2>1, AppendKeeps
  <1>6. /\ \A q \in Nodes : q # p => past'[q] = past[q] /\ selfSeq'[q] = selfSeq[q]
        /\ past'[p] = Append(past[p], slice) /\ selfSeq'[p] = selfSeq[p] + 1
        /\ \A n, q \in Nodes : replica'[n][q] = IF n = p /\ q = p THEN slice ELSE replica[n][q]
    BY <1>0, <1>3 DEF TypeOK
  <1>7. \A q \in Nodes : \A i \in 1..selfSeq[q] : i \in 1..selfSeq'[q] /\ past'[q][i] = past[q][i]
    <2> SUFFICES ASSUME NEW q \in Nodes, NEW i \in 1..selfSeq[q]
                 PROVE  i \in 1..selfSeq'[q] /\ past'[q][i] = past[q][i]
      OBVIOUS
    <2>1. CASE q = p
      BY <1>5, <1>6, <2>1
    <2>2. CASE q # p
      BY <1>6, <2>2
    <2> QED
      BY <2>1, <2>2
  <1>8. \A q \in Nodes : \A i \in 0..selfSeq[q] : SliceAt(q, i)' = SliceAt(q, i)
    BY <1>5, <1>7 DEF SliceAt
  <1>9. \A q \in Nodes : Intact(q)' = Intact(q)
    BY <1>3 DEF Intact
  <1>10. TypeOK'
    <2>1. past' \in [Nodes -> Seq(Slice)] /\ \A n \in Nodes : Len(past'[n]) = selfSeq'[n]
      BY <1>0, <1>3, <1>5, <1>6 DEF TypeOK
    <2>2. replica' \in [Nodes -> [Nodes -> Slice]]
      BY <1>0, <1>1, <1>3 DEF TypeOK
    <2>3. selfSeq' \in [Nodes -> 0..MaxWrites]
      BY <1>0, <1>2, <1>3 DEF TypeOK
    <2> QED
      BY <1>0, <1>3, <1>4, <2>1, <2>2, <2>3 DEF TypeOK
  <1>11. OwnIsLast'
    <2> SUFFICES ASSUME NEW q \in Nodes
                 PROVE  own(q)' = SliceAt(q, selfSeq[q])' \/ (own(q)' = Nobody /\ ~ Intact(q)')
      BY DEF OwnIsLast
    <2>1. CASE q = p
      BY <1>2, <1>5, <1>6, <2>1 DEF own, SliceAt
    <2>2. CASE q # p
      <3>1. own(q)' = own(q) /\ SliceAt(q, selfSeq[q])' = SliceAt(q, selfSeq[q])
        BY <1>6, <2>2 DEF own, SliceAt
      <3> QED
        BY <1>0, <1>9, <3>1 DEF OwnIsLast
    <2> QED
      BY <2>1, <2>2
  <1>12. MessagesAreTrue'
    <2> SUFFICES ASSUME NEW q \in Nodes, NEW n \in Nodes, NEW x \in wire'[q][n]
                 PROVE  Truthful(q, x)'
      BY DEF MessagesAreTrue
    <2>1. CASE x \in wire[q][n]
      <3>1. Truthful(q, x)
        BY <1>0, <2>1 DEF MessagesAreTrue
      <3>2. x.q \in 1..selfSeq[q] => /\ past'[q][x.q] = past[q][x.q] /\ x.q \in 1..selfSeq'[q]
                                     /\ SliceAt(q, x.q - 1)' = SliceAt(q, x.q - 1)
        BY <1>5, <1>7, <1>8
      <3> QED
        BY <1>9, <3>1, <3>2 DEF Truthful
    <2>2. CASE q = p /\ x = m
      <3>1. past'[p][x.q] = slice /\ x.q \in 1..selfSeq'[p]
        BY <1>2, <1>5, <1>6, <2>2
      <3>2. Intact(p) => slice = applyDelta(SliceAt(p, x.q - 1)', x.op)
        <4>1. x.q - 1 = selfSeq[p] /\ selfSeq[p] \in 0..selfSeq[p]
          BY <1>2, <2>2
        <4>2. SliceAt(p, x.q - 1)' = SliceAt(p, selfSeq[p])
          BY <1>8, <4>1
        <4>3. Intact(p) => own(p) = SliceAt(p, selfSeq[p])
          BY <1>0 DEF OwnIsLast
        <4> QED
          BY <1>2, <2>2, <4>2, <4>3 DEF slice
      <3> QED
        BY <1>1, <1>2, <1>9, <2>2, <3>1, <3>2 DEF Truthful
    <2> QED
      BY <1>4, <2>1, <2>2
  <1>13. NotAhead'
    <2>1. \A q \in Nodes : selfSeq[q] <= selfSeq'[q] /\ selfSeq'[q] \in Nat
      BY <1>5, <1>6
    <2>2. \A n, q \in Nodes : appliedSeq[n][q] \in Nat /\ appliedSeq'[n][q] = appliedSeq[n][q]
      BY <1>0, <1>3 DEF TypeOK
    <2> QED
      BY <1>0, <1>5, <2>1, <2>2 DEF NotAhead
  <1>14. ReplicaIsPast'
    <2>1. \A n, q \in Nodes : appliedSeq[n][q] \in 0..selfSeq[q]
      BY <1>0 DEF TypeOK, NotAhead
    <2>2. \A n, q \in Nodes : SliceAt(q, appliedSeq[n][q])' = SliceAt(q, appliedSeq[n][q])
      BY <1>3, <1>8, <2>1 DEF SliceAt
    <2> SUFFICES ASSUME NEW n \in Nodes, NEW q \in Nodes, n # q, whole'[n][q], Intact(q)'
                 PROVE  replica'[n][q] = SliceAt(q, appliedSeq[n][q])'
      BY DEF ReplicaIsPast, SliceAt, Intact
    <2>3. replica[n][q] = SliceAt(q, appliedSeq[n][q])
      BY <1>0, <1>3, <1>9 DEF ReplicaIsPast, SliceAt, Intact
    <2> QED
      BY <1>6, <2>2, <2>3
  <1> QED
    BY <1>4, <1>6, <1>10, <1>11, <1>12, <1>13, <1>14 DEF IInv

\* What is true of the messages stays true while nobody writes.
LEMMA StillTrue ==
  ASSUME MessagesAreTrue, UNCHANGED <<selfSeq, past>>,
         \A p \in Nodes : Intact(p)' => Intact(p),
         \A p, n \in Nodes : wire'[p][n] \subseteq wire[p][n]
  PROVE  MessagesAreTrue'
  <1> SUFFICES ASSUME NEW p \in Nodes, NEW n \in Nodes, NEW m \in wire'[p][n]
               PROVE  Truthful(p, m)'
    BY DEF MessagesAreTrue
  <1>1. Truthful(p, m)
    BY DEF MessagesAreTrue
  <1>2. SliceAt(p, m.q - 1)' = SliceAt(p, m.q - 1)
    BY DEF SliceAt
  <1> QED
    BY <1>1, <1>2 DEF Truthful

\* clearNode takes everything back at once, and says so.
LEMMA ClearStep ==
  ASSUME IInv, NEW p \in Nodes, clearNode(p)
  PROVE  IInv' /\ \A n, q \in Nodes : n # q => replica'[n][q] = replica[n][q]
  <1> DEFINE m == [t |-> "l"]
  <1>0. TypeOK /\ OwnIsLast /\ NoEcho /\ MessagesAreTrue /\ NotAhead /\ ReplicaIsPast
    BY DEF IInv
  <1>1. m \in PresenceMsg /\ m.t = "l"
    BY DEF PresenceMsg
  <1>2. /\ node' = [node EXCEPT ![p] = "left"]
        /\ replica' = [replica EXCEPT ![p][p] = Nobody]
        /\ broadcast(p, m)
        /\ UNCHANGED <<conn, appliedSeq, heard, selfSeq, past, whole>>
    BY DEF clearNode
  <1> HIDE DEF m
  <1>3. /\ wire' \in [Nodes -> [Nodes -> SUBSET PresenceMsg]] /\ NoEcho'
        /\ \A q, n \in Nodes : \A x \in wire'[q][n] : x \in wire[q][n] \/ (q = p /\ x = m)
    BY <1>0, <1>1, <1>2, Broadcast
  <1>4. /\ \A n, q \in Nodes : replica'[n][q] = IF n = p /\ q = p THEN Nobody ELSE replica[n][q]
        /\ \A q \in Nodes : node'[q] = IF q = p THEN "left" ELSE node[q]
    BY <1>0, <1>2 DEF TypeOK
  <1>5. \A q \in Nodes : Intact(q)' => q # p /\ Intact(q)
    BY <1>4 DEF Intact
  <1>6. TypeOK'
    BY <1>0, <1>2, <1>3, NobodyIsSlice DEF TypeOK
  <1>7. OwnIsLast'
    <2> SUFFICES ASSUME NEW q \in Nodes
                 PROVE  own(q)' = SliceAt(q, selfSeq[q])' \/ (own(q)' = Nobody /\ ~ Intact(q)')
      BY DEF OwnIsLast
    <2>1. own(q) = SliceAt(q, selfSeq[q]) \/ (own(q) = Nobody /\ ~ Intact(q))
      BY <1>0 DEF OwnIsLast
    <2>2. SliceAt(q, selfSeq[q])' = SliceAt(q, selfSeq[q])
      BY <1>2 DEF SliceAt
    <2> QED
      BY <1>4, <1>5, <2>1, <2>2 DEF own
  <1>8. MessagesAreTrue'
    <2> SUFFICES ASSUME NEW q \in Nodes, NEW n \in Nodes, NEW x \in wire'[q][n]
                 PROVE  Truthful(q, x)'
      BY DEF MessagesAreTrue
    <2>1. CASE x \in wire[q][n]
      <3>1. Truthful(q, x)
        BY <1>0, <2>1 DEF MessagesAreTrue
      <3>2. SliceAt(q, x.q - 1)' = SliceAt(q, x.q - 1)
        BY <1>2 DEF SliceAt
      <3> QED
        BY <1>2, <1>5, <3>1, <3>2 DEF Truthful
    <2>2. CASE q = p /\ x = m
      BY <1>1, <1>5, <2>2 DEF Truthful
    <2> QED
      BY <1>3, <2>1, <2>2
  <1>9. NotAhead'
    BY <1>0, <1>2 DEF NotAhead
  <1>10. ReplicaIsPast'
    <2> SUFFICES ASSUME NEW n \in Nodes, NEW q \in Nodes, n # q, whole'[n][q], Intact(q)'
                 PROVE  replica'[n][q] = SliceAt(q, appliedSeq[n][q])'
      BY DEF ReplicaIsPast, SliceAt, Intact
    <2>1. replica[n][q] = SliceAt(q, appliedSeq[n][q])
      BY <1>0, <1>2, <1>5 DEF ReplicaIsPast, SliceAt, Intact
    <2> QED
      BY <1>2, <1>4, <2>1 DEF SliceAt
  <1> QED
    BY <1>3, <1>4, <1>6, <1>7, <1>8, <1>9, <1>10 DEF IInv

\* A snapshot tells of the last write, and changes nothing at home.
LEMMA SnapshotStep ==
  ASSUME IInv, NEW p \in Nodes, sendSnapshot(p)
  PROVE  IInv'
  <1> DEFINE m == [t |-> "s", q |-> selfSeq[p], c |-> own(p)]
  <1>0. TypeOK /\ OwnIsLast /\ NoEcho /\ MessagesAreTrue /\ NotAhead /\ ReplicaIsPast
    BY DEF IInv
  <1>1. /\ m \in PresenceMsg /\ m.t = "s" /\ m.q = selfSeq[p] /\ m.c = own(p)
        /\ selfSeq[p] \in Nat
    BY <1>0, GossipConstants DEF PresenceMsg, TypeOK, own
  <1>2. selfSeq[p] # 0 /\ own(p) = past[p][selfSeq[p]]
    BY <1>0 DEF OwnIsLast, SliceAt, sendSnapshot
  <1>3. /\ broadcast(p, m)
        /\ UNCHANGED <<node, conn, replica, appliedSeq, heard, selfSeq, past, whole>>
    BY DEF sendSnapshot
  <1> HIDE DEF m
  <1>4. /\ wire' \in [Nodes -> [Nodes -> SUBSET PresenceMsg]] /\ NoEcho'
        /\ \A q, n \in Nodes : \A x \in wire'[q][n] : x \in wire[q][n] \/ (q = p /\ x = m)
    BY <1>0, <1>1, <1>3, Broadcast
  <1>5. TypeOK'
    BY <1>0, <1>3, <1>4 DEF TypeOK
  <1>6. OwnIsLast' /\ NotAhead' /\ ReplicaIsPast'
    BY <1>0, <1>3 DEF OwnIsLast, NotAhead, ReplicaIsPast, own, SliceAt, Intact
  <1>7. MessagesAreTrue'
    <2> SUFFICES ASSUME NEW q \in Nodes, NEW n \in Nodes, NEW x \in wire'[q][n]
                 PROVE  Truthful(q, x)'
      BY DEF MessagesAreTrue
    <2>1. CASE x \in wire[q][n]
      <3>1. Truthful(q, x)
        BY <1>0, <2>1 DEF MessagesAreTrue
      <3>2. SliceAt(q, x.q - 1)' = SliceAt(q, x.q - 1) /\ Intact(q)' = Intact(q)
        BY <1>3 DEF SliceAt, Intact
      <3> QED
        BY <1>3, <3>1, <3>2 DEF Truthful
    <2>2. CASE q = p /\ x = m
      BY <1>1, <1>2, <1>3, <2>2 DEF Truthful
    <2> QED
      BY <1>4, <2>1, <2>2
  <1> QED
    BY <1>4, <1>5, <1>6, <1>7 DEF IInv

-----------------------------------------------------------------------------
(* The receiver's steps.                                                   *)

\* What enters a replica was in the slice after a write that is not older than what the
\* replica has followed.
Entered ==
  \A n, p \in Nodes, c \in Conns :
    n # p /\ c \in DOMAIN replica'[n][p] /\ c \notin DOMAIN replica[n][p] =>
      \E q \in 1..selfSeq[p] : q >= appliedSeq[n][p] /\ c \in DOMAIN past[p][q]

\* A step of n that may change what it has of p: it is enough to look at that.
LEMMA ReceiverStep ==
  ASSUME IInv, NEW n \in Nodes, NEW p \in Nodes, n # p,
         UNCHANGED <<node, conn, selfSeq, past>>,
         NEW s \in Slice, NEW a \in Nat, NEW w \in BOOLEAN, NEW h \in BOOLEAN,
         replica' = [replica EXCEPT ![n][p] = s],
         appliedSeq' = [appliedSeq EXCEPT ![n][p] = a],
         whole' = [whole EXCEPT ![n][p] = w],
         heard' = [heard EXCEPT ![n][p] = h],
         NEW m, wire' = [wire EXCEPT ![p][n] = @ \ {m}],
         a <= selfSeq[p],
         w /\ Intact(p) => s = SliceAt(p, a),
         \A c \in DOMAIN s : c \in DOMAIN replica[n][p] \/
           \E q \in 1..selfSeq[p] : q >= appliedSeq[n][p] /\ c \in DOMAIN past[p][q]
  PROVE  IInv' /\ Entered
  <1>0. TypeOK /\ OwnIsLast /\ NoEcho /\ MessagesAreTrue /\ NotAhead /\ ReplicaIsPast
    BY DEF IInv
  <1>1. /\ wire' \in [Nodes -> [Nodes -> SUBSET PresenceMsg]] /\ NoEcho'
        /\ \A q, k \in Nodes : wire'[q][k] \subseteq wire[q][k]
    BY <1>0, TakenOff
  <1>2. \A k, q \in Nodes :
          /\ replica'[k][q] = IF k = n /\ q = p THEN s ELSE replica[k][q]
          /\ appliedSeq'[k][q] = IF k = n /\ q = p THEN a ELSE appliedSeq[k][q]
          /\ whole'[k][q] = IF k = n /\ q = p THEN w ELSE whole[k][q]
    BY <1>0 DEF TypeOK
  <1>3. TypeOK'
    BY <1>0, <1>1 DEF TypeOK
  <1>4. OwnIsLast'
    BY <1>0, <1>2 DEF OwnIsLast, own, SliceAt, Intact
  <1>5. MessagesAreTrue'
    BY <1>0, <1>1, StillTrue DEF Intact
  <1>6. NotAhead'
    BY <1>0, <1>2 DEF NotAhead
  <1>7. ReplicaIsPast'
    <2> SUFFICES ASSUME NEW k \in Nodes, NEW q \in Nodes, k # q, whole'[k][q], Intact(q)'
                 PROVE  replica'[k][q] = SliceAt(q, appliedSeq[k][q])'
      BY DEF ReplicaIsPast, SliceAt, Intact
    <2>1. CASE k = n /\ q = p
      BY <1>2, <2>1 DEF SliceAt, Intact
    <2>2. CASE ~ (k = n /\ q = p)
      BY <1>0, <1>2, <2>2 DEF SliceAt, Intact, ReplicaIsPast
    <2> QED
      BY <2>1, <2>2
  <1>8. Entered
    BY <1>2 DEF Entered
  <1> QED
    BY <1>1, <1>3, <1>4, <1>5, <1>6, <1>7, <1>8 DEF IInv

\* The receiver of a message is not its sender.
LEMMA Arrival ==
  ASSUME IInv, NEW n \in Nodes, NEW p \in Nodes, NEW m \in wire[p][n]
  PROVE  /\ n # p /\ m \in PresenceMsg /\ Truthful(p, m)
         /\ appliedSeq[n][p] \in 0..selfSeq[p] /\ selfSeq[p] \in Nat
         /\ replica[n][p] \in Slice
         /\ whole[n][p] \in BOOLEAN /\ heard[n][p] \in BOOLEAN
         /\ whole[n][p] /\ Intact(p) => replica[n][p] = SliceAt(p, appliedSeq[n][p])
  <1>0. TypeOK /\ NoEcho /\ MessagesAreTrue /\ NotAhead /\ ReplicaIsPast
    BY DEF IInv
  <1>1. n # p
    BY <1>0 DEF NoEcho
  <1>2. whole[n][p] /\ Intact(p) => replica[n][p] = SliceAt(p, appliedSeq[n][p])
    BY <1>0, <1>1 DEF ReplicaIsPast, SliceAt, Intact
  <1>3. appliedSeq[n][p] \in 0..selfSeq[p] /\ selfSeq[p] \in Nat
    BY <1>0 DEF TypeOK, NotAhead
  <1> QED
    BY <1>0, <1>1, <1>2, <1>3 DEF TypeOK, MessagesAreTrue

\* A message is lost, or changes nothing but that the node has been heard.
LEMMA Unmoved ==
  ASSUME IInv, NEW n \in Nodes, NEW p \in Nodes, NEW m \in wire[p][n],
         wire' = [wire EXCEPT ![p][n] = @ \ {m}],
         UNCHANGED <<node, conn, selfSeq, past, replica, appliedSeq, whole>>,
         heard' \in [Nodes -> [Nodes -> BOOLEAN]]
  PROVE  IInv' /\ Entered
  <1>0. TypeOK /\ OwnIsLast /\ NoEcho /\ MessagesAreTrue /\ NotAhead /\ ReplicaIsPast
    BY DEF IInv
  <1>1. /\ wire' \in [Nodes -> [Nodes -> SUBSET PresenceMsg]] /\ NoEcho'
        /\ \A q, k \in Nodes : wire'[q][k] \subseteq wire[q][k]
    BY <1>0, TakenOff
  <1>2. TypeOK'
    BY <1>0, <1>1 DEF TypeOK
  <1>3. MessagesAreTrue'
    BY <1>0, <1>1, StillTrue DEF Intact
  <1>4. OwnIsLast' /\ NotAhead' /\ ReplicaIsPast' /\ Entered
    BY <1>0 DEF OwnIsLast, NotAhead, ReplicaIsPast, Entered, own, SliceAt, Intact
  <1> QED
    BY <1>1, <1>2, <1>3, <1>4 DEF IInv

LEMMA LeaveArrives ==
  ASSUME IInv, NEW n \in Nodes, NEW p \in Nodes, NEW m \in wire[p][n], receiveLeave(n, p, m)
  PROVE  IInv' /\ Entered
  <1>1. /\ m.t = "l"
        /\ wire' = [wire EXCEPT ![p][n] = @ \ {m}] /\ UNCHANGED <<node, conn, selfSeq, past>>
        /\ replica' = [replica EXCEPT ![n][p] = Nobody]
        /\ appliedSeq' = [appliedSeq EXCEPT ![n][p] = 0]
        /\ heard' = [heard EXCEPT ![n][p] = FALSE]
        /\ whole' = [whole EXCEPT ![n][p] = TRUE]
    BY DEF receiveLeave, Arrives
  <1>2. n # p /\ ~ Intact(p) /\ 0 <= selfSeq[p]
    BY <1>1, Arrival DEF Truthful
  <1>3. Nobody \in Slice /\ DOMAIN Nobody = {}
    BY NobodyIsSlice
  <1> QED
    BY <1>1, <1>2, <1>3, ReceiverStep

LEMMA SnapshotArrived ==
  ASSUME IInv, NEW n \in Nodes, NEW p \in Nodes, NEW m \in wire[p][n], receiveSnapshot(n, p, m)
  PROVE  IInv' /\ Entered
  <1>1. /\ m.t = "s"
        /\ wire' = [wire EXCEPT ![p][n] = @ \ {m}] /\ UNCHANGED <<node, conn, selfSeq, past>>
        /\ heard' = [heard EXCEPT ![n][p] = TRUE]
    BY DEF receiveSnapshot, Arrives
  <1>2. /\ n # p /\ m.q \in 1..selfSeq[p] /\ m.c = past[p][m.q] /\ m.c \in Slice
        /\ appliedSeq[n][p] \in 0..selfSeq[p] /\ selfSeq[p] \in Nat
    BY <1>1, Arrival DEF Truthful, PresenceMsg
  <1>3. CASE m.q >= appliedSeq[n][p]
    <2>1. /\ replica' = [replica EXCEPT ![n][p] = m.c]
          /\ appliedSeq' = [appliedSeq EXCEPT ![n][p] = m.q]
          /\ whole' = [whole EXCEPT ![n][p] = TRUE]
      BY <1>3 DEF receiveSnapshot
    <2>2. m.c = SliceAt(p, m.q) /\ m.q \in Nat /\ m.q <= selfSeq[p]
      BY <1>2 DEF SliceAt
    <2>3. \A c \in DOMAIN m.c :
            \E q \in 1..selfSeq[p] : q >= appliedSeq[n][p] /\ c \in DOMAIN past[p][q]
      BY <1>2, <1>3
    <2> QED
      BY <1>1, <1>2, <2>1, <2>2, <2>3, ReceiverStep
  <1>4. CASE ~ (m.q >= appliedSeq[n][p])
    <2>1. UNCHANGED <<replica, appliedSeq, whole>>
      BY <1>4 DEF receiveSnapshot
    <2>2. heard' \in [Nodes -> [Nodes -> BOOLEAN]]
      BY <1>1 DEF IInv, TypeOK
    <2> QED
      BY <1>1, <2>1, <2>2, Unmoved
  <1> QED
    BY <1>3, <1>4

LEMMA DeltaArrives ==
  ASSUME IInv, NEW n \in Nodes, NEW p \in Nodes, NEW m \in wire[p][n], receiveDelta(n, p, m)
  PROVE  IInv' /\ Entered
  <1>1. /\ m.t = "d"
        /\ wire' = [wire EXCEPT ![p][n] = @ \ {m}] /\ UNCHANGED <<node, conn, selfSeq, past>>
        /\ heard' = [heard EXCEPT ![n][p] = TRUE]
    BY DEF receiveDelta, Arrives
  <1>2. /\ n # p /\ m.q \in 1..selfSeq[p] /\ m.op \in DeltaOp
        /\ m.op.k = "set" => m.op.c \in DOMAIN past[p][m.q]
        /\ Intact(p) => past[p][m.q] = applyDelta(SliceAt(p, m.q - 1), m.op)
        /\ appliedSeq[n][p] \in 0..selfSeq[p] /\ selfSeq[p] \in Nat
        /\ replica[n][p] \in Slice /\ whole[n][p] \in BOOLEAN
        /\ whole[n][p] /\ Intact(p) => replica[n][p] = SliceAt(p, appliedSeq[n][p])
    BY <1>1, Arrival DEF Truthful, PresenceMsg
  <1>3. CASE m.q > appliedSeq[n][p]
    <2> DEFINE s == applyDelta(replica[n][p], m.op)
               w == whole[n][p] /\ m.q = appliedSeq[n][p] + 1
    <2>1. /\ replica' = [replica EXCEPT ![n][p] = s]
          /\ appliedSeq' = [appliedSeq EXCEPT ![n][p] = m.q]
          /\ whole' = [whole EXCEPT ![n][p] = w]
      BY <1>3 DEF receiveDelta
    <2>2. /\ s \in Slice
          /\ \A c \in DOMAIN s : c \in DOMAIN replica[n][p] \/ (m.op.k = "set" /\ m.op.c = c)
      BY <1>2, ApplyDelta
    <2>3. w /\ Intact(p) => s = SliceAt(p, m.q)
      <3>1. (m.q - 1 = appliedSeq[n][p] /\ m.q # 0) \/ ~ w
        BY <1>2
      <3> QED
        BY <1>2, <3>1 DEF SliceAt
    <2>4. w \in BOOLEAN /\ m.q \in Nat /\ m.q <= selfSeq[p]
      BY <1>2
    <2> HIDE DEF s, w
    <2>5. \A c \in DOMAIN s : c \in DOMAIN replica[n][p] \/
            \E q \in 1..selfSeq[p] : q >= appliedSeq[n][p] /\ c \in DOMAIN past[p][q]
      BY <1>2, <1>3, <2>2
    <2> QED
      BY <1>1, <1>2, <2>1, <2>2, <2>3, <2>4, <2>5, ReceiverStep
  <1>4. CASE ~ (m.q > appliedSeq[n][p])
    <2>1. UNCHANGED <<replica, appliedSeq, whole>>
      BY <1>4 DEF receiveDelta
    <2>2. heard' \in [Nodes -> [Nodes -> BOOLEAN]]
      BY <1>1 DEF IInv, TypeOK
    <2> QED
      BY <1>1, <2>1, <2>2, Unmoved
  <1> QED
    BY <1>3, <1>4

-----------------------------------------------------------------------------
(* The theorems.                                                           *)

LEMMA InitIsIntact == Init => IInv
  <1> SUFFICES ASSUME Init PROVE IInv
    OBVIOUS
  <1>1. TypeOK
    <2>1. <<>> \in Seq(Slice) /\ Len(<<>>) = 0 /\ 0 \in 0..MaxWrites
      BY GossipConstants
    <2> QED
      BY <2>1, NobodyIsSlice DEF Init, TypeOK
  <1>2. OwnIsLast /\ NoEcho /\ MessagesAreTrue /\ NotAhead /\ ReplicaIsPast
    BY DEF Init, OwnIsLast, NoEcho, MessagesAreTrue, NotAhead, ReplicaIsPast, own, SliceAt
  <1> QED
    BY <1>1, <1>2 DEF IInv

\* A step that moves no replica but the node's own lets nothing in.
LEMMA NothingEntered ==
  ASSUME \A n, q \in Nodes : n # q => replica'[n][q] = replica[n][q]
  PROVE  Entered
  BY DEF Entered

LEMMA Inductive == IInv /\ [Next]_vars => IInv' /\ Entered
  <1> SUFFICES ASSUME IInv, [Next]_vars PROVE IInv' /\ Entered
    OBVIOUS
  <1>0. TypeOK /\ OwnIsLast /\ NoEcho /\ MessagesAreTrue /\ NotAhead /\ ReplicaIsPast
    BY DEF IInv
  <1>1. ASSUME NEW c \in Conns, set(c) PROVE IInv' /\ Entered
    <2>1. [k |-> "set", c |-> c] \in DeltaOp /\ Home[c] \in Nodes
      BY GossipConstants DEF DeltaOp
    <2>2. conn' \in [Conns -> {"new", "open", "gone"}] /\ Write(Home[c], [k |-> "set", c |-> c])
      BY <1>0, <1>1 DEF set, TypeOK
    <2> QED
      BY <2>1, <2>2, WriteStep, NothingEntered
  <1>2. ASSUME NEW c \in Conns, del(c) PROVE IInv' /\ Entered
    <2>1. [k |-> "del", c |-> c] \in DeltaOp /\ Home[c] \in Nodes
      BY GossipConstants DEF DeltaOp
    <2>2. conn' \in [Conns -> {"new", "open", "gone"}] /\ Write(Home[c], [k |-> "del", c |-> c])
      BY <1>0, <1>2 DEF del, TypeOK
    <2> QED
      BY <2>1, <2>2, WriteStep, NothingEntered
  <1>3. ASSUME NEW c \in Conns, NEW room \in Rooms, addRoom(c, room) PROVE IInv' /\ Entered
    <2>1. [k |-> "addRoom", c |-> c, room |-> room] \in DeltaOp /\ Home[c] \in Nodes
      BY GossipConstants DEF DeltaOp
    <2>2. /\ conn' \in [Conns -> {"new", "open", "gone"}]
          /\ Write(Home[c], [k |-> "addRoom", c |-> c, room |-> room])
      BY <1>0, <1>3 DEF addRoom, TypeOK
    <2> QED
      BY <2>1, <2>2, WriteStep, NothingEntered
  <1>4. ASSUME NEW c \in Conns, NEW room \in Rooms, removeRoom(c, room) PROVE IInv' /\ Entered
    <2>1. [k |-> "removeRoom", c |-> c, room |-> room] \in DeltaOp /\ Home[c] \in Nodes
      BY GossipConstants DEF DeltaOp
    <2>2. /\ conn' \in [Conns -> {"new", "open", "gone"}]
          /\ Write(Home[c], [k |-> "removeRoom", c |-> c, room |-> room])
      BY <1>0, <1>4 DEF removeRoom, TypeOK
    <2> QED
      BY <2>1, <2>2, WriteStep, NothingEntered
  <1>5. ASSUME NEW p \in Nodes, clearNode(p) PROVE IInv' /\ Entered
    BY <1>5, ClearStep, NothingEntered
  <1>6. ASSUME NEW p \in Nodes, sendSnapshot(p) PROVE IInv' /\ Entered
    BY <1>6, SnapshotStep, NothingEntered DEF sendSnapshot
  <1>7. ASSUME NEW p \in Nodes, Exit(p) PROVE IInv' /\ Entered
    <2>1. /\ node' = [node EXCEPT ![p] = IF @ = "up" THEN "crashed" ELSE "gone"]
          /\ conn' = [c \in Conns |-> IF Home[c] = p THEN "gone" ELSE conn[c]]
          /\ UNCHANGED <<replica, appliedSeq, heard, selfSeq, wire, past, whole>>
          /\ node[p] \in {"up", "left"}
      BY <1>7 DEF Exit, Running
    <2>2. \A q \in Nodes : node'[q] = IF q = p THEN (IF node[p] = "up" THEN "crashed" ELSE "gone")
                                      ELSE node[q]
      BY <1>0, <2>1 DEF TypeOK
    <2>3. \A q \in Nodes : Intact(q)' = Intact(q)
      BY <2>1, <2>2 DEF Intact
    <2>4. TypeOK'
      BY <1>0, <2>1 DEF TypeOK
    <2>5. MessagesAreTrue' /\ NoEcho' /\ NotAhead'
      BY <1>0, <2>1, <2>3, StillTrue DEF NoEcho, NotAhead
    <2>6. OwnIsLast'
      <3> SUFFICES ASSUME NEW q \in Nodes
                   PROVE  own(q)' = SliceAt(q, selfSeq[q])' \/ (own(q)' = Nobody /\ ~ Intact(q)')
        BY DEF OwnIsLast
      <3>1. own(q)' = own(q) /\ SliceAt(q, selfSeq[q])' = SliceAt(q, selfSeq[q])
        BY <2>1 DEF own, SliceAt
      <3> QED
        BY <1>0, <2>3, <3>1 DEF OwnIsLast
    <2>7. ReplicaIsPast'
      <3> SUFFICES ASSUME NEW n \in Nodes, NEW q \in Nodes, n # q, whole'[n][q], Intact(q)'
                   PROVE  replica'[n][q] = SliceAt(q, appliedSeq[n][q])'
        BY DEF ReplicaIsPast, SliceAt, Intact
      <3>1. Intact(q) /\ whole[n][q]
        BY <2>1, <2>3
      <3> QED
        BY <1>0, <2>1, <3>1 DEF ReplicaIsPast, SliceAt, Intact
    <2>8. Entered
      BY <2>1, NothingEntered
    <2> QED
      BY <2>4, <2>5, <2>6, <2>7, <2>8 DEF IInv
  <1>8. ASSUME NEW n \in Nodes, NEW p \in Nodes, Expire(n, p) PROVE IInv' /\ Entered
    <2>1. /\ heard' = [heard EXCEPT ![n][p] = FALSE]
          /\ UNCHANGED <<node, conn, replica, appliedSeq, selfSeq, wire, past, whole>>
      BY <1>8 DEF Expire
    <2>2. TypeOK'
      BY <1>0, <2>1 DEF TypeOK
    <2>3. MessagesAreTrue'
      BY <1>0, <2>1, StillTrue DEF Intact
    <2>4. OwnIsLast' /\ NoEcho' /\ NotAhead' /\ ReplicaIsPast' /\ Entered
      BY <1>0, <2>1 DEF OwnIsLast, NoEcho, NotAhead, ReplicaIsPast, Entered, own, SliceAt, Intact
    <2> QED
      BY <2>2, <2>3, <2>4 DEF IInv
  <1>9. ASSUME NEW n \in Nodes, NEW p \in Nodes, NEW m \in wire[p][n], receive(n, p, m)
        PROVE  IInv' /\ Entered
    BY <1>9, LeaveArrives, SnapshotArrived, DeltaArrives DEF receive
  <1>10. ASSUME NEW n \in Nodes, NEW p \in Nodes, NEW m \in wire[p][n], Lose(n, p, m)
         PROVE  IInv' /\ Entered
    <2>1. heard' \in [Nodes -> [Nodes -> BOOLEAN]]
      BY <1>0, <1>10 DEF Lose, TypeOK
    <2> QED
      BY <1>10, <2>1, Unmoved DEF Lose
  <1>11. CASE UNCHANGED vars
    <2>1. TypeOK'
      BY <1>0, <1>11 DEF TypeOK, vars
    <2>2. MessagesAreTrue'
      BY <1>0, <1>11, StillTrue DEF vars, Intact
    <2>3. OwnIsLast' /\ NoEcho' /\ NotAhead' /\ ReplicaIsPast' /\ Entered
      BY <1>0, <1>11 DEF vars, OwnIsLast, NoEcho, NotAhead, ReplicaIsPast, Entered, own, SliceAt, Intact
    <2> QED
      BY <2>1, <2>2, <2>3 DEF IInv
  <1> QED
    BY <1>1, <1>2, <1>3, <1>4, <1>5, <1>6, <1>7, <1>8, <1>9, <1>10, <1>11 DEF Next

\* The state of a directory has its types.
THEOREM TypeCorrect == Spec => []TypeOK
  <1>1. Init => IInv
    BY InitIsIntact
  <1>2. IInv /\ [Next]_vars => IInv'
    BY Inductive
  <1>3. IInv => TypeOK
    BY DEF IInv
  <1> QED
    BY <1>1, <1>2, <1>3, PTL DEF Spec

\* receive, for any order, loss and number of messages: a replica that has missed no write
\* since its last snapshot is the slice it copies, as it was after a write.
THEOREM ReplicaCorrect == Spec => []ReplicaIsPast
  <1>1. Init => IInv
    BY InitIsIntact
  <1>2. IInv /\ [Next]_vars => IInv'
    BY Inductive
  <1>3. IInv => ReplicaIsPast
    BY DEF IInv
  <1> QED
    BY <1>1, <1>2, <1>3, PTL DEF Spec

\* receive, again for anything the network does: a connection that enters a replica was in the
\* slice after the last write the replica has followed, or a later one.
THEOREM NothingResurrected == Spec => NothingComesBack
  <1>1. Init => IInv
    BY InitIsIntact
  <1>2. IInv /\ [Next]_vars => IInv' /\ Entered
    BY Inductive
  <1>3. IInv /\ [Next]_vars => IInv'
    BY <1>2
  <1>4. Entered => [Entered]_vars
    OBVIOUS
  <1>5. Spec => [][Entered]_vars
    BY <1>1, <1>2, <1>3, PTL DEF Spec
  <1> QED
    BY <1>5 DEF NothingComesBack, Entered
=============================================================================
