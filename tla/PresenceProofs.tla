--------------------------- MODULE PresenceProofs ---------------------------
(***************************************************************************)
(* The directory of connections, for every set of nodes, connections and   *)
(* rooms: the types, that a connection another node can find is one it can *)
(* reach, that an open connection of a beating node stays in the           *)
(* directory, and that its rooms are there once its writes are done.       *)
(***************************************************************************)
EXTENDS Presence, FiniteSetTheorems, SequenceTheorems, TLAPS

\* What a queue holds, and that it holds a member of T in one place at most.
Elems(q) == {q[i] : i \in 1..Len(q)}
Single(q, T) == \A i, j \in 1..Len(q) : q[i] \in T /\ q[j] \in T => i = j

Own(n) == {c \in Conns : NodeOf[c] = n}

\* The commands a node issues, and the answers it gets.
Asked(n) ==
  {m \in Command :
     /\ m.op \in {"members", "wipe"} => m.of = "clearNode"
     /\ m.op \notin {"members", "wipe"} => m.conn \in Own(n)
     /\ m.op = "set" <=> m.of = "set"
     /\ m.op = "put" => m.of \in RoomWrites
     /\ m.op = "drop" => m.of \notin RoomWrites
     /\ m.of \in RoomWrites => m.room \in Rooms}
Given(n) ==
  {a \in Answer :
     /\ a.to \in Asked(n) /\ a.to.op # "put"
     /\ a.to.op = "get" => a.found \in {NoDescriptor} \cup SUBSET Rooms
     /\ a.to.op = "members" => a.found \subseteq Own(n)
     /\ a.to.op = "drop" => a.to.of = "clearNode"}

Queues ==
  \A n \in Nodes :
    pipe[n] \in Seq(Asked(n)) /\ answers[n] \in Seq(Given(n)) /\ left[n] \subseteq Own(n)

\* The commands of a node that Redis has not executed or the node has not seen answered.
InFlight(n) == Elems(pipe[n]) \cup {a.to : a \in Elems(answers[n])}

\* Only a node that closes deletes the connections of a node.
UpIsNotCleared ==
  \A n \in Nodes : node[n] = "up" => \A m \in InFlight(n) : m.of # "clearNode"

\* The personal channel is subscribed before the announcement.
OpenIsAccepted ==
  \A c \in Conns :
    /\ c \in open => Running(NodeOf[c]) /\ registered[c] # "none"
    /\ c \in open /\ registered[c] # "joining" => c \in reachable
    /\ registered[c] = "none" => deferred[c] = <<>>

\* presence.del of a connection is issued when it closes, never before.
OpenIsNotDeleted ==
  \A c \in Conns : Running(NodeOf[c]) /\ (c \in open \/ registered[c] = "none") =>
    \A m \in InFlight(NodeOf[c]) : m.conn = c => m.of # "del"

\* Redis knows nothing of a connection that has not been announced.
Unannounced ==
  \A c \in Conns : Running(NodeOf[c]) /\ registered[c] \in {"none", "joining"} =>
    /\ c \notin index
    /\ \A m \in InFlight(NodeOf[c]) : m.conn = c => m.op # "set"

\* A connection is announced once, and conn.registered resolves behind the announcement.
SetsOf(c) == {m \in Command : m.op = "set" /\ m.conn = c}
SetPiped(c) == \E m \in Elems(pipe[NodeOf[c]]) : m \in SetsOf(c)
SetAnswered(c) == \E a \in Elems(answers[NodeOf[c]]) : a.to \in SetsOf(c)
SetOnce ==
  \A c \in Conns :
    /\ Single(pipe[NodeOf[c]], SetsOf(c))
    /\ Running(NodeOf[c]) /\ registered[c] = "done" => ~ SetPiped(c)
    /\ SetAnswered(c) => ~ SetPiped(c)

\* What the announcement wrote stays while the connection is open.
Announced(c) == registered[c] \in {"setting", "done"} /\ ~ SetPiped(c)
Kept ==
  \A c \in open : Announced(c) /\ node[NodeOf[c]] = "up" =>
    /\ c \in index /\ descriptor[c] # NoDescriptor
    /\ NodeOf[c] \in Beating => NodeOf[c] \in alive

DirInv ==
  /\ TypeOK /\ Queues /\ UpIsNotCleared /\ OpenIsAccepted /\ OpenIsNotDeleted
  /\ Unannounced /\ SetOnce /\ Kept
-----------------------------------------------------------------------------
(* Queues: what joins them at the end, and what leaves at the head.        *)

LEMMA ConcatElems ==
  ASSUME NEW S, NEW p \in Seq(S), NEW q \in Seq(S)
  PROVE  p \o q \in Seq(S) /\ Elems(p \o q) = Elems(p) \cup Elems(q)
  <1>1. /\ p \o q \in Seq(S) /\ Len(p) \in Nat /\ Len(q) \in Nat
        /\ Len(p \o q) = Len(p) + Len(q)
        /\ \A i \in 1 .. Len(p) + Len(q) :
             (p \o q)[i] = IF i <= Len(p) THEN p[i] ELSE q[i - Len(p)]
    BY ConcatProperties, LenProperties
  <1>2. ASSUME NEW x \in Elems(p \o q)
        PROVE  x \in Elems(p) \cup Elems(q)
    <2>1. PICK i \in 1 .. Len(p) + Len(q) : x = (p \o q)[i]
      BY <1>1, <1>2 DEF Elems
    <2>2. CASE i <= Len(p)
      BY <2>1, <2>2, <1>1 DEF Elems
    <2>3. CASE ~ (i <= Len(p))
      <3>1. i - Len(p) \in 1..Len(q) /\ x = q[i - Len(p)]
        BY <2>1, <2>3, <1>1
      <3> QED
        BY <3>1 DEF Elems
    <2> QED
      BY <2>2, <2>3
  <1>3. ASSUME NEW x \in Elems(p)
        PROVE  x \in Elems(p \o q)
    <2>1. PICK i \in 1..Len(p) : x = p[i]
      BY <1>3 DEF Elems
    <2>2. i \in 1..Len(p \o q) /\ (p \o q)[i] = x
      BY <2>1, <1>1
    <2> QED
      BY <2>2 DEF Elems
  <1>4. ASSUME NEW x \in Elems(q)
        PROVE  x \in Elems(p \o q)
    <2>1. PICK i \in 1..Len(q) : x = q[i]
      BY <1>4 DEF Elems
    <2>2. Len(p) + i \in 1..Len(p \o q) /\ (p \o q)[Len(p) + i] = x
      BY <2>1, <1>1
    <2> QED
      BY <2>2 DEF Elems
  <1> QED
    BY <1>1, <1>2, <1>3, <1>4

LEMMA ConcatSingle ==
  ASSUME NEW S, NEW p \in Seq(S), NEW q \in Seq(S), NEW T,
         \/ Single(p, T) /\ Elems(q) \cap T = {}
         \/ Single(q, T) /\ Elems(p) \cap T = {}
  PROVE  Single(p \o q, T)
  <1>1. /\ Len(p) \in Nat /\ Len(q) \in Nat /\ Len(p \o q) = Len(p) + Len(q)
        /\ \A i \in 1 .. Len(p) + Len(q) :
             (p \o q)[i] = IF i <= Len(p) THEN p[i] ELSE q[i - Len(p)]
    BY ConcatProperties, LenProperties
  <1> SUFFICES ASSUME NEW i \in 1..Len(p \o q), NEW j \in 1..Len(p \o q),
                      (p \o q)[i] \in T, (p \o q)[j] \in T
               PROVE  i = j
    BY DEF Single
  <1>2. /\ i <= Len(p) => i \in 1..Len(p) /\ p[i] \in T /\ p[i] \in Elems(p)
        /\ ~ (i <= Len(p)) => /\ i - Len(p) \in 1..Len(q) /\ q[i - Len(p)] \in T
                              /\ q[i - Len(p)] \in Elems(q)
    BY <1>1 DEF Elems
  <1>3. /\ j <= Len(p) => j \in 1..Len(p) /\ p[j] \in T /\ p[j] \in Elems(p)
        /\ ~ (j <= Len(p)) => /\ j - Len(p) \in 1..Len(q) /\ q[j - Len(p)] \in T
                              /\ q[j - Len(p)] \in Elems(q)
    BY <1>1 DEF Elems
  <1>4. CASE Single(p, T) /\ Elems(q) \cap T = {}
    BY <1>2, <1>3, <1>4 DEF Single
  <1>5. CASE Single(q, T) /\ Elems(p) \cap T = {}
    <2>1. i - Len(p) = j - Len(p)
      BY <1>2, <1>3, <1>5 DEF Single
    <2> QED
      BY <2>1, <1>1
  <1> QED
    BY <1>4, <1>5

LEMMA OneElem ==
  ASSUME NEW x
  PROVE  Elems(<<x>>) = {x}
  BY DEF Elems

LEMMA NoElems ==
  Elems(<<>>) = {}
  BY DEF Elems

LEMMA OneSingle ==
  ASSUME NEW x, NEW T
  PROVE  Single(<<x>>, T)
  BY DEF Single

LEMMA AppendElems ==
  ASSUME NEW S, NEW q \in Seq(S), NEW x \in S
  PROVE  /\ Append(q, x) \in Seq(S) /\ Elems(Append(q, x)) = Elems(q) \cup {x}
         /\ \A T : Single(q, T) /\ x \notin T => Single(Append(q, x), T)
         /\ \A T : Elems(q) \cap T = {} => Single(Append(q, x), T)
  <1>1. <<x>> \in Seq(S) /\ Append(q, x) = q \o <<x>>
    BY AppendIsConcat
  <1>2. /\ q \o <<x>> \in Seq(S) /\ Elems(q \o <<x>>) = Elems(q) \cup Elems(<<x>>)
    BY <1>1, ConcatElems
  <1>3. ASSUME NEW T, Single(q, T), x \notin T
        PROVE  Single(q \o <<x>>, T)
    <2>1. Elems(<<x>>) \cap T = {}
      BY <1>3, OneElem
    <2> QED
      BY <2>1, <1>1, <1>3, ConcatSingle
  <1>4. ASSUME NEW T, Elems(q) \cap T = {}
        PROVE  Single(q \o <<x>>, T)
    BY <1>1, <1>4, ConcatSingle, OneSingle
  <1> QED
    BY <1>1, <1>2, <1>3, <1>4, OneElem

LEMMA TailElems ==
  ASSUME NEW S, NEW q \in Seq(S), q # <<>>
  PROVE  /\ Tail(q) \in Seq(S) /\ Head(q) \in S /\ Head(q) \in Elems(q)
         /\ Elems(q) = {Head(q)} \cup Elems(Tail(q))
         /\ \A T : Single(q, T) => Single(Tail(q), T)
         /\ \A T : Single(q, T) /\ Head(q) \in T => Elems(Tail(q)) \cap T = {}
  <1>1. /\ Tail(q) \in Seq(S) /\ Len(q) \in Nat /\ Len(Tail(q)) = Len(q) - 1
        /\ 1 \in 1..Len(q) /\ Head(q) = q[1] /\ Head(q) \in S
        /\ \A i \in 1..Len(Tail(q)) : i + 1 \in 1..Len(q) /\ Tail(q)[i] = q[i + 1]
    BY HeadTailProperties, EmptySeq
  <1>2. ASSUME NEW i \in 1..Len(q), i # 1
        PROVE  q[i] \in Elems(Tail(q))
    <2>1. i - 1 \in 1..Len(Tail(q)) /\ i - 1 + 1 = i
      BY <1>1, <1>2
    <2>2. q[i] = Tail(q)[i - 1]
      BY <2>1, <1>1
    <2> QED
      BY <2>1, <2>2 DEF Elems
  <1>6. Elems(q) \subseteq {Head(q)} \cup Elems(Tail(q))
    BY <1>1, <1>2 DEF Elems
  <1>3. {Head(q)} \cup Elems(Tail(q)) \subseteq Elems(q)
    BY <1>1 DEF Elems
  <1>4. ASSUME NEW T, Single(q, T)
        PROVE  Single(Tail(q), T)
    <2> SUFFICES ASSUME NEW i \in 1..Len(Tail(q)), NEW j \in 1..Len(Tail(q)),
                        Tail(q)[i] \in T, Tail(q)[j] \in T
                 PROVE  i = j
      BY DEF Single
    <2>1. i + 1 = j + 1
      BY <1>1, <1>4 DEF Single
    <2> QED
      BY <2>1
  <1>5. ASSUME NEW T, Single(q, T), Head(q) \in T, NEW x \in Elems(Tail(q)), x \in T
        PROVE  FALSE
    <2>1. PICK i \in 1..Len(Tail(q)) : x = Tail(q)[i]
      BY <1>5 DEF Elems
    <2>2. i + 1 = 1
      BY <2>1, <1>1, <1>5 DEF Single
    <2> QED
      BY <2>2
  <1> QED
    BY <1>1, <1>3, <1>4, <1>5, <1>6

\* The rooms of a connection, one after the other.
LEMMA RoomsInSequence ==
  ASSUME NEW rs \in SUBSET Rooms
  PROVE  Cardinality(rs) \in Nat /\ SetToSeq(rs) \in [1..Cardinality(rs) -> rs]
  <1>1. IsFiniteSet(rs)
    BY PresenceConstants, FS_Subset
  <1>2. Cardinality(rs) \in Nat /\ ExistsBijection(1..Cardinality(rs), rs)
    BY <1>1, FS_CardinalityType
  <1>3. \E f \in [1..Cardinality(rs) -> rs] : IsInjective(f)
    BY <1>2 DEF ExistsBijection, Bijection, Injection, IsInjective
  <1> QED
    BY <1>2, <1>3 DEF SetToSeq
-----------------------------------------------------------------------------
(* What is issued, executed, answered and handled, queue by queue.         *)

LEMMA Sent ==
  ASSUME TypeOK, Queues, NEW n \in Nodes, NEW cmds \in Seq(Asked(n)), Send(n, cmds)
  PROVE  /\ pipe' \in [Nodes -> Seq(Command)]
         /\ \A k \in Nodes : pipe'[k] \in Seq(Asked(k)) /\ (k # n => pipe'[k] = pipe[k])
         /\ Elems(pipe'[n]) = Elems(pipe[n]) \cup Elems(cmds)
         /\ \A T : Single(pipe[n], T) /\ Elems(cmds) \cap T = {} => Single(pipe'[n], T)
         /\ \A T : Single(cmds, T) /\ Elems(pipe[n]) \cap T = {} => Single(pipe'[n], T)
  <1>1. pipe \in [Nodes -> Seq(Command)] /\ \A k \in Nodes : pipe[k] \in Seq(Asked(k))
    BY DEF TypeOK, Queues
  <1>2. pipe[n] \o cmds \in Seq(Asked(n)) /\ Elems(pipe[n] \o cmds) = Elems(pipe[n]) \cup Elems(cmds)
    BY <1>1, ConcatElems
  <1>3. Seq(Asked(n)) \subseteq Seq(Command)
    BY SeqMonotonic DEF Asked
  <1>4. /\ pipe' \in [Nodes -> Seq(Command)] /\ pipe'[n] = pipe[n] \o cmds
        /\ \A k \in Nodes : k # n => pipe'[k] = pipe[k]
    BY <1>1, <1>2, <1>3 DEF Send
  <1>5. \A T : Single(pipe[n], T) /\ Elems(cmds) \cap T = {} => Single(pipe'[n], T)
    BY <1>1, <1>4, ConcatSingle
  <1>6. \A T : Single(cmds, T) /\ Elems(pipe[n]) \cap T = {} => Single(pipe'[n], T)
    BY <1>1, <1>4, ConcatSingle
  <1> QED
    BY <1>1, <1>2, <1>4, <1>5, <1>6

LEMMA SentOne ==
  ASSUME TypeOK, Queues, NEW n \in Nodes, NEW m \in Asked(n), Send(n, <<m>>)
  PROVE  /\ pipe' \in [Nodes -> Seq(Command)]
         /\ \A k \in Nodes : pipe'[k] \in Seq(Asked(k)) /\ (k # n => pipe'[k] = pipe[k])
         /\ Elems(pipe'[n]) = Elems(pipe[n]) \cup {m}
         /\ \A T : Single(pipe[n], T) /\ m \notin T => Single(pipe'[n], T)
         /\ \A T : Elems(pipe[n]) \cap T = {} => Single(pipe'[n], T)
  <1>1. <<m>> \in Seq(Asked(n)) /\ Elems(<<m>>) = {m} /\ \A T : Single(<<m>>, T)
    BY OneElem, OneSingle
  <1>2. \A T : m \notin T => Elems(<<m>>) \cap T = {}
    BY <1>1
  <1> QED
    BY <1>1, <1>2, Sent

LEMMA SentNothing ==
  ASSUME TypeOK, Queues, NEW n \in Nodes, Send(n, <<>>)
  PROVE  pipe' = pipe
  BY ConcatEmptySeq DEF Send, TypeOK

LEMMA FirstExecuted ==
  ASSUME TypeOK, Queues, NEW n \in Nodes, pipe[n] # <<>>, Executed(n)
  PROVE  /\ pipe' \in [Nodes -> Seq(Command)] /\ Head(pipe[n]) \in Asked(n)
         /\ Head(pipe[n]) \in Elems(pipe[n])
         /\ \A k \in Nodes : pipe'[k] \in Seq(Asked(k)) /\ (k # n => pipe'[k] = pipe[k])
         /\ Elems(pipe[n]) = {Head(pipe[n])} \cup Elems(pipe'[n])
         /\ \A T : Single(pipe[n], T) => Single(pipe'[n], T)
         /\ \A T : Single(pipe[n], T) /\ Head(pipe[n]) \in T => Elems(pipe'[n]) \cap T = {}
  <1>1. pipe \in [Nodes -> Seq(Command)] /\ \A k \in Nodes : pipe[k] \in Seq(Asked(k))
    BY DEF TypeOK, Queues
  <1>2. /\ Tail(pipe[n]) \in Seq(Asked(n)) /\ Head(pipe[n]) \in Asked(n)
        /\ Head(pipe[n]) \in Elems(pipe[n])
        /\ Elems(pipe[n]) = {Head(pipe[n])} \cup Elems(Tail(pipe[n]))
        /\ \A T : Single(pipe[n], T) => Single(Tail(pipe[n]), T)
        /\ \A T : Single(pipe[n], T) /\ Head(pipe[n]) \in T => Elems(Tail(pipe[n])) \cap T = {}
    BY <1>1, TailElems
  <1>3. Seq(Asked(n)) \subseteq Seq(Command)
    BY SeqMonotonic DEF Asked
  <1>4. /\ pipe' \in [Nodes -> Seq(Command)] /\ pipe'[n] = Tail(pipe[n])
        /\ \A k \in Nodes : k # n => pipe'[k] = pipe[k]
    BY <1>1, <1>2, <1>3 DEF Executed
  <1> QED
    BY <1>1, <1>2, <1>4

LEMMA Replied ==
  ASSUME TypeOK, Queues, NEW n \in Nodes, NEW found, Reply(n, found),
         [to |-> Head(pipe[n]), found |-> found] \in Given(n)
  PROVE  /\ answers' \in [Nodes -> Seq(Answer)]
         /\ \A k \in Nodes : answers'[k] \in Seq(Given(k)) /\ (k # n => answers'[k] = answers[k])
         /\ ~ Running(n) => answers' = answers
         /\ Running(n) => /\ Elems(answers'[n]) = Elems(answers[n])
                                \cup {[to |-> Head(pipe[n]), found |-> found]}
                          /\ \A T : Elems(answers[n]) \cap T = {} => Single(answers'[n], T)
                          /\ \A T : Single(answers[n], T)
                               /\ [to |-> Head(pipe[n]), found |-> found] \notin T
                                 => Single(answers'[n], T)
  <1>1. answers \in [Nodes -> Seq(Answer)] /\ \A k \in Nodes : answers[k] \in Seq(Given(k))
    BY DEF TypeOK, Queues
  <1> PICK x \in Given(n) : x = [to |-> Head(pipe[n]), found |-> found]
    OBVIOUS
  <1>2. /\ Append(answers[n], x) \in Seq(Given(n))
        /\ Elems(Append(answers[n], x)) = Elems(answers[n]) \cup {x}
        /\ \A T : Single(answers[n], T) /\ x \notin T => Single(Append(answers[n], x), T)
        /\ \A T : Elems(answers[n]) \cap T = {} => Single(Append(answers[n], x), T)
    BY <1>1, AppendElems
  <1>3. Seq(Given(n)) \subseteq Seq(Answer)
    BY SeqMonotonic DEF Given
  <1>4. CASE Running(n)
    <2>1. /\ answers' \in [Nodes -> Seq(Answer)] /\ answers'[n] = Append(answers[n], x)
          /\ \A k \in Nodes : k # n => answers'[k] = answers[k]
      BY <1>1, <1>2, <1>3, <1>4 DEF Reply
    <2> QED
      BY <2>1, <1>1, <1>2, <1>4
  <1>5. CASE ~ Running(n)
    BY <1>1, <1>5 DEF Reply
  <1> QED
    BY <1>4, <1>5

LEMMA FirstHandled ==
  ASSUME TypeOK, Queues, NEW n \in Nodes, answers[n] # <<>>, Handled(n)
  PROVE  /\ answers' \in [Nodes -> Seq(Answer)] /\ Head(answers[n]) \in Given(n)
         /\ Head(answers[n]) \in Elems(answers[n])
         /\ \A k \in Nodes : answers'[k] \in Seq(Given(k)) /\ (k # n => answers'[k] = answers[k])
         /\ Elems(answers[n]) = {Head(answers[n])} \cup Elems(answers'[n])
         /\ \A T : Single(answers[n], T) => Single(answers'[n], T)
         /\ \A T : Single(answers[n], T) /\ Head(answers[n]) \in T
              => Elems(answers'[n]) \cap T = {}
  <1>1. answers \in [Nodes -> Seq(Answer)] /\ \A k \in Nodes : answers[k] \in Seq(Given(k))
    BY DEF TypeOK, Queues
  <1>2. /\ Tail(answers[n]) \in Seq(Given(n)) /\ Head(answers[n]) \in Given(n)
        /\ Head(answers[n]) \in Elems(answers[n])
        /\ Elems(answers[n]) = {Head(answers[n])} \cup Elems(Tail(answers[n]))
        /\ \A T : Single(answers[n], T) => Single(Tail(answers[n]), T)
        /\ \A T : Single(answers[n], T) /\ Head(answers[n]) \in T
             => Elems(Tail(answers[n])) \cap T = {}
    BY <1>1, TailElems
  <1>3. Seq(Given(n)) \subseteq Seq(Answer)
    BY SeqMonotonic DEF Given
  <1>4. /\ answers' \in [Nodes -> Seq(Answer)] /\ answers'[n] = Tail(answers[n])
        /\ \A k \in Nodes : k # n => answers'[k] = answers[k]
    BY <1>1, <1>2, <1>3 DEF Handled
  <1> QED
    BY <1>1, <1>2, <1>4

LEMMA GetAsked ==
  ASSUME NEW c \in Conns, NEW r \in Rooms \cup {NoRoom},
         NEW of \in {"addRoom", "removeRoom", "del", "clearNode"}, of \in RoomWrites => r \in Rooms
  PROVE  Get(of, c, r) \in Asked(NodeOf[c])
  BY PresenceConstants DEF Get, Asked, Command, Own, RoomWrites

LEMMA GetsAsked ==
  ASSUME NEW c \in Conns, NEW writes \in Seq(RoomWrite)
  PROVE  /\ Gets(c, writes) \in Seq(Asked(NodeOf[c]))
         /\ \A m \in Elems(Gets(c, writes)) :
              m.conn = c /\ m.op = "get" /\ m.of \in RoomWrites
  <1>1. Len(writes) \in Nat /\ DOMAIN writes = 1..Len(writes)
    OBVIOUS
  <1>2. ASSUME NEW i \in 1..Len(writes)
        PROVE  /\ Get(writes[i].of, c, writes[i].room) \in Asked(NodeOf[c])
               /\ Get(writes[i].of, c, writes[i].room).conn = c
               /\ Get(writes[i].of, c, writes[i].room).op = "get"
               /\ Get(writes[i].of, c, writes[i].room).of \in RoomWrites
    <2>1. writes[i] \in RoomWrite
      BY <1>1, ElementOfSeq
    <2>2. writes[i].of \in RoomWrites /\ writes[i].room \in Rooms
      BY <2>1 DEF RoomWrite, RoomWrites
    <2> QED
      BY <2>2, GetAsked DEF Get, RoomWrites
  <1>3. Gets(c, writes) = [i \in 1..Len(writes) |-> Get(writes[i].of, c, writes[i].room)]
    BY <1>1 DEF Gets
  <1>4. Gets(c, writes) \in Seq(Asked(NodeOf[c])) /\ Len(Gets(c, writes)) = Len(writes)
    BY <1>1, <1>2, <1>3, IsASeq, LenProperties
  <1> QED
    BY <1>2, <1>3, <1>4 DEF Elems

LEMMA NodeCommandAsked ==
  ASSUME NEW n \in Nodes, NEW op \in {"members", "wipe"}
  PROVE  NodeCommand(op) \in Asked(n)
  BY DEF NodeCommand, Asked, Command, RoomWrites

LEMMA WriteBackAsked ==
  ASSUME NEW n \in Nodes, NEW a \in Given(n), a.to.op = "get"
  PROVE  \/ WriteBack(a.to, a.found) = <<>>
         \/ /\ a.found # NoDescriptor /\ a.found \in SUBSET Rooms
            /\ \E m \in Asked(n) :
                 /\ WriteBack(a.to, a.found) = <<m>> /\ m.of = a.to.of /\ m.conn = a.to.conn
                 /\ m.room = a.to.room /\ m.rooms = a.found
                 /\ m.op = IF a.to.of \in RoomWrites THEN "put" ELSE "drop"
  <1> PICK to \in Asked(n), found \in {NoDescriptor} \cup SUBSET Rooms :
        a.to = to /\ a.found = found
    BY DEF Given
  <1> PICK op \in {"put", "drop"} : op = IF to.of \in RoomWrites THEN "put" ELSE "drop"
    OBVIOUS
  <1> PICK m : m = [to EXCEPT !.op = op, !.rooms = found]
    OBVIOUS
  <1>1. WriteBack(to, found) = <<>> \/ (found # NoDescriptor /\ WriteBack(to, found) = <<m>>)
    BY DEF WriteBack
  <1>2. ASSUME found # NoDescriptor
        PROVE  m \in Command /\ m.op = op /\ m.of = to.of /\ m.conn = to.conn /\ m.room = to.room
               /\ m.rooms = found
    BY <1>2 DEF Asked, Command
  <1>3. found # NoDescriptor => m \in Asked(n)
    BY <1>2 DEF Asked, RoomWrites
  <1> QED
    BY <1>1, <1>2, <1>3

\* A handler issues commands, and may have taken the first answer.
LEMMA Issued ==
  ASSUME TypeOK, Queues, NEW n \in Nodes, NEW cmds \in Seq(Asked(n)), Send(n, cmds),
         UNCHANGED answers \/ (answers[n] # <<>> /\ Handled(n))
  PROVE  /\ pipe' \in [Nodes -> Seq(Command)] /\ answers' \in [Nodes -> Seq(Answer)]
         /\ \A k \in Nodes : pipe'[k] \in Seq(Asked(k)) /\ answers'[k] \in Seq(Given(k))
         /\ \A k \in Nodes : \A m : m \in InFlight(k)' =>
              m \in InFlight(k) \/ (k = n /\ m \in Elems(cmds))
         /\ \A c \in Conns : SetPiped(c) => SetPiped(c)'
         /\ \A c \in Conns : SetPiped(c)' =>
              SetPiped(c) \/ (NodeOf[c] = n /\ Elems(cmds) \cap SetsOf(c) # {})
         /\ \A c \in Conns : SetAnswered(c)' => SetAnswered(c)
         /\ \A c \in Conns :
              Single(pipe[NodeOf[c]], SetsOf(c))
                /\ (Elems(cmds) \cap SetsOf(c) = {}
                      \/ (~ SetPiped(c) /\ Single(cmds, SetsOf(c))))
              => Single(pipe'[NodeOf[c]], SetsOf(c))
  <1>1. /\ pipe' \in [Nodes -> Seq(Command)]
        /\ \A k \in Nodes : pipe'[k] \in Seq(Asked(k)) /\ (k # n => pipe'[k] = pipe[k])
        /\ Elems(pipe'[n]) = Elems(pipe[n]) \cup Elems(cmds)
        /\ \A T : Single(pipe[n], T) /\ Elems(cmds) \cap T = {} => Single(pipe'[n], T)
        /\ \A T : Single(cmds, T) /\ Elems(pipe[n]) \cap T = {} => Single(pipe'[n], T)
    BY Sent
  <1>2. /\ answers' \in [Nodes -> Seq(Answer)]
        /\ \A k \in Nodes : answers'[k] \in Seq(Given(k))
        /\ \A k \in Nodes : Elems(answers'[k]) \subseteq Elems(answers[k])
    <2>1. CASE UNCHANGED answers
      BY <2>1 DEF TypeOK, Queues
    <2>2. CASE answers[n] # <<>> /\ Handled(n)
      <3>1. /\ answers' \in [Nodes -> Seq(Answer)]
            /\ \A k \in Nodes : answers'[k] \in Seq(Given(k)) /\ (k # n => answers'[k] = answers[k])
            /\ Elems(answers[n]) = {Head(answers[n])} \cup Elems(answers'[n])
        BY <2>2, FirstHandled
      <3> QED
        BY <3>1
    <2> QED
      BY <2>1, <2>2
  <1>3. \A k \in Nodes : \A m : m \in InFlight(k)' =>
          m \in InFlight(k) \/ (k = n /\ m \in Elems(cmds))
    BY <1>1, <1>2 DEF InFlight
  <1>4. \A c \in Conns : NodeOf[c] \in Nodes
    BY PresenceConstants
  <1>5. \A c \in Conns : SetPiped(c) => SetPiped(c)'
    BY <1>1, <1>4 DEF SetPiped
  <1>6. \A c \in Conns : SetPiped(c)' =>
          SetPiped(c) \/ (NodeOf[c] = n /\ Elems(cmds) \cap SetsOf(c) # {})
    BY <1>1, <1>4 DEF SetPiped
  <1>7. \A c \in Conns : SetAnswered(c)' => SetAnswered(c)
    BY <1>2, <1>4 DEF SetAnswered
  <1>8. ASSUME NEW c \in Conns, Single(pipe[NodeOf[c]], SetsOf(c)),
               \/ Elems(cmds) \cap SetsOf(c) = {}
               \/ ~ SetPiped(c) /\ Single(cmds, SetsOf(c))
        PROVE  Single(pipe'[NodeOf[c]], SetsOf(c))
    <2>1. CASE NodeOf[c] = n
      BY <1>1, <1>8, <2>1 DEF SetPiped
    <2>2. CASE NodeOf[c] # n
      BY <1>1, <1>4, <1>8, <2>2
    <2> QED
      BY <2>1, <2>2
  <1> QED
    BY <1>1, <1>2, <1>3, <1>5, <1>6, <1>7, <1>8

\* The same, when none of the commands is an announcement.
LEMMA IssuedNoSet ==
  ASSUME TypeOK, Queues, NEW n \in Nodes, NEW cmds \in Seq(Asked(n)), Send(n, cmds),
         UNCHANGED answers \/ (answers[n] # <<>> /\ Handled(n)),
         \A m \in Elems(cmds) : m.op # "set"
  PROVE  /\ pipe' \in [Nodes -> Seq(Command)] /\ answers' \in [Nodes -> Seq(Answer)]
         /\ \A k \in Nodes : pipe'[k] \in Seq(Asked(k)) /\ answers'[k] \in Seq(Given(k))
         /\ \A k \in Nodes : \A m : m \in InFlight(k)' =>
              m \in InFlight(k) \/ (k = n /\ m \in Elems(cmds))
         /\ \A c \in Conns : SetPiped(c)' <=> SetPiped(c)
         /\ \A c \in Conns : SetAnswered(c)' => SetAnswered(c)
         /\ \A c \in Conns :
              Single(pipe[NodeOf[c]], SetsOf(c)) => Single(pipe'[NodeOf[c]], SetsOf(c))
  <1>1. \A c \in Conns : Elems(cmds) \cap SetsOf(c) = {}
    BY DEF SetsOf
  <1>2. /\ pipe' \in [Nodes -> Seq(Command)] /\ answers' \in [Nodes -> Seq(Answer)]
        /\ \A k \in Nodes : pipe'[k] \in Seq(Asked(k)) /\ answers'[k] \in Seq(Given(k))
    BY Issued
  <1>3. \A k \in Nodes : \A m : m \in InFlight(k)' =>
          m \in InFlight(k) \/ (k = n /\ m \in Elems(cmds))
    BY Issued
  <1>4. \A c \in Conns : SetPiped(c)' <=> SetPiped(c)
    BY <1>1, Issued
  <1>5. \A c \in Conns : SetAnswered(c)' => SetAnswered(c)
    BY Issued
  <1>6. ASSUME NEW c \in Conns, Single(pipe[NodeOf[c]], SetsOf(c))
        PROVE  Single(pipe'[NodeOf[c]], SetsOf(c))
    BY <1>1, <1>6, Issued
  <1> QED
    BY <1>2, <1>3, <1>4, <1>5, <1>6

\* Redis executes the first command of a node, and may answer.
LEMMA Performed ==
  ASSUME TypeOK, Queues, NEW n \in Nodes, pipe[n] # <<>>, Executed(n), NEW found,
         \/ UNCHANGED answers
         \/ [to |-> Head(pipe[n]), found |-> found] \in Given(n) /\ Reply(n, found),
         NEW op, Head(pipe[n]).op = op
  PROVE  /\ pipe' \in [Nodes -> Seq(Command)] /\ answers' \in [Nodes -> Seq(Answer)]
         /\ \A k \in Nodes : pipe'[k] \in Seq(Asked(k)) /\ answers'[k] \in Seq(Given(k))
         /\ Head(pipe[n]) \in Asked(n) /\ Head(pipe[n]) \in InFlight(n)
         /\ \A k \in Nodes : \A m : m \in InFlight(k)' => m \in InFlight(k)
         /\ \A c \in Conns : SetPiped(c)' => SetPiped(c)
         /\ \A c \in Conns : SetPiped(c) => SetPiped(c)' \/ Head(pipe[n]) \in SetsOf(c)
         /\ \A c \in Conns :
              SetAnswered(c)' => SetAnswered(c) \/ Head(pipe[n]) \in SetsOf(c)
         /\ \A c \in Conns :
              Single(pipe[NodeOf[c]], SetsOf(c)) =>
                /\ Single(pipe'[NodeOf[c]], SetsOf(c))
                /\ Head(pipe[n]) \in SetsOf(c) => SetPiped(c) /\ ~ SetPiped(c)'
  <1> PICK m : m = Head(pipe[n])
    OBVIOUS
  <1>1. /\ pipe' \in [Nodes -> Seq(Command)] /\ m \in Asked(n)
        /\ \A k \in Nodes : pipe'[k] \in Seq(Asked(k)) /\ (k # n => pipe'[k] = pipe[k])
        /\ Elems(pipe[n]) = {m} \cup Elems(pipe'[n])
        /\ \A T : Single(pipe[n], T) => Single(pipe'[n], T)
        /\ \A T : Single(pipe[n], T) /\ m \in T => Elems(pipe'[n]) \cap T = {}
    BY FirstExecuted
  <1>2. /\ answers' \in [Nodes -> Seq(Answer)]
        /\ \A k \in Nodes : answers'[k] \in Seq(Given(k))
        /\ \A k \in Nodes : \A a \in Elems(answers'[k]) :
             a \in Elems(answers[k]) \/ (k = n /\ a.to = m)
    <2>1. CASE UNCHANGED answers
      BY <2>1 DEF TypeOK, Queues
    <2>2. CASE [to |-> Head(pipe[n]), found |-> found] \in Given(n) /\ Reply(n, found)
      <3>1. /\ answers' \in [Nodes -> Seq(Answer)]
            /\ \A k \in Nodes : answers'[k] \in Seq(Given(k)) /\ (k # n => answers'[k] = answers[k])
            /\ ~ Running(n) => answers' = answers
            /\ Running(n) => Elems(answers'[n]) = Elems(answers[n])
                                \cup {[to |-> Head(pipe[n]), found |-> found]}
        BY <2>2, Replied
      <3> QED
        BY <3>1
    <2> QED
      BY <2>1, <2>2
  <1>3. ASSUME NEW k \in Nodes, NEW x \in InFlight(k)'
        PROVE  x \in InFlight(k)
    <2>1. m \in InFlight(n)
      BY <1>1 DEF InFlight
    <2>2. CASE x \in Elems(pipe'[k])
      BY <2>2, <1>1 DEF InFlight
    <2>3. ASSUME NEW a \in Elems(answers'[k]), x = a.to
          PROVE  x \in InFlight(k)
      BY <2>1, <2>3, <1>2 DEF InFlight
    <2> QED
      BY <2>2, <2>3 DEF InFlight
  <1>9. m \in InFlight(n)
    BY <1>1 DEF InFlight
  <1>4. \A c \in Conns : NodeOf[c] \in Nodes /\ (m \in SetsOf(c) => NodeOf[c] = n)
    BY <1>1, PresenceConstants DEF SetsOf, Asked, Own
  <1>5. \A c \in Conns : SetPiped(c)' => SetPiped(c)
    BY <1>1, <1>4 DEF SetPiped
  <1>6. \A c \in Conns : SetPiped(c) => SetPiped(c)' \/ m \in SetsOf(c)
    BY <1>1, <1>4 DEF SetPiped
  <1>7. \A c \in Conns : SetAnswered(c)' => SetAnswered(c) \/ m \in SetsOf(c)
    BY <1>2, <1>4 DEF SetAnswered
  <1>8. ASSUME NEW c \in Conns, Single(pipe[NodeOf[c]], SetsOf(c))
        PROVE  /\ Single(pipe'[NodeOf[c]], SetsOf(c))
               /\ m \in SetsOf(c) => SetPiped(c) /\ ~ SetPiped(c)'
    <2>1. CASE NodeOf[c] = n
      BY <1>1, <1>8, <2>1 DEF SetPiped
    <2>2. CASE NodeOf[c] # n
      BY <1>1, <1>4, <1>8, <2>2
    <2> QED
      BY <2>1, <2>2
  <1> QED
    BY <1>1, <1>2, <1>3, <1>5, <1>6, <1>7, <1>8, <1>9

\* The same, when the command is not an announcement.
LEMMA PerformedNoSet ==
  ASSUME TypeOK, Queues, NEW n \in Nodes, pipe[n] # <<>>, Executed(n), NEW found,
         \/ UNCHANGED answers
         \/ [to |-> Head(pipe[n]), found |-> found] \in Given(n) /\ Reply(n, found),
         Head(pipe[n]).op # "set"
  PROVE  /\ pipe' \in [Nodes -> Seq(Command)] /\ answers' \in [Nodes -> Seq(Answer)]
         /\ \A k \in Nodes : pipe'[k] \in Seq(Asked(k)) /\ answers'[k] \in Seq(Given(k))
         /\ Head(pipe[n]) \in Asked(n) /\ Head(pipe[n]) \in InFlight(n)
         /\ \A k \in Nodes : \A m : m \in InFlight(k)' => m \in InFlight(k)
         /\ \A c \in Conns : SetPiped(c)' <=> SetPiped(c)
         /\ \A c \in Conns : SetAnswered(c)' => SetAnswered(c)
         /\ \A c \in Conns :
              Single(pipe[NodeOf[c]], SetsOf(c)) => Single(pipe'[NodeOf[c]], SetsOf(c))
  <1>1. \A c \in Conns : Head(pipe[n]) \notin SetsOf(c)
    BY DEF SetsOf
  <1> QED
    BY <1>1, Performed

\* A room write waits for the announcement, or is issued: it reads the descriptor first.
LEMMA WriteIssued ==
  ASSUME TypeOK, Queues, NEW c \in Conns, NEW w \in RoomWrite, AfterRegistered(c, <<w>>),
         UNCHANGED answers
  PROVE  /\ pipe' \in [Nodes -> Seq(Command)] /\ answers' \in [Nodes -> Seq(Answer)]
         /\ \A k \in Nodes : pipe'[k] \in Seq(Asked(k)) /\ answers'[k] \in Seq(Given(k))
         /\ \A k \in Nodes : \A m : m \in InFlight(k)' =>
              \/ m \in InFlight(k)
              \/ k = NodeOf[c] /\ registered[c] = "done" /\ m.conn = c /\ m.op = "get"
                   /\ m.of \in RoomWrites
         /\ \A d \in Conns : SetPiped(d)' <=> SetPiped(d)
         /\ \A d \in Conns : SetAnswered(d)' => SetAnswered(d)
         /\ \A d \in Conns :
              Single(pipe[NodeOf[d]], SetsOf(d)) => Single(pipe'[NodeOf[d]], SetsOf(d))
         /\ deferred' \in [Conns -> Seq(RoomWrite)]
         /\ registered[c] = "none" \/ \A d \in Conns : registered[d] = "none" => deferred'[d] = deferred[d]
  <1>1. NodeOf[c] \in Nodes /\ <<w>> \in Seq(RoomWrite)
    BY PresenceConstants
  <1>2. CASE registered[c] = "done"
    <2>1. PICK cmds \in Seq(Asked(NodeOf[c])) :
            /\ Send(NodeOf[c], cmds) /\ UNCHANGED deferred
            /\ \A m \in Elems(cmds) : m.conn = c /\ m.op = "get" /\ m.of \in RoomWrites
      BY <1>1, <1>2, GetsAsked DEF AfterRegistered
    <2>2. deferred' \in [Conns -> Seq(RoomWrite)]
      BY <2>1 DEF TypeOK
    <2>4. \A m \in Elems(cmds) : m.op # "set"
      BY <2>1
    <2>3. /\ pipe' \in [Nodes -> Seq(Command)] /\ answers' \in [Nodes -> Seq(Answer)]
          /\ \A k \in Nodes : pipe'[k] \in Seq(Asked(k)) /\ answers'[k] \in Seq(Given(k))
          /\ \A k \in Nodes : \A m : m \in InFlight(k)' =>
               m \in InFlight(k) \/ (k = NodeOf[c] /\ m \in Elems(cmds))
          /\ \A d \in Conns : SetPiped(d)' <=> SetPiped(d)
          /\ \A d \in Conns : SetAnswered(d)' => SetAnswered(d)
          /\ \A d \in Conns :
               Single(pipe[NodeOf[d]], SetsOf(d)) => Single(pipe'[NodeOf[d]], SetsOf(d))
      BY <1>1, <2>1, <2>4, IssuedNoSet
    <2> QED
      BY <1>2, <2>1, <2>2, <2>3
  <1>3. CASE registered[c] # "done"
    <2>1. deferred' = [deferred EXCEPT ![c] = @ \o <<w>>] /\ UNCHANGED pipe
      BY <1>3 DEF AfterRegistered
    <2>2. deferred[c] \o <<w>> \in Seq(RoomWrite)
      BY <1>1, ConcatProperties DEF TypeOK
    <2>3. /\ deferred' \in [Conns -> Seq(RoomWrite)]
          /\ registered[c] = "none"
               \/ \A d \in Conns : registered[d] = "none" => deferred'[d] = deferred[d]
      BY <2>1, <2>2 DEF TypeOK
    <2>4. /\ \A k \in Nodes : \A m : m \in InFlight(k)' => m \in InFlight(k)
          /\ \A d \in Conns : SetPiped(d)' <=> SetPiped(d)
          /\ \A d \in Conns : SetAnswered(d)' => SetAnswered(d)
      BY <2>1 DEF InFlight, SetPiped, SetAnswered
    <2>5. /\ pipe' \in [Nodes -> Seq(Command)] /\ answers' \in [Nodes -> Seq(Answer)]
          /\ \A k \in Nodes : pipe'[k] \in Seq(Asked(k)) /\ answers'[k] \in Seq(Given(k))
      BY <2>1 DEF TypeOK, Queues
    <2> QED
      BY <2>1, <2>3, <2>4, <2>5
  <1> QED
    BY <1>2, <1>3

\* A closing connection reads its descriptor to delete it, and (when it is registered) for
\* each of its rooms.
LEMMA CloseIssued ==
  ASSUME TypeOK, NEW c \in Conns, SocketClosed(c)
  PROVE  /\ \E cmds \in Seq(Asked(NodeOf[c])) :
              /\ Send(NodeOf[c], cmds)
              /\ \A m \in Elems(cmds) : /\ m.conn = c /\ m.op = "get" /\ m.of # "clearNode"
                                        /\ m.of = "del" \/ registered[c] = "done"
         /\ deferred' \in [Conns -> Seq(RoomWrite)]
         /\ \A d \in Conns : d # c => deferred'[d] = deferred[d]
         /\ registered[c] = "done" => deferred'[c] = deferred[c]
  <1> DEFINE removals == [i \in 1..Cardinality(rooms[c]) |->
                            [of |-> "removeRoom", room |-> SetToSeq(rooms[c])[i]]]
             del == <<Get("del", c, NoRoom)>>
  <1>1. PICK rs \in SUBSET Rooms : rs = rooms[c]
    BY DEF TypeOK
  <1>2. Cardinality(rs) \in Nat /\ SetToSeq(rs) \in [1..Cardinality(rs) -> rs]
    BY RoomsInSequence
  <1>3. PICK writes \in Seq(RoomWrite) : writes = removals
    <2>1. \A i \in 1..Cardinality(rs) :
            [of |-> "removeRoom", room |-> SetToSeq(rs)[i]] \in RoomWrite
      BY <1>2 DEF RoomWrite
    <2>2. [i \in 1..Cardinality(rs) |-> [of |-> "removeRoom", room |-> SetToSeq(rs)[i]]]
            \in Seq(RoomWrite)
      BY <1>2, <2>1, IsASeq
    <2> QED
      BY <1>1, <2>2
  <1>4. PICK d \in Asked(NodeOf[c]) : d = Get("del", c, NoRoom)
    BY GetAsked DEF RoomWrites
  <1>5. d.conn = c /\ d.op = "get" /\ d.of = "del"
    BY <1>4 DEF Get
  <1>51. <<d>> \in Seq(Asked(NodeOf[c])) /\ Elems(<<d>>) = {d}
    BY OneElem
  <1>6. /\ Gets(c, writes) \in Seq(Asked(NodeOf[c]))
        /\ \A m \in Elems(Gets(c, writes)) : m.conn = c /\ m.op = "get" /\ m.of \in RoomWrites
    BY GetsAsked
  <1>7. /\ <<d>> \o Gets(c, writes) \in Seq(Asked(NodeOf[c]))
        /\ Elems(<<d>> \o Gets(c, writes)) = Elems(Gets(c, writes)) \cup {d}
    <2>1. /\ <<d>> \o Gets(c, writes) \in Seq(Asked(NodeOf[c]))
          /\ Elems(<<d>> \o Gets(c, writes)) = Elems(<<d>>) \cup Elems(Gets(c, writes))
      <3> PICK p \in Seq(Asked(NodeOf[c])) : p = <<d>>
        BY <1>51
      <3> PICK q \in Seq(Asked(NodeOf[c])) : q = Gets(c, writes)
        BY <1>6
      <3>1. p \o q \in Seq(Asked(NodeOf[c])) /\ Elems(p \o q) = Elems(p) \cup Elems(q)
        BY ConcatElems, ZenonT(30)
      <3> QED
        BY <3>1
    <2> QED
      BY <1>51, <2>1
  <1>8. IF registered[c] = "done"
          THEN Send(NodeOf[c], <<d>> \o Gets(c, writes)) /\ UNCHANGED deferred
          ELSE Send(NodeOf[c], <<d>>) /\ deferred' = [deferred EXCEPT ![c] = @ \o writes]
    BY <1>3, <1>4 DEF SocketClosed
  <1> HIDE DEF removals, del
  <1>9. CASE registered[c] = "done"
    <2>1. deferred' \in [Conns -> Seq(RoomWrite)] /\ deferred' = deferred
      BY <1>8, <1>9 DEF TypeOK
    <2>2. Send(NodeOf[c], <<d>> \o Gets(c, writes))
      BY <1>8, <1>9
    <2>3. \A m \in Elems(<<d>> \o Gets(c, writes)) :
            m.conn = c /\ m.op = "get" /\ m.of # "clearNode"
      BY <1>5, <1>6, <1>7 DEF RoomWrites
    <2> QED
      BY <1>7, <1>9, <2>1, <2>2, <2>3
  <1>10. CASE registered[c] # "done"
    <2>1. deferred[c] \o writes \in Seq(RoomWrite)
      BY ConcatProperties DEF TypeOK
    <2>2. deferred' \in [Conns -> Seq(RoomWrite)] /\ \A k \in Conns : k # c => deferred'[k] = deferred[k]
      BY <1>8, <1>10, <2>1 DEF TypeOK
    <2> QED
      BY <1>5, <1>51, <1>8, <1>10, <2>2
  <1> QED
    BY <1>9, <1>10
-----------------------------------------------------------------------------
(* Each step keeps what the directory shows.                               *)

LEMMA DirAccept ==
  ASSUME DirInv, NEW c \in Conns, NEW rs \in SUBSET Rooms, Accept(c, rs)
  PROVE  DirInv'
  <1> USE PresenceConstants DEF DirInv
  <1>0. /\ node \in [Nodes -> {"up", "closing", "down"}]
        /\ registered \in [Conns -> {"none", "joining", "setting", "done"}]
        /\ deferred \in [Conns -> Seq(RoomWrite)] /\ open \subseteq Conns
    BY DEF TypeOK
  <1>1. /\ \A k \in Nodes : InFlight(k)' = InFlight(k)
        /\ \A d \in Conns : SetPiped(d)' = SetPiped(d) /\ SetAnswered(d)' = SetAnswered(d)
    BY DEF Accept, InFlight, SetPiped, SetAnswered
  <1>9. moves' \in [Conns -> Nat] /\ \A d \in Conns : moves'[d] <= MaxMoves[d]
    BY RoomsInSequence DEF Accept, TypeOK
  <1>21. TypeOK'
    BY <1>0, <1>1, <1>9 DEF Accept, redis, TypeOK
  <1>22. Queues'
    BY <1>0, <1>1, <1>9 DEF Accept, redis, Queues
  <1>23. UpIsNotCleared'
    BY <1>0, <1>1, <1>9 DEF Accept, redis, UpIsNotCleared
  <1>24. OpenIsAccepted'
    <2> SUFFICES ASSUME NEW d \in Conns
                 PROVE  /\ d \in open' => Running(NodeOf[d])' /\ registered'[d] # "none"
                        /\ d \in open' /\ registered'[d] # "joining" => d \in reachable'
                        /\ registered'[d] = "none" => deferred'[d] = <<>>
      BY DEF OpenIsAccepted
    <2>1. NodeOf[d] \in Nodes
      OBVIOUS
    <2> QED
      BY <1>0, <2>1, <1>1, <1>9 DEF Accept, redis, OpenIsAccepted, Running
  <1>25. OpenIsNotDeleted'
    BY <1>0, <1>1, <1>9 DEF Accept, redis, OpenIsNotDeleted, Running
  <1>26. Unannounced'
    BY <1>0, <1>1, <1>9 DEF Accept, redis, Unannounced, Running
  <1>27. SetOnce'
    BY <1>0, <1>1, <1>9 DEF Accept, redis, SetOnce, Running
  <1>28. Kept'
    <2> SUFFICES ASSUME NEW d \in open', Announced(d)', node'[NodeOf[d]] = "up"
                 PROVE  /\ d \in index' /\ descriptor'[d] # NoDescriptor
                        /\ NodeOf[d] \in Beating => NodeOf[d] \in alive'
      BY DEF Kept
    <2>1. d \in Conns /\ NodeOf[d] \in Nodes
      BY <1>21 DEF TypeOK
    <2> QED
      BY <1>0, <2>1, <1>1, <1>9 DEF Accept, redis, Kept, Announced
  <1> QED
    BY <1>21, <1>22, <1>23, <1>24, <1>25, <1>26, <1>27, <1>28

LEMMA DirReachable ==
  ASSUME DirInv, NEW c \in Conns, Reachable(c)
  PROVE  DirInv'
  <1> USE PresenceConstants DEF DirInv
  <1>0. /\ node \in [Nodes -> {"up", "closing", "down"}]
        /\ registered \in [Conns -> {"none", "joining", "setting", "done"}]
        /\ deferred \in [Conns -> Seq(RoomWrite)] /\ open \subseteq Conns
    BY DEF TypeOK
  <1>1. PICK m \in Asked(NodeOf[c]) :
          /\ m = [op |-> "set", of |-> "set", conn |-> c, room |-> NoRoom, rooms |-> snapshot[c]]
          /\ Send(NodeOf[c], <<m>>)
    BY DEF Reachable, Announce, Asked, Command, Own, RoomWrites, TypeOK
  <1>2. NodeOf[c] \in Nodes /\ <<m>> \in Seq(Asked(NodeOf[c])) /\ UNCHANGED answers
    BY DEF Reachable
  <1>3. \A x : x \in Elems(<<m>>) <=> x = m
    BY OneElem
  <1>4. /\ m.op = "set" /\ m.of = "set" /\ m.conn = c /\ m \in SetsOf(c)
        /\ \A d \in Conns : d # c => Elems(<<m>>) \cap SetsOf(d) = {}
    BY <1>1, <1>3 DEF SetsOf, Asked
  <1>5. ~ SetPiped(c) /\ ~ SetAnswered(c)
    BY DEF Reachable, Unannounced, SetPiped, SetAnswered, InFlight, SetsOf
  <1>10.
        /\ pipe' \in [Nodes -> Seq(Command)] /\ answers' \in [Nodes -> Seq(Answer)]
        /\ \A k \in Nodes : pipe'[k] \in Seq(Asked(k)) /\ answers'[k] \in Seq(Given(k))
        /\ \A k \in Nodes : \A x : x \in InFlight(k)' =>
             x \in InFlight(k) \/ (k = NodeOf[c] /\ x \in Elems(<<m>>))
        /\ \A d \in Conns : SetPiped(d) => SetPiped(d)'
        /\ \A d \in Conns : SetPiped(d)' =>
             SetPiped(d) \/ (NodeOf[d] = NodeOf[c] /\ Elems(<<m>>) \cap SetsOf(d) # {})
        /\ \A d \in Conns : SetAnswered(d)' => SetAnswered(d)
        /\ \A d \in Conns :
             Single(pipe[NodeOf[d]], SetsOf(d))
               /\ (Elems(<<m>>) \cap SetsOf(d) = {}
                     \/ (~ SetPiped(d) /\ Single(<<m>>, SetsOf(d))))
             => Single(pipe'[NodeOf[d]], SetsOf(d))
    BY <1>1, <1>2, Issued
  <1>6. /\ pipe' \in [Nodes -> Seq(Command)] /\ answers' \in [Nodes -> Seq(Answer)]
        /\ \A k \in Nodes : pipe'[k] \in Seq(Asked(k)) /\ answers'[k] \in Seq(Given(k))
        /\ \A k \in Nodes : \A x : x \in InFlight(k)' => x \in InFlight(k) \/ x = m
        /\ \A d \in Conns : d # c => (SetPiped(d)' <=> SetPiped(d))
        /\ \A d \in Conns : SetAnswered(d)' => SetAnswered(d)
    <2>1. \A k \in Nodes : \A x : x \in InFlight(k)' => x \in InFlight(k) \/ x = m
      BY <1>10, <1>3
    <2>2. \A d \in Conns : d # c => (SetPiped(d)' <=> SetPiped(d))
      BY <1>10, <1>4
    <2> QED
      BY <2>1, <2>2, <1>10
  <1>7. ASSUME NEW d \in Conns, Single(pipe[NodeOf[d]], SetsOf(d))
        PROVE  Single(pipe'[NodeOf[d]], SetsOf(d))
    <2>1. CASE d = c
      <3>1. Single(<<m>>, SetsOf(c))
        BY OneSingle
      <3> QED
        BY <2>1, <3>1, <1>5, <1>7, <1>10
    <2>2. CASE d # c
      BY <2>2, <1>4, <1>7, <1>10
    <2> QED
      BY <2>1, <2>2
  <1>8. SetPiped(c)'
    <2>1. Elems(pipe'[NodeOf[c]]) = Elems(pipe[NodeOf[c]]) \cup {m}
      BY <1>1, <1>2, SentOne
    <2> QED
      BY <2>1, <1>4 DEF SetPiped
  <1>21. TypeOK'
    BY <1>0, <1>2, <1>4, <1>5, <1>6, <1>7, <1>8 DEF Reachable, redis, TypeOK
  <1>22. Queues'
    BY <1>0, <1>2, <1>4, <1>5, <1>6, <1>7, <1>8 DEF Reachable, redis, Queues
  <1>23. UpIsNotCleared'
    BY <1>0, <1>2, <1>4, <1>5, <1>6, <1>7, <1>8 DEF Reachable, redis, UpIsNotCleared
  <1>24. OpenIsAccepted'
    BY <1>0, <1>2, <1>4, <1>5, <1>6, <1>7, <1>8 DEF Reachable, redis, OpenIsAccepted, Running
  <1>25. OpenIsNotDeleted'
    BY <1>0, <1>2, <1>4, <1>5, <1>6, <1>7, <1>8 DEF Reachable, redis, OpenIsNotDeleted, Running
  <1>26. Unannounced'
    <2> SUFFICES ASSUME NEW d \in Conns, Running(NodeOf[d])', registered'[d] \in {"none", "joining"}
                 PROVE  /\ d \notin index'
                        /\ \A x \in InFlight(NodeOf[d])' : x.conn = d => x.op # "set"
      BY DEF Unannounced
    <2>1. NodeOf[d] \in Nodes
      OBVIOUS
    <2> QED
      BY <1>0, <2>1, <1>2, <1>4, <1>5, <1>6, <1>7, <1>8 DEF Reachable, redis, Unannounced, Running
  <1>27. SetOnce'
    BY <1>0, <1>2, <1>4, <1>5, <1>6, <1>7, <1>8 DEF Reachable, redis, SetOnce, Running
  <1>28. Kept'
    <2> SUFFICES ASSUME NEW d \in open', Announced(d)', node'[NodeOf[d]] = "up"
                 PROVE  /\ d \in index' /\ descriptor'[d] # NoDescriptor
                        /\ NodeOf[d] \in Beating => NodeOf[d] \in alive'
      BY DEF Kept
    <2>1. d \in Conns /\ NodeOf[d] \in Nodes
      BY <1>21 DEF TypeOK
    <2> QED
      BY <1>0, <2>1, <1>2, <1>4, <1>5, <1>6, <1>7, <1>8 DEF Reachable, redis, Kept, Announced
  <1> QED
    BY <1>21, <1>22, <1>23, <1>24, <1>25, <1>26, <1>27, <1>28

LEMMA DirJoinRoom ==
  ASSUME DirInv, NEW c \in Conns, NEW r \in Rooms, JoinRoom(c, r)
  PROVE  DirInv'
  <1> USE PresenceConstants DEF DirInv
  <1>0. /\ node \in [Nodes -> {"up", "closing", "down"}]
        /\ registered \in [Conns -> {"none", "joining", "setting", "done"}]
        /\ deferred \in [Conns -> Seq(RoomWrite)] /\ open \subseteq Conns
    BY DEF TypeOK
  <1>1. PICK w \in RoomWrite :
          /\ w = [of |-> "addRoom", room |-> r]
          /\ AfterRegistered(c, <<w>>)
    BY DEF JoinRoom, RoomWrite
  <1>2. /\ pipe' \in [Nodes -> Seq(Command)] /\ answers' \in [Nodes -> Seq(Answer)]
        /\ \A k \in Nodes : pipe'[k] \in Seq(Asked(k)) /\ answers'[k] \in Seq(Given(k))
        /\ \A k \in Nodes : \A m : m \in InFlight(k)' =>
             \/ m \in InFlight(k)
             \/ k = NodeOf[c] /\ registered[c] = "done" /\ m.conn = c /\ m.op = "get"
                  /\ m.of \in RoomWrites
        /\ \A d \in Conns : SetPiped(d)' <=> SetPiped(d)
        /\ \A d \in Conns : SetAnswered(d)' => SetAnswered(d)
        /\ \A d \in Conns :
             Single(pipe[NodeOf[d]], SetsOf(d)) => Single(pipe'[NodeOf[d]], SetsOf(d))
        /\ deferred' \in [Conns -> Seq(RoomWrite)]
        /\ \A d \in Conns : registered[d] = "none" => deferred'[d] = deferred[d]
    BY <1>1, WriteIssued DEF JoinRoom
  <1>9. moves' \in [Conns -> Nat] /\ \A d \in Conns : moves'[d] <= MaxMoves[d]
    <2>1. moves \in [Conns -> Nat] /\ \A d \in Conns : moves[d] <= MaxMoves[d]
      BY DEF TypeOK
    <2>2. MaxMoves[c] \in Nat /\ moves[c] \in Nat /\ moves[c] < MaxMoves[c]
      BY <2>1 DEF JoinRoom
    <2>3. PICK k \in Nat : k <= MaxMoves[c] /\ moves' = [moves EXCEPT ![c] = k]
      <3>1. CASE c \in open
        <4>1. moves' = [moves EXCEPT ![c] = moves[c] + 1]
          BY <3>1 DEF JoinRoom
        <4>2. moves[c] + 1 \in Nat /\ moves[c] + 1 <= MaxMoves[c]
          BY <2>2
        <4> QED
          BY <4>1, <4>2
      <3>2. CASE c \notin open
        <4>1. moves' = [moves EXCEPT ![c] = MaxMoves[c]]
          BY <3>2 DEF JoinRoom
        <4>2. MaxMoves[c] \in Nat /\ MaxMoves[c] <= MaxMoves[c]
          BY <2>2
        <4> QED
          BY <4>1, <4>2
      <3> QED
        BY <3>1, <3>2
    <2> QED
      BY <2>1, <2>3
  <1>21. TypeOK'
    BY <1>0, <1>2, <1>9 DEF JoinRoom, redis, RoomWrites, TypeOK
  <1>22. Queues'
    BY <1>0, <1>2, <1>9 DEF JoinRoom, redis, RoomWrites, Queues
  <1>23. UpIsNotCleared'
    BY <1>0, <1>2, <1>9 DEF JoinRoom, redis, RoomWrites, UpIsNotCleared
  <1>24. OpenIsAccepted'
    BY <1>0, <1>2, <1>9 DEF JoinRoom, redis, RoomWrites, OpenIsAccepted, Running
  <1>25. OpenIsNotDeleted'
    <2> SUFFICES ASSUME NEW d \in Conns, Running(NodeOf[d])', d \in open' \/ registered'[d] = "none",
                        NEW x \in InFlight(NodeOf[d])', x.conn = d
                 PROVE  x.of # "del"
      BY DEF OpenIsNotDeleted
    <2>1. NodeOf[d] \in Nodes /\ Running(NodeOf[d]) /\ (d \in open \/ registered[d] = "none")
      BY DEF JoinRoom, Running
    <2>2. x \in InFlight(NodeOf[d]) => x.of # "del"
      BY <2>1 DEF OpenIsNotDeleted
    <2>3. x \in InFlight(NodeOf[d]) \/ x.of \in RoomWrites
      BY <1>2, <2>1
    <2> QED
      BY <2>2, <2>3 DEF RoomWrites
  <1>26. Unannounced'
    BY <1>0, <1>2, <1>9 DEF JoinRoom, redis, RoomWrites, Unannounced, Running
  <1>27. SetOnce'
    BY <1>0, <1>2, <1>9 DEF JoinRoom, redis, RoomWrites, SetOnce, Running
  <1>28. Kept'
    <2> SUFFICES ASSUME NEW d \in open', Announced(d)', node'[NodeOf[d]] = "up"
                 PROVE  /\ d \in index' /\ descriptor'[d] # NoDescriptor
                        /\ NodeOf[d] \in Beating => NodeOf[d] \in alive'
      BY DEF Kept
    <2>1. d \in Conns /\ NodeOf[d] \in Nodes
      BY <1>21 DEF TypeOK
    <2> QED
      BY <1>0, <2>1, <1>2, <1>9 DEF JoinRoom, redis, RoomWrites, Kept, Announced
  <1> QED
    BY <1>21, <1>22, <1>23, <1>24, <1>25, <1>26, <1>27, <1>28

LEMMA DirLeaveRoom ==
  ASSUME DirInv, NEW c \in Conns, NEW r \in Rooms, LeaveRoom(c, r)
  PROVE  DirInv'
  <1> USE PresenceConstants DEF DirInv
  <1>0. /\ node \in [Nodes -> {"up", "closing", "down"}]
        /\ registered \in [Conns -> {"none", "joining", "setting", "done"}]
        /\ deferred \in [Conns -> Seq(RoomWrite)] /\ open \subseteq Conns
    BY DEF TypeOK
  <1>1. PICK w \in RoomWrite :
          /\ w = [of |-> "removeRoom", room |-> r]
          /\ AfterRegistered(c, <<w>>)
    BY DEF LeaveRoom, RoomWrite
  <1>2. /\ pipe' \in [Nodes -> Seq(Command)] /\ answers' \in [Nodes -> Seq(Answer)]
        /\ \A k \in Nodes : pipe'[k] \in Seq(Asked(k)) /\ answers'[k] \in Seq(Given(k))
        /\ \A k \in Nodes : \A m : m \in InFlight(k)' =>
             \/ m \in InFlight(k)
             \/ k = NodeOf[c] /\ registered[c] = "done" /\ m.conn = c /\ m.op = "get"
                  /\ m.of \in RoomWrites
        /\ \A d \in Conns : SetPiped(d)' <=> SetPiped(d)
        /\ \A d \in Conns : SetAnswered(d)' => SetAnswered(d)
        /\ \A d \in Conns :
             Single(pipe[NodeOf[d]], SetsOf(d)) => Single(pipe'[NodeOf[d]], SetsOf(d))
        /\ deferred' \in [Conns -> Seq(RoomWrite)]
        /\ \A d \in Conns : registered[d] = "none" => deferred'[d] = deferred[d]
    BY <1>1, WriteIssued DEF LeaveRoom
  <1>9. moves' \in [Conns -> Nat] /\ \A d \in Conns : moves'[d] <= MaxMoves[d]
    <2>1. moves \in [Conns -> Nat] /\ \A d \in Conns : moves[d] <= MaxMoves[d]
      BY DEF TypeOK
    <2>2. MaxMoves[c] \in Nat /\ moves[c] \in Nat /\ moves[c] < MaxMoves[c]
      BY <2>1 DEF LeaveRoom
    <2>3. PICK k \in Nat : k <= MaxMoves[c] /\ moves' = [moves EXCEPT ![c] = k]
      <3>1. CASE c \in open
        <4>1. moves' = [moves EXCEPT ![c] = moves[c] + 1]
          BY <3>1 DEF LeaveRoom
        <4>2. moves[c] + 1 \in Nat /\ moves[c] + 1 <= MaxMoves[c]
          BY <2>2
        <4> QED
          BY <4>1, <4>2
      <3>2. CASE c \notin open
        <4>1. moves' = [moves EXCEPT ![c] = MaxMoves[c]]
          BY <3>2 DEF LeaveRoom
        <4>2. MaxMoves[c] \in Nat /\ MaxMoves[c] <= MaxMoves[c]
          BY <2>2
        <4> QED
          BY <4>1, <4>2
      <3> QED
        BY <3>1, <3>2
    <2> QED
      BY <2>1, <2>3
  <1>21. TypeOK'
    BY <1>0, <1>2, <1>9 DEF LeaveRoom, redis, RoomWrites, TypeOK
  <1>22. Queues'
    BY <1>0, <1>2, <1>9 DEF LeaveRoom, redis, RoomWrites, Queues
  <1>23. UpIsNotCleared'
    BY <1>0, <1>2, <1>9 DEF LeaveRoom, redis, RoomWrites, UpIsNotCleared
  <1>24. OpenIsAccepted'
    BY <1>0, <1>2, <1>9 DEF LeaveRoom, redis, RoomWrites, OpenIsAccepted, Running
  <1>25. OpenIsNotDeleted'
    <2> SUFFICES ASSUME NEW d \in Conns, Running(NodeOf[d])', d \in open' \/ registered'[d] = "none",
                        NEW x \in InFlight(NodeOf[d])', x.conn = d
                 PROVE  x.of # "del"
      BY DEF OpenIsNotDeleted
    <2>1. NodeOf[d] \in Nodes /\ Running(NodeOf[d]) /\ (d \in open \/ registered[d] = "none")
      BY DEF LeaveRoom, Running
    <2>2. x \in InFlight(NodeOf[d]) => x.of # "del"
      BY <2>1 DEF OpenIsNotDeleted
    <2>3. x \in InFlight(NodeOf[d]) \/ x.of \in RoomWrites
      BY <1>2, <2>1
    <2> QED
      BY <2>2, <2>3 DEF RoomWrites
  <1>26. Unannounced'
    BY <1>0, <1>2, <1>9 DEF LeaveRoom, redis, RoomWrites, Unannounced, Running
  <1>27. SetOnce'
    BY <1>0, <1>2, <1>9 DEF LeaveRoom, redis, RoomWrites, SetOnce, Running
  <1>28. Kept'
    <2> SUFFICES ASSUME NEW d \in open', Announced(d)', node'[NodeOf[d]] = "up"
                 PROVE  /\ d \in index' /\ descriptor'[d] # NoDescriptor
                        /\ NodeOf[d] \in Beating => NodeOf[d] \in alive'
      BY DEF Kept
    <2>1. d \in Conns /\ NodeOf[d] \in Nodes
      BY <1>21 DEF TypeOK
    <2> QED
      BY <1>0, <2>1, <1>2, <1>9 DEF LeaveRoom, redis, RoomWrites, Kept, Announced
  <1> QED
    BY <1>21, <1>22, <1>23, <1>24, <1>25, <1>26, <1>27, <1>28

LEMMA DirSocketClosed ==
  ASSUME DirInv, NEW c \in Conns, SocketClosed(c)
  PROVE  DirInv'
  <1> USE PresenceConstants DEF DirInv
  <1>0. /\ node \in [Nodes -> {"up", "closing", "down"}]
        /\ registered \in [Conns -> {"none", "joining", "setting", "done"}]
        /\ deferred \in [Conns -> Seq(RoomWrite)] /\ open \subseteq Conns
    BY DEF TypeOK
  <1>1. PICK cmds \in Seq(Asked(NodeOf[c])) :
          /\ Send(NodeOf[c], cmds)
          /\ \A m \in Elems(cmds) : /\ m.conn = c /\ m.op = "get" /\ m.of # "clearNode"
                                    /\ m.of = "del" \/ registered[c] = "done"
    BY CloseIssued
  <1>2. NodeOf[c] \in Nodes /\ UNCHANGED answers /\ \A m \in Elems(cmds) : m.op # "set"
    BY <1>1 DEF SocketClosed
  <1>3. /\ pipe' \in [Nodes -> Seq(Command)] /\ answers' \in [Nodes -> Seq(Answer)]
        /\ \A k \in Nodes : pipe'[k] \in Seq(Asked(k)) /\ answers'[k] \in Seq(Given(k))
        /\ \A k \in Nodes : \A m : m \in InFlight(k)' =>
             m \in InFlight(k) \/ (k = NodeOf[c] /\ m \in Elems(cmds))
        /\ \A d \in Conns : SetPiped(d)' <=> SetPiped(d)
        /\ \A d \in Conns : SetAnswered(d)' => SetAnswered(d)
        /\ \A d \in Conns :
             Single(pipe[NodeOf[d]], SetsOf(d)) => Single(pipe'[NodeOf[d]], SetsOf(d))
    BY <1>1, <1>2, IssuedNoSet
  <1>4. deferred' \in [Conns -> Seq(RoomWrite)] /\ \A d \in Conns : d # c => deferred'[d] = deferred[d]
    BY CloseIssued
  <1>21. TypeOK'
    BY <1>0, <1>1, <1>2, <1>3, <1>4 DEF SocketClosed, redis, TypeOK
  <1>22. Queues'
    BY <1>0, <1>1, <1>2, <1>3, <1>4 DEF SocketClosed, redis, Queues
  <1>23. UpIsNotCleared'
    BY <1>0, <1>1, <1>2, <1>3, <1>4 DEF SocketClosed, redis, UpIsNotCleared
  <1>24. OpenIsAccepted'
    BY <1>0, <1>1, <1>2, <1>3, <1>4 DEF SocketClosed, redis, OpenIsAccepted, Running
  <1>25. OpenIsNotDeleted'
    <2> SUFFICES ASSUME NEW d \in Conns, Running(NodeOf[d])', d \in open' \/ registered'[d] = "none",
                        NEW x \in InFlight(NodeOf[d])', x.conn = d
                 PROVE  x.of # "del"
      BY DEF OpenIsNotDeleted
    <2>1. NodeOf[d] \in Nodes
      OBVIOUS
    <2> QED
      BY <1>0, <2>1, <1>1, <1>2, <1>3, <1>4 DEF SocketClosed, redis, OpenIsAccepted, OpenIsNotDeleted, Running
  <1>26. Unannounced'
    BY <1>0, <1>1, <1>2, <1>3, <1>4 DEF SocketClosed, redis, Unannounced, Running
  <1>27. SetOnce'
    BY <1>0, <1>1, <1>2, <1>3, <1>4 DEF SocketClosed, redis, SetOnce, Running
  <1>28. Kept'
    <2> SUFFICES ASSUME NEW d \in open', Announced(d)', node'[NodeOf[d]] = "up"
                 PROVE  /\ d \in index' /\ descriptor'[d] # NoDescriptor
                        /\ NodeOf[d] \in Beating => NodeOf[d] \in alive'
      BY DEF Kept
    <2>1. d \in Conns /\ NodeOf[d] \in Nodes
      BY <1>21 DEF TypeOK
    <2> QED
      BY <1>0, <2>1, <1>1, <1>2, <1>3, <1>4 DEF SocketClosed, redis, Kept, Announced
  <1> QED
    BY <1>21, <1>22, <1>23, <1>24, <1>25, <1>26, <1>27, <1>28

LEMMA DirClose ==
  ASSUME DirInv, NEW n \in Nodes, Close(n)
  PROVE  DirInv'
  <1> USE PresenceConstants DEF DirInv
  <1>0. /\ node \in [Nodes -> {"up", "closing", "down"}]
        /\ registered \in [Conns -> {"none", "joining", "setting", "done"}]
        /\ deferred \in [Conns -> Seq(RoomWrite)] /\ open \subseteq Conns
    BY DEF TypeOK
  <1>1. PICK m \in Asked(n) : Send(n, <<m>>) /\ m.op = "members" /\ m.of = "clearNode" /\ m.conn = NoConn
    BY NodeCommandAsked DEF Close, NodeCommand
  <1>2. <<m>> \in Seq(Asked(n)) /\ UNCHANGED answers /\ \A x : x \in Elems(<<m>>) <=> x = m
    BY OneElem DEF Close
  <1>3. /\ pipe' \in [Nodes -> Seq(Command)] /\ answers' \in [Nodes -> Seq(Answer)]
        /\ \A k \in Nodes : pipe'[k] \in Seq(Asked(k)) /\ answers'[k] \in Seq(Given(k))
        /\ \A k \in Nodes : \A x : x \in InFlight(k)' =>
             x \in InFlight(k) \/ (k = n /\ x \in Elems(<<m>>))
        /\ \A d \in Conns : SetPiped(d)' <=> SetPiped(d)
        /\ \A d \in Conns : SetAnswered(d)' => SetAnswered(d)
        /\ \A d \in Conns :
             Single(pipe[NodeOf[d]], SetsOf(d)) => Single(pipe'[NodeOf[d]], SetsOf(d))
    BY <1>1, <1>2, IssuedNoSet
  <1>4. \A k \in Nodes : \A x \in InFlight(k)' : x \in InFlight(k) \/ (k = n /\ x.of = "clearNode" /\ x.op = "members")
    BY <1>1, <1>2, <1>3
  <1>21. TypeOK'
    BY <1>0, <1>3, <1>4 DEF Close, redis, TypeOK
  <1>22. Queues'
    BY <1>0, <1>3, <1>4 DEF Close, redis, Queues
  <1>23. UpIsNotCleared'
    <2> SUFFICES ASSUME NEW k \in Nodes, node'[k] = "up", NEW x \in InFlight(k)'
                 PROVE  x.of # "clearNode"
      BY DEF UpIsNotCleared
    <2> QED
      BY <1>0, <1>3, <1>4 DEF Close, redis, UpIsNotCleared
  <1>24. OpenIsAccepted'
    BY <1>0, <1>3, <1>4 DEF Close, redis, OpenIsAccepted, Running
  <1>25. OpenIsNotDeleted'
    <2> SUFFICES ASSUME NEW d \in Conns, Running(NodeOf[d])', d \in open' \/ registered'[d] = "none",
                        NEW x \in InFlight(NodeOf[d])', x.conn = d
                 PROVE  x.of # "del"
      BY DEF OpenIsNotDeleted
    <2>1. NodeOf[d] \in Nodes
      OBVIOUS
    <2> QED
      BY <1>0, <2>1, <1>3, <1>4 DEF Close, redis, OpenIsNotDeleted, Running
  <1>26. Unannounced'
    <2> SUFFICES ASSUME NEW d \in Conns, Running(NodeOf[d])', registered'[d] \in {"none", "joining"}
                 PROVE  /\ d \notin index'
                        /\ \A x \in InFlight(NodeOf[d])' : x.conn = d => x.op # "set"
      BY DEF Unannounced
    <2>1. NodeOf[d] \in Nodes
      OBVIOUS
    <2> QED
      BY <1>0, <2>1, <1>3, <1>4 DEF Close, redis, Unannounced, Running
  <1>27. SetOnce'
    BY <1>0, <1>3, <1>4 DEF Close, redis, SetOnce, Running
  <1>28. Kept'
    <2> SUFFICES ASSUME NEW d \in open', Announced(d)', node'[NodeOf[d]] = "up"
                 PROVE  /\ d \in index' /\ descriptor'[d] # NoDescriptor
                        /\ NodeOf[d] \in Beating => NodeOf[d] \in alive'
      BY DEF Kept
    <2>1. d \in Conns /\ NodeOf[d] \in Nodes
      BY <1>21 DEF TypeOK
    <2> QED
      BY <1>0, <2>1, <1>3, <1>4 DEF Close, redis, Kept, Announced
  <1> QED
    BY <1>21, <1>22, <1>23, <1>24, <1>25, <1>26, <1>27, <1>28

LEMMA DirDown ==
  ASSUME DirInv, NEW n \in Nodes, Down(n), UNCHANGED redis,
         pipe' = [pipe EXCEPT ![n] = <<>>] \/ UNCHANGED pipe
  PROVE  DirInv'
  <1> USE PresenceConstants DEF DirInv
  <1>0. /\ node \in [Nodes -> {"up", "closing", "down"}]
        /\ registered \in [Conns -> {"none", "joining", "setting", "done"}]
        /\ deferred \in [Conns -> Seq(RoomWrite)] /\ open \subseteq Conns
    BY DEF TypeOK
  <1>1. /\ \A k \in Nodes : pipe'[k] = pipe[k] \/ (k = n /\ pipe'[k] = <<>>)
        /\ \A k \in Nodes : answers'[k] = IF k = n THEN <<>> ELSE answers[k]
        /\ pipe' \in [Nodes -> Seq(Command)] /\ answers' \in [Nodes -> Seq(Answer)]
    <2>1. <<>> \in Seq(Command) /\ <<>> \in Seq(Answer)
      OBVIOUS
    <2>2. pipe \in [Nodes -> Seq(Command)] /\ answers \in [Nodes -> Seq(Answer)]
      BY DEF TypeOK
    <2>3. /\ answers' \in [Nodes -> Seq(Answer)]
          /\ \A k \in Nodes : answers'[k] = IF k = n THEN <<>> ELSE answers[k]
      BY <2>1, <2>2 DEF Down
    <2>4. CASE pipe' = [pipe EXCEPT ![n] = <<>>]
      BY <2>1, <2>2, <2>3, <2>4
    <2>5. CASE UNCHANGED pipe
      BY <2>2, <2>3, <2>5
    <2> QED
      BY <2>4, <2>5
  <1>2. /\ Elems(<<>>) = {} /\ \A T : Single(<<>>, T)
    BY DEF Elems, Single
  <1>3. \A k \in Nodes : pipe'[k] \in Seq(Asked(k)) /\ answers'[k] \in Seq(Given(k))
    <2>1. \A k \in Nodes : pipe[k] \in Seq(Asked(k)) /\ answers[k] \in Seq(Given(k))
      BY DEF Queues
    <2>2. \A k \in Nodes : <<>> \in Seq(Asked(k)) /\ <<>> \in Seq(Given(k))
      OBVIOUS
    <2> QED
      BY <1>1, <2>1, <2>2
  <1>4. \A k \in Nodes : \A x : x \in InFlight(k)' => x \in InFlight(k)
    BY <1>1, <1>2 DEF InFlight
  <1>5. \A d \in Conns : NodeOf[d] \in Nodes
    OBVIOUS
  <1>6. \A d \in Conns : (SetPiped(d)' => SetPiped(d)) /\ (NodeOf[d] # n => (SetPiped(d)' <=> SetPiped(d)))
    BY <1>1, <1>2, <1>5 DEF SetPiped
  <1>7. \A d \in Conns : SetAnswered(d)' => SetAnswered(d)
    BY <1>1, <1>2, <1>5 DEF SetAnswered
  <1>8. \A d \in Conns :
          Single(pipe[NodeOf[d]], SetsOf(d)) => Single(pipe'[NodeOf[d]], SetsOf(d))
    BY <1>1, <1>2, <1>5
  <1>21. TypeOK'
    BY <1>0, <1>1, <1>3, <1>4, <1>5, <1>6, <1>7, <1>8 DEF Down, Forget, redis, TypeOK
  <1>22. Queues'
    BY <1>0, <1>1, <1>3, <1>4, <1>5, <1>6, <1>7, <1>8 DEF Down, Forget, redis, Queues
  <1>23. UpIsNotCleared'
    BY <1>0, <1>1, <1>3, <1>4, <1>5, <1>6, <1>7, <1>8 DEF Down, Forget, redis, UpIsNotCleared
  <1>24. OpenIsAccepted'
    BY <1>0, <1>1, <1>3, <1>4, <1>5, <1>6, <1>7, <1>8 DEF Down, Forget, redis, OpenIsAccepted, Running
  <1>25. OpenIsNotDeleted'
    BY <1>0, <1>1, <1>3, <1>4, <1>5, <1>6, <1>7, <1>8 DEF Down, Forget, redis, OpenIsNotDeleted, Running
  <1>26. Unannounced'
    BY <1>0, <1>1, <1>3, <1>4, <1>5, <1>6, <1>7, <1>8 DEF Down, Forget, redis, Unannounced, Running
  <1>27. SetOnce'
    BY <1>0, <1>1, <1>3, <1>4, <1>5, <1>6, <1>7, <1>8 DEF Down, Forget, redis, SetOnce, Running
  <1>28. Kept'
    <2> SUFFICES ASSUME NEW d \in open', Announced(d)', node'[NodeOf[d]] = "up"
                 PROVE  /\ d \in index' /\ descriptor'[d] # NoDescriptor
                        /\ NodeOf[d] \in Beating => NodeOf[d] \in alive'
      BY DEF Kept
    <2>1. d \in Conns /\ NodeOf[d] \in Nodes
      BY <1>21 DEF TypeOK
    <2> QED
      BY <2>1, <1>0, <1>1, <1>3, <1>4, <1>5, <1>6, <1>7, <1>8 DEF Down, Forget, redis, Kept, Announced
  <1> QED
    BY <1>21, <1>22, <1>23, <1>24, <1>25, <1>26, <1>27, <1>28

LEMMA DirAliveExpires ==
  ASSUME DirInv, NEW n \in Nodes, AliveExpires(n)
  PROVE  DirInv'
  <1> USE PresenceConstants DEF DirInv
  <1>0. /\ node \in [Nodes -> {"up", "closing", "down"}]
        /\ registered \in [Conns -> {"none", "joining", "setting", "done"}]
        /\ deferred \in [Conns -> Seq(RoomWrite)] /\ open \subseteq Conns
    BY DEF TypeOK
  <1>1. /\ \A k \in Nodes : InFlight(k)' = InFlight(k)
        /\ \A d \in Conns : SetPiped(d)' = SetPiped(d) /\ SetAnswered(d)' = SetAnswered(d)
    BY DEF AliveExpires, InFlight, SetPiped, SetAnswered
  <1>21. TypeOK'
    BY <1>0, <1>1 DEF AliveExpires, server, TypeOK
  <1>22. Queues'
    BY <1>0, <1>1 DEF AliveExpires, server, Queues
  <1>23. UpIsNotCleared'
    BY <1>0, <1>1 DEF AliveExpires, server, UpIsNotCleared
  <1>24. OpenIsAccepted'
    BY <1>0, <1>1 DEF AliveExpires, server, OpenIsAccepted, Running
  <1>25. OpenIsNotDeleted'
    BY <1>0, <1>1 DEF AliveExpires, server, OpenIsNotDeleted, Running
  <1>26. Unannounced'
    BY <1>0, <1>1 DEF AliveExpires, server, Unannounced, Running
  <1>27. SetOnce'
    BY <1>0, <1>1 DEF AliveExpires, server, SetOnce, Running
  <1>28. Kept'
    <2> SUFFICES ASSUME NEW d \in open', Announced(d)', node'[NodeOf[d]] = "up"
                 PROVE  /\ d \in index' /\ descriptor'[d] # NoDescriptor
                        /\ NodeOf[d] \in Beating => NodeOf[d] \in alive'
      BY DEF Kept
    <2>1. d \in Conns /\ NodeOf[d] \in Nodes
      BY <1>21 DEF TypeOK
    <2> QED
      BY <2>1, <1>0, <1>1 DEF AliveExpires, server, Kept, Announced
  <1> QED
    BY <1>21, <1>22, <1>23, <1>24, <1>25, <1>26, <1>27, <1>28

LEMMA DirExecuteGet ==
  ASSUME DirInv, NEW n \in Nodes, ExecuteGet(n)
  PROVE  DirInv'
  <1> USE PresenceConstants DEF DirInv
  <1>0. /\ node \in [Nodes -> {"up", "closing", "down"}]
        /\ registered \in [Conns -> {"none", "joining", "setting", "done"}]
        /\ deferred \in [Conns -> Seq(RoomWrite)] /\ open \subseteq Conns
    BY DEF TypeOK
  <1>1. pipe[n] # <<>> /\ Head(pipe[n]).op = "get" /\ Executed(n)
    BY DEF ExecuteGet, Executes
  <1>2. Head(pipe[n]) \in Asked(n)
    BY <1>1, FirstExecuted
  <1>3. [to |-> Head(pipe[n]), found |-> descriptor[Head(pipe[n]).conn]] \in Given(n)
    BY <1>1, <1>2 DEF Given, Answer, Asked, Own, TypeOK, RoomWrites
  <1>4. /\ pipe' \in [Nodes -> Seq(Command)] /\ answers' \in [Nodes -> Seq(Answer)]
        /\ \A k \in Nodes : pipe'[k] \in Seq(Asked(k)) /\ answers'[k] \in Seq(Given(k))
        /\ Head(pipe[n]) \in Asked(n) /\ Head(pipe[n]) \in InFlight(n)
        /\ \A k \in Nodes : \A m : m \in InFlight(k)' => m \in InFlight(k)
        /\ \A d \in Conns : SetPiped(d)' <=> SetPiped(d)
        /\ \A d \in Conns : SetAnswered(d)' => SetAnswered(d)
        /\ \A d \in Conns :
             Single(pipe[NodeOf[d]], SetsOf(d)) => Single(pipe'[NodeOf[d]], SetsOf(d))
    BY <1>1, <1>2, <1>3, PerformedNoSet DEF ExecuteGet
  <1>21. TypeOK'
    BY <1>0, <1>1, <1>2, <1>4 DEF ExecuteGet, server, redis, TypeOK
  <1>22. Queues'
    BY <1>0, <1>1, <1>2, <1>4 DEF ExecuteGet, server, redis, Queues
  <1>23. UpIsNotCleared'
    BY <1>0, <1>1, <1>2, <1>4 DEF ExecuteGet, server, redis, UpIsNotCleared
  <1>24. OpenIsAccepted'
    BY <1>0, <1>1, <1>2, <1>4 DEF ExecuteGet, server, redis, OpenIsAccepted, Running
  <1>25. OpenIsNotDeleted'
    BY <1>0, <1>1, <1>2, <1>4 DEF ExecuteGet, server, redis, OpenIsNotDeleted, Running
  <1>26. Unannounced'
    BY <1>0, <1>1, <1>2, <1>4 DEF ExecuteGet, server, redis, Unannounced, Running
  <1>27. SetOnce'
    BY <1>0, <1>1, <1>2, <1>4 DEF ExecuteGet, server, redis, SetOnce, Running
  <1>28. Kept'
    <2> SUFFICES ASSUME NEW d \in open', Announced(d)', node'[NodeOf[d]] = "up"
                 PROVE  /\ d \in index' /\ descriptor'[d] # NoDescriptor
                        /\ NodeOf[d] \in Beating => NodeOf[d] \in alive'
      BY DEF Kept
    <2>1. d \in Conns /\ NodeOf[d] \in Nodes
      BY <1>21 DEF TypeOK
    <2> QED
      BY <2>1, <1>0, <1>1, <1>2, <1>4 DEF ExecuteGet, server, redis, Kept, Announced
  <1> QED
    BY <1>21, <1>22, <1>23, <1>24, <1>25, <1>26, <1>27, <1>28

LEMMA DirExecutePut ==
  ASSUME DirInv, NEW n \in Nodes, ExecutePut(n)
  PROVE  DirInv'
  <1> USE PresenceConstants DEF DirInv
  <1>0. /\ node \in [Nodes -> {"up", "closing", "down"}]
        /\ registered \in [Conns -> {"none", "joining", "setting", "done"}]
        /\ deferred \in [Conns -> Seq(RoomWrite)] /\ open \subseteq Conns
    BY DEF TypeOK
  <1>1. pipe[n] # <<>> /\ Head(pipe[n]).op = "put" /\ Executed(n)
    BY DEF ExecutePut, Executes
  <1>2. Head(pipe[n]) \in Asked(n)
    BY <1>1, FirstExecuted
  <1>4. /\ pipe' \in [Nodes -> Seq(Command)] /\ answers' \in [Nodes -> Seq(Answer)]
        /\ \A k \in Nodes : pipe'[k] \in Seq(Asked(k)) /\ answers'[k] \in Seq(Given(k))
        /\ Head(pipe[n]) \in Asked(n) /\ Head(pipe[n]) \in InFlight(n)
        /\ \A k \in Nodes : \A m : m \in InFlight(k)' => m \in InFlight(k)
        /\ \A d \in Conns : SetPiped(d)' <=> SetPiped(d)
        /\ \A d \in Conns : SetAnswered(d)' => SetAnswered(d)
        /\ \A d \in Conns :
             Single(pipe[NodeOf[d]], SetsOf(d)) => Single(pipe'[NodeOf[d]], SetsOf(d))
    BY <1>1, <1>2, PerformedNoSet DEF ExecutePut
  <1> PICK c \in Conns, r \in Rooms, rs \in SUBSET Rooms :
        c = Head(pipe[n]).conn /\ r = Head(pipe[n]).room /\ rs = Head(pipe[n]).rooms
    BY <1>1, <1>2 DEF Asked, Own, Command
  <1>5. PICK f \in SUBSET Rooms : descriptor' = [descriptor EXCEPT ![c] = f]
    <2>1. rs \cup {r} \in SUBSET Rooms /\ rs \ {r} \in SUBSET Rooms
      OBVIOUS
    <2> QED
      BY <2>1 DEF ExecutePut
  <1>6. PICK g \in SUBSET Conns : inRoom' = [inRoom EXCEPT ![r] = g]
    <2>1. inRoom[r] \cup {c} \in SUBSET Conns /\ inRoom[r] \ {c} \in SUBSET Conns
      BY DEF TypeOK
    <2>2. inRoom' = [inRoom EXCEPT ![r] = inRoom[r] \cup {c}]
            \/ inRoom' = [inRoom EXCEPT ![r] = inRoom[r] \ {c}]
      BY DEF ExecutePut
    <2> QED
      BY <2>1, <2>2
  <1>7. UNCHANGED <<server, index, alive, reachable, overlap>>
    BY DEF ExecutePut
  <1>21. TypeOK'
    BY <1>4, <1>5, <1>6, <1>7 DEF server, TypeOK
  <1>22. Queues'
    BY <1>0, <1>1, <1>2, <1>4 DEF ExecutePut, server, redis, Queues
  <1>23. UpIsNotCleared'
    BY <1>0, <1>1, <1>2, <1>4 DEF ExecutePut, server, redis, UpIsNotCleared
  <1>24. OpenIsAccepted'
    BY <1>0, <1>1, <1>2, <1>4 DEF ExecutePut, server, redis, OpenIsAccepted, Running
  <1>25. OpenIsNotDeleted'
    BY <1>0, <1>1, <1>2, <1>4 DEF ExecutePut, server, redis, OpenIsNotDeleted, Running
  <1>26. Unannounced'
    BY <1>0, <1>1, <1>2, <1>4 DEF ExecutePut, server, redis, Unannounced, Running
  <1>27. SetOnce'
    BY <1>0, <1>1, <1>2, <1>4 DEF ExecutePut, server, redis, SetOnce, Running
  <1>28. Kept'
    <2> SUFFICES ASSUME NEW d \in open', Announced(d)', node'[NodeOf[d]] = "up"
                 PROVE  /\ d \in index' /\ descriptor'[d] # NoDescriptor
                        /\ NodeOf[d] \in Beating => NodeOf[d] \in alive'
      BY DEF Kept
    <2>1. d \in Conns /\ NodeOf[d] \in Nodes
      BY <1>21 DEF TypeOK
    <2> QED
      <3>1. d \in open /\ Announced(d) /\ node[NodeOf[d]] = "up"
        BY <1>4, <1>7, <2>1 DEF Announced, server
      <3>2. /\ d \in index /\ descriptor[d] # NoDescriptor
            /\ NodeOf[d] \in Beating => NodeOf[d] \in alive
        BY <3>1 DEF Kept
      <3>3. descriptor'[d] # NoDescriptor
        BY <1>5, <2>1, <3>2 DEF TypeOK
      <3> QED
        BY <3>2, <3>3, <1>7
  <1> QED
    BY <1>21, <1>22, <1>23, <1>24, <1>25, <1>26, <1>27, <1>28

LEMMA DirExecuteDrop ==
  ASSUME DirInv, NEW n \in Nodes, ExecuteDrop(n)
  PROVE  DirInv'
  <1> USE PresenceConstants DEF DirInv
  <1>0. /\ node \in [Nodes -> {"up", "closing", "down"}]
        /\ registered \in [Conns -> {"none", "joining", "setting", "done"}]
        /\ deferred \in [Conns -> Seq(RoomWrite)] /\ open \subseteq Conns
    BY DEF TypeOK
  <1>1. pipe[n] # <<>> /\ Head(pipe[n]).op = "drop" /\ Executed(n)
    BY DEF ExecuteDrop, Executes
  <1>2. Head(pipe[n]) \in Asked(n)
    BY <1>1, FirstExecuted
  <1>3. Head(pipe[n]).of = "clearNode" => [to |-> Head(pipe[n]), found |-> {}] \in Given(n)
    BY <1>1, <1>2 DEF Given, Answer, Asked, Own, RoomWrites
  <1>4. /\ pipe' \in [Nodes -> Seq(Command)] /\ answers' \in [Nodes -> Seq(Answer)]
        /\ \A k \in Nodes : pipe'[k] \in Seq(Asked(k)) /\ answers'[k] \in Seq(Given(k))
        /\ Head(pipe[n]) \in Asked(n) /\ Head(pipe[n]) \in InFlight(n)
        /\ \A k \in Nodes : \A m : m \in InFlight(k)' => m \in InFlight(k)
        /\ \A d \in Conns : SetPiped(d)' <=> SetPiped(d)
        /\ \A d \in Conns : SetAnswered(d)' => SetAnswered(d)
        /\ \A d \in Conns :
             Single(pipe[NodeOf[d]], SetsOf(d)) => Single(pipe'[NodeOf[d]], SetsOf(d))
    BY <1>1, <1>2, <1>3, PerformedNoSet DEF ExecuteDrop
  <1>21. TypeOK'
    BY <1>0, <1>1, <1>2, <1>4 DEF ExecuteDrop, server, redis, TypeOK
  <1>22. Queues'
    BY <1>0, <1>1, <1>2, <1>4 DEF ExecuteDrop, server, redis, Queues
  <1>23. UpIsNotCleared'
    BY <1>0, <1>1, <1>2, <1>4 DEF ExecuteDrop, server, redis, UpIsNotCleared
  <1>24. OpenIsAccepted'
    BY <1>0, <1>1, <1>2, <1>4 DEF ExecuteDrop, server, redis, OpenIsAccepted, Running
  <1>25. OpenIsNotDeleted'
    BY <1>0, <1>1, <1>2, <1>4 DEF ExecuteDrop, server, redis, OpenIsNotDeleted, Running
  <1>26. Unannounced'
    BY <1>0, <1>1, <1>2, <1>4 DEF ExecuteDrop, server, redis, Unannounced, Running
  <1>27. SetOnce'
    BY <1>0, <1>1, <1>2, <1>4 DEF ExecuteDrop, server, redis, SetOnce, Running
  <1>28. Kept'
    <2> SUFFICES ASSUME NEW d \in open', Announced(d)', node'[NodeOf[d]] = "up"
                 PROVE  /\ d \in index' /\ descriptor'[d] # NoDescriptor
                        /\ NodeOf[d] \in Beating => NodeOf[d] \in alive'
      BY DEF Kept
    <2>1. d \in Conns /\ NodeOf[d] \in Nodes
      BY <1>21 DEF TypeOK
    <2> QED
      <3>1. /\ d \in open /\ Announced(d) /\ node[NodeOf[d]] = "up"
            /\ descriptor' = [descriptor EXCEPT ![Head(pipe[n]).conn] = NoDescriptor]
            /\ index' = index \ {Head(pipe[n]).conn} /\ alive' = alive
        BY <1>4, <2>1 DEF Announced, server, ExecuteDrop
      <3>2. /\ d \in index /\ descriptor[d] # NoDescriptor
            /\ NodeOf[d] \in Beating => NodeOf[d] \in alive
        BY <3>1 DEF Kept
      <3>3. Head(pipe[n]).of \in {"del", "clearNode"} /\ NodeOf[Head(pipe[n]).conn] = n
        BY <1>1, <1>2 DEF Asked, Command, RoomWrites, Own
      <3>4. Head(pipe[n]).conn # d
        BY <3>1, <3>3, <1>4, <2>1 DEF UpIsNotCleared, OpenIsNotDeleted, OpenIsAccepted
      <3>5. descriptor'[d] = descriptor[d] /\ d \in index'
        BY <3>1, <3>2, <3>4, <2>1 DEF TypeOK
      <3> QED
        BY <3>1, <3>2, <3>5
  <1> QED
    BY <1>21, <1>22, <1>23, <1>24, <1>25, <1>26, <1>27, <1>28

LEMMA MembersGiven ==
  ASSUME NEW n \in Nodes, NEW m \in Asked(n), m.op = "members", NEW f \in SUBSET Own(n)
  PROVE  [to |-> m, found |-> f] \in Given(n)
  <1>1. m \in Command /\ f \in SUBSET Conns
    BY DEF Asked, Own
  <1>2. [to |-> m, found |-> f] \in Answer
    BY <1>1 DEF Answer
  <1> QED
    BY <1>2 DEF Given

LEMMA DirExecuteMembers ==
  ASSUME DirInv, NEW n \in Nodes, ExecuteMembers(n)
  PROVE  DirInv'
  <1> USE PresenceConstants DEF DirInv
  <1>0. /\ node \in [Nodes -> {"up", "closing", "down"}]
        /\ registered \in [Conns -> {"none", "joining", "setting", "done"}]
        /\ deferred \in [Conns -> Seq(RoomWrite)] /\ open \subseteq Conns
    BY DEF TypeOK
  <1>1. pipe[n] # <<>> /\ Head(pipe[n]).op = "members" /\ Executed(n)
    BY DEF ExecuteMembers, Executes
  <1>2. Head(pipe[n]) \in Asked(n)
    BY <1>1, FirstExecuted
  <1>3. [to |-> Head(pipe[n]), found |-> {c \in index : NodeOf[c] = n}] \in Given(n)
    <2>1. {c \in index : NodeOf[c] = n} \in SUBSET Own(n)
      BY DEF Own, TypeOK
    <2> QED
      BY <1>1, <1>2, <2>1, MembersGiven
  <1>4. /\ pipe' \in [Nodes -> Seq(Command)] /\ answers' \in [Nodes -> Seq(Answer)]
        /\ \A k \in Nodes : pipe'[k] \in Seq(Asked(k)) /\ answers'[k] \in Seq(Given(k))
        /\ Head(pipe[n]) \in Asked(n) /\ Head(pipe[n]) \in InFlight(n)
        /\ \A k \in Nodes : \A m : m \in InFlight(k)' => m \in InFlight(k)
        /\ \A d \in Conns : SetPiped(d)' <=> SetPiped(d)
        /\ \A d \in Conns : SetAnswered(d)' => SetAnswered(d)
        /\ \A d \in Conns :
             Single(pipe[NodeOf[d]], SetsOf(d)) => Single(pipe'[NodeOf[d]], SetsOf(d))
    BY <1>1, <1>2, <1>3, PerformedNoSet DEF ExecuteMembers
  <1>21. TypeOK'
    BY <1>0, <1>1, <1>2, <1>4 DEF ExecuteMembers, server, redis, TypeOK
  <1>22. Queues'
    BY <1>0, <1>1, <1>2, <1>4 DEF ExecuteMembers, server, redis, Queues
  <1>23. UpIsNotCleared'
    BY <1>0, <1>1, <1>2, <1>4 DEF ExecuteMembers, server, redis, UpIsNotCleared
  <1>24. OpenIsAccepted'
    BY <1>0, <1>1, <1>2, <1>4 DEF ExecuteMembers, server, redis, OpenIsAccepted, Running
  <1>25. OpenIsNotDeleted'
    BY <1>0, <1>1, <1>2, <1>4 DEF ExecuteMembers, server, redis, OpenIsNotDeleted, Running
  <1>26. Unannounced'
    BY <1>0, <1>1, <1>2, <1>4 DEF ExecuteMembers, server, redis, Unannounced, Running
  <1>27. SetOnce'
    BY <1>0, <1>1, <1>2, <1>4 DEF ExecuteMembers, server, redis, SetOnce, Running
  <1>28. Kept'
    <2> SUFFICES ASSUME NEW d \in open', Announced(d)', node'[NodeOf[d]] = "up"
                 PROVE  /\ d \in index' /\ descriptor'[d] # NoDescriptor
                        /\ NodeOf[d] \in Beating => NodeOf[d] \in alive'
      BY DEF Kept
    <2>1. d \in Conns /\ NodeOf[d] \in Nodes
      BY <1>21 DEF TypeOK
    <2> QED
      BY <2>1, <1>0, <1>1, <1>2, <1>4 DEF ExecuteMembers, server, redis, Kept, Announced
  <1> QED
    BY <1>21, <1>22, <1>23, <1>24, <1>25, <1>26, <1>27, <1>28

LEMMA DirExecuteWipe ==
  ASSUME DirInv, NEW n \in Nodes, ExecuteWipe(n)
  PROVE  DirInv'
  <1> USE PresenceConstants DEF DirInv
  <1>0. /\ node \in [Nodes -> {"up", "closing", "down"}]
        /\ registered \in [Conns -> {"none", "joining", "setting", "done"}]
        /\ deferred \in [Conns -> Seq(RoomWrite)] /\ open \subseteq Conns
    BY DEF TypeOK
  <1>1. pipe[n] # <<>> /\ Head(pipe[n]).op = "wipe" /\ Executed(n)
    BY DEF ExecuteWipe, Executes
  <1>2. Head(pipe[n]) \in Asked(n)
    BY <1>1, FirstExecuted
  <1>3. [to |-> Head(pipe[n]), found |-> {}] \in Given(n)
    BY <1>1, <1>2 DEF Given, Answer, Asked, Own, TypeOK, RoomWrites
  <1>4. /\ pipe' \in [Nodes -> Seq(Command)] /\ answers' \in [Nodes -> Seq(Answer)]
        /\ \A k \in Nodes : pipe'[k] \in Seq(Asked(k)) /\ answers'[k] \in Seq(Given(k))
        /\ Head(pipe[n]) \in Asked(n) /\ Head(pipe[n]) \in InFlight(n)
        /\ \A k \in Nodes : \A m : m \in InFlight(k)' => m \in InFlight(k)
        /\ \A d \in Conns : SetPiped(d)' <=> SetPiped(d)
        /\ \A d \in Conns : SetAnswered(d)' => SetAnswered(d)
        /\ \A d \in Conns :
             Single(pipe[NodeOf[d]], SetsOf(d)) => Single(pipe'[NodeOf[d]], SetsOf(d))
    BY <1>1, <1>2, <1>3, PerformedNoSet DEF ExecuteWipe
  <1>21. TypeOK'
    BY <1>0, <1>1, <1>2, <1>4 DEF ExecuteWipe, server, redis, TypeOK
  <1>22. Queues'
    BY <1>0, <1>1, <1>2, <1>4 DEF ExecuteWipe, server, redis, Queues
  <1>23. UpIsNotCleared'
    BY <1>0, <1>1, <1>2, <1>4 DEF ExecuteWipe, server, redis, UpIsNotCleared
  <1>24. OpenIsAccepted'
    BY <1>0, <1>1, <1>2, <1>4 DEF ExecuteWipe, server, redis, OpenIsAccepted, Running
  <1>25. OpenIsNotDeleted'
    BY <1>0, <1>1, <1>2, <1>4 DEF ExecuteWipe, server, redis, OpenIsNotDeleted, Running
  <1>26. Unannounced'
    BY <1>0, <1>1, <1>2, <1>4 DEF ExecuteWipe, server, redis, Unannounced, Running
  <1>27. SetOnce'
    BY <1>0, <1>1, <1>2, <1>4 DEF ExecuteWipe, server, redis, SetOnce, Running
  <1>28. Kept'
    <2> SUFFICES ASSUME NEW d \in open', Announced(d)', node'[NodeOf[d]] = "up"
                 PROVE  /\ d \in index' /\ descriptor'[d] # NoDescriptor
                        /\ NodeOf[d] \in Beating => NodeOf[d] \in alive'
      BY DEF Kept
    <2>1. d \in Conns /\ NodeOf[d] \in Nodes
      BY <1>21 DEF TypeOK
    <2> QED
      <3>1. /\ d \in open /\ Announced(d) /\ node[NodeOf[d]] = "up" /\ alive' = alive \ {n}
            /\ UNCHANGED <<descriptor, index>>
        BY <1>4, <2>1 DEF Announced, server, ExecuteWipe
      <3>2. /\ d \in index /\ descriptor[d] # NoDescriptor
            /\ NodeOf[d] \in Beating => NodeOf[d] \in alive
        BY <3>1 DEF Kept
      <3>3. Head(pipe[n]).of = "clearNode"
        BY <1>1, <1>2 DEF Asked
      <3>4. NodeOf[d] # n
        BY <3>1, <3>3, <1>4, <2>1 DEF UpIsNotCleared
      <3> QED
        BY <3>1, <3>2, <3>4
  <1> QED
    BY <1>21, <1>22, <1>23, <1>24, <1>25, <1>26, <1>27, <1>28

LEMMA DirExecuteSet ==
  ASSUME DirInv, NEW n \in Nodes, ExecuteSet(n)
  PROVE  DirInv'
  <1> USE PresenceConstants DEF DirInv
  <1>0. /\ node \in [Nodes -> {"up", "closing", "down"}]
        /\ registered \in [Conns -> {"none", "joining", "setting", "done"}]
        /\ deferred \in [Conns -> Seq(RoomWrite)] /\ open \subseteq Conns
    BY DEF TypeOK
  <1>1. pipe[n] # <<>> /\ Head(pipe[n]).op = "set" /\ Executed(n)
    BY DEF ExecuteSet, Executes
  <1>2. Head(pipe[n]) \in Asked(n)
    BY <1>1, FirstExecuted
  <1>3. [to |-> Head(pipe[n]), found |-> {}] \in Given(n)
    BY <1>1, <1>2 DEF Given, Answer, Asked, Own, RoomWrites
  <1> PICK c \in Conns : c = Head(pipe[n]).conn
    BY <1>1, <1>2 DEF Asked, Own
  <1> PICK rs \in SUBSET Rooms : rs = Head(pipe[n]).rooms
    BY <1>2 DEF Asked, Command
  <1>4. NodeOf[c] = n /\ \A d \in Conns : Head(pipe[n]) \in SetsOf(d) <=> d = c
    BY <1>1, <1>2 DEF Asked, Own, SetsOf
  <1>5. /\ pipe' \in [Nodes -> Seq(Command)] /\ answers' \in [Nodes -> Seq(Answer)]
        /\ \A k \in Nodes : pipe'[k] \in Seq(Asked(k)) /\ answers'[k] \in Seq(Given(k))
        /\ Head(pipe[n]) \in InFlight(n)
        /\ \A k \in Nodes : \A m : m \in InFlight(k)' => m \in InFlight(k)
        /\ \A d \in Conns : SetPiped(d)' => SetPiped(d)
        /\ \A d \in Conns : SetPiped(d) => SetPiped(d)' \/ d = c
        /\ \A d \in Conns : SetAnswered(d)' => SetAnswered(d) \/ d = c
        /\ \A d \in Conns :
             Single(pipe[NodeOf[d]], SetsOf(d)) => Single(pipe'[NodeOf[d]], SetsOf(d))
        /\ Single(pipe[NodeOf[c]], SetsOf(c)) => SetPiped(c) /\ ~ SetPiped(c)'
    BY <1>1, <1>2, <1>3, <1>4, Performed DEF ExecuteSet
  <1>6. Running(n) => registered[c] \notin {"none", "joining"}
    BY <1>1, <1>4, <1>5 DEF Unannounced
  <1>7. /\ descriptor' = [descriptor EXCEPT ![c] = rs] /\ index' = index \cup {c}
        /\ inRoom' = [r \in Rooms |-> IF r \in rs THEN inRoom[r] \cup {c} ELSE inRoom[r]]
        /\ alive' = alive \cup {n}
    BY DEF ExecuteSet
  <1>8. UNCHANGED <<server, reachable, overlap>>
    BY DEF ExecuteSet
  <1>21. TypeOK'
    BY <1>0, <1>4, <1>5, <1>6, <1>7, <1>8 DEF server, TypeOK
  <1>22. Queues'
    BY <1>0, <1>4, <1>5, <1>6, <1>7, <1>8 DEF server, Queues
  <1>23. UpIsNotCleared'
    BY <1>0, <1>4, <1>5, <1>6, <1>7, <1>8 DEF server, UpIsNotCleared
  <1>24. OpenIsAccepted'
    BY <1>0, <1>4, <1>5, <1>6, <1>7, <1>8 DEF server, OpenIsAccepted, Running
  <1>25. OpenIsNotDeleted'
    BY <1>0, <1>4, <1>5, <1>6, <1>7, <1>8 DEF server, OpenIsNotDeleted, Running
  <1>26. Unannounced'
    BY <1>0, <1>4, <1>5, <1>6, <1>7, <1>8 DEF server, Unannounced, Running
  <1>27. SetOnce'
    BY <1>0, <1>4, <1>5, <1>6, <1>7, <1>8 DEF server, SetOnce, Running
  <1>28. Kept'
    <2> SUFFICES ASSUME NEW d \in open', Announced(d)', node'[NodeOf[d]] = "up"
                 PROVE  /\ d \in index' /\ descriptor'[d] # NoDescriptor
                        /\ NodeOf[d] \in Beating => NodeOf[d] \in alive'
      BY DEF Kept
    <2>1. d \in Conns /\ NodeOf[d] \in Nodes
      BY <1>21 DEF TypeOK
    <2> QED
      <3>1. d \in open /\ node[NodeOf[d]] = "up" /\ registered[d] \in {"setting", "done"}
            /\ ~ SetPiped(d)'
        BY <1>8, <2>1 DEF Announced, server
      <3>2. CASE d = c
        <4>1. d \in index' /\ NodeOf[d] \in alive'
          BY <1>4, <1>7, <3>2
        <4>2. descriptor'[d] # NoDescriptor
          BY <1>7, <3>2 DEF TypeOK
        <4> QED
          BY <4>1, <4>2
      <3>3. CASE d # c
        <4>1. Announced(d)
          BY <1>5, <2>1, <3>1, <3>3 DEF Announced
        <4>2. /\ d \in index /\ descriptor[d] # NoDescriptor
              /\ NodeOf[d] \in Beating => NodeOf[d] \in alive
          BY <3>1, <4>1 DEF Kept
        <4>3. descriptor'[d] = descriptor[d]
          BY <1>7, <2>1, <3>3 DEF TypeOK
        <4> QED
          BY <1>7, <4>2, <4>3
      <3> QED
        BY <3>2, <3>3
  <1> QED
    BY <1>21, <1>22, <1>23, <1>24, <1>25, <1>26, <1>27, <1>28

\* What a handler does about the descriptor it found is one command at most.
LEMMA BackIssued ==
  ASSUME NEW n \in Nodes, NEW a \in Given(n), a.to.op = "get"
  PROVE  \E cmds \in Seq(Asked(n)) :
           /\ cmds = WriteBack(a.to, a.found)
           /\ \A m \in Elems(cmds) : m.op # "set" /\ m.of = a.to.of /\ m.conn = a.to.conn
  <1>1. CASE WriteBack(a.to, a.found) = <<>>
    <2>1. <<>> \in Seq(Asked(n))
      OBVIOUS
    <2> QED
      BY <1>1, <2>1, NoElems
  <1>2. ASSUME NEW m \in Asked(n), WriteBack(a.to, a.found) = <<m>>,
               m.of = a.to.of, m.conn = a.to.conn,
               m.op = IF a.to.of \in RoomWrites THEN "put" ELSE "drop"
        PROVE  \E cmds \in Seq(Asked(n)) :
                 /\ cmds = WriteBack(a.to, a.found)
                 /\ \A x \in Elems(cmds) : x.op # "set" /\ x.of = a.to.of /\ x.conn = a.to.conn
    <2>1. <<m>> \in Seq(Asked(n)) /\ Elems(<<m>>) = {m}
      BY OneElem
    <2> QED
      BY <1>2, <2>1
  <1> QED
    BY <1>1, <1>2, WriteBackAsked

\* clearNode reads the next connection it deletes, deletes it, and wipes the node's keys.
LEMMA ClearIssued ==
  ASSUME TypeOK, Queues, NEW n \in Nodes, ClearNode(n), Head(answers[n]) \in Given(n),
         Head(answers[n]).to.of = "clearNode"
  PROVE  /\ \E cmds \in Seq(Asked(n)) :
              /\ Send(n, cmds)
              /\ \A m \in Elems(cmds) : m.op # "set" /\ m.of = "clearNode"
         /\ left' \in [Nodes -> SUBSET Conns] /\ \A k \in Nodes : left'[k] \subseteq Own(k)
  <1> PICK a \in Given(n) : a = Head(answers[n])
    OBVIOUS
  <1>1. left \in [Nodes -> SUBSET Conns] /\ \A k \in Nodes : left[k] \subseteq Own(k)
    BY DEF TypeOK, Queues
  <1>2. a.to.op \in {"members", "drop", "get"}
    BY DEF ClearNode, First
  <1>3. CASE a.to.op = "get" /\ a.found # NoDescriptor
    <2>1. Send(n, WriteBack(a.to, a.found)) /\ UNCHANGED left
      BY <1>3 DEF ClearNode
    <2> QED
      BY <1>1, <1>3, <2>1, BackIssued
  <1>4. CASE ~ (a.to.op = "get" /\ a.found # NoDescriptor)
    <2>1. PICK remaining \in SUBSET Own(n) : ClearNext(n, remaining)
      <3>1. a.to.op = "members" => a.found \subseteq Own(n)
        BY DEF Given
      <3>2. ClearNext(n, IF a.to.op = "members" THEN a.found ELSE left[n])
        BY <1>4 DEF ClearNode
      <3> QED
        BY <1>1, <3>1, <3>2
    <2>2. CASE remaining = {}
      <3>1. PICK m \in Asked(n) : m = NodeCommand("wipe") /\ m.op = "wipe" /\ m.of = "clearNode"
        BY NodeCommandAsked DEF NodeCommand
      <3>2. <<m>> \in Seq(Asked(n)) /\ Elems(<<m>>) = {m}
        BY OneElem
      <3>3. Send(n, <<m>>) /\ left' = [left EXCEPT ![n] = {}]
        BY <2>1, <2>2, <3>1 DEF ClearNext
      <3> QED
        BY <1>1, <3>1, <3>2, <3>3
    <2>3. CASE remaining # {}
      <3>1. PICK c \in remaining : /\ Send(n, <<Get("clearNode", c, NoRoom)>>)
                                   /\ left' = [left EXCEPT ![n] = remaining \ {c}]
        BY <2>1, <2>3 DEF ClearNext
      <3>2. c \in Conns /\ NodeOf[c] = n
        BY DEF Own
      <3>3. PICK m \in Asked(n) : m = Get("clearNode", c, NoRoom) /\ m.op = "get" /\ m.of = "clearNode"
        <4>1. Get("clearNode", c, NoRoom) \in Asked(NodeOf[c])
          BY <3>2, GetAsked DEF RoomWrites
        <4> QED
          BY <3>2, <4>1 DEF Get
      <3>4. <<m>> \in Seq(Asked(n)) /\ Elems(<<m>>) = {m}
        BY OneElem
      <3>5. remaining \ {c} \subseteq Own(n) /\ Own(n) \subseteq Conns
        BY DEF Own
      <3>6. left' \in [Nodes -> SUBSET Conns] /\ \A k \in Nodes : left'[k] \subseteq Own(k)
        BY <1>1, <3>1, <3>5
      <3> QED
        BY <3>1, <3>3, <3>4, <3>6
    <2> QED
      BY <2>2, <2>3
  <1> QED
    BY <1>3, <1>4

LEMMA DirRegistered ==
  ASSUME DirInv, NEW n \in Nodes, Registered(n)
  PROVE  DirInv'
  <1> USE PresenceConstants DEF DirInv
  <1>0. /\ node \in [Nodes -> {"up", "closing", "down"}]
        /\ registered \in [Conns -> {"none", "joining", "setting", "done"}]
        /\ deferred \in [Conns -> Seq(RoomWrite)] /\ open \subseteq Conns
    BY DEF TypeOK
  <1>1. answers[n] # <<>> /\ Head(answers[n]).to.op = "set" /\ Handled(n) /\ Running(n)
    BY DEF Registered, First
  <1>2. Head(answers[n]) \in Given(n) /\ Head(answers[n]) \in Elems(answers[n])
    BY <1>1, FirstHandled
  <1> PICK c \in Conns : c = Head(answers[n]).to.conn
    BY <1>1, <1>2 DEF Given, Asked, Own
  <1>3. NodeOf[c] = n /\ SetAnswered(c)
    BY <1>1, <1>2 DEF Given, Asked, Own, SetAnswered, SetsOf
  <1>4. deferred[c] \in Seq(RoomWrite)
    BY <1>0
  <1>5. PICK cmds \in Seq(Asked(n)) :
          /\ Send(n, cmds)
          /\ \A m \in Elems(cmds) : m.conn = c /\ m.op = "get" /\ m.of \in RoomWrites
    BY <1>3, <1>4, GetsAsked DEF Registered
  <1>6. \A m \in Elems(cmds) : m.op # "set" /\ m.of # "clearNode" /\ m.of # "del"
    BY <1>5 DEF RoomWrites
  <1>7. /\ pipe' \in [Nodes -> Seq(Command)] /\ answers' \in [Nodes -> Seq(Answer)]
        /\ \A k \in Nodes : pipe'[k] \in Seq(Asked(k)) /\ answers'[k] \in Seq(Given(k))
        /\ \A k \in Nodes : \A m : m \in InFlight(k)' =>
             m \in InFlight(k) \/ (k = n /\ m \in Elems(cmds))
        /\ \A d \in Conns : SetPiped(d)' <=> SetPiped(d)
        /\ \A d \in Conns : SetAnswered(d)' => SetAnswered(d)
        /\ \A d \in Conns :
             Single(pipe[NodeOf[d]], SetsOf(d)) => Single(pipe'[NodeOf[d]], SetsOf(d))
    BY <1>1, <1>5, <1>6, IssuedNoSet
  <1>8. ~ SetPiped(c) /\ (Running(n) => registered[c] \notin {"none", "joining"})
    <2>1. \E m \in InFlight(n) : m.op = "set" /\ m.conn = c
      BY <1>1, <1>2 DEF InFlight
    <2> QED
      BY <1>3, <2>1 DEF SetOnce, Unannounced
  <1>9. /\ registered' = [registered EXCEPT ![c] = "done"]
        /\ deferred' = [deferred EXCEPT ![c] = <<>>] /\ <<>> \in Seq(RoomWrite)
        /\ UNCHANGED <<node, open, rooms, snapshot, left, moves, redis, reachable, overlap>>
    BY DEF Registered
  <1>21. TypeOK'
    BY <1>0, <1>1, <1>3, <1>5, <1>6, <1>7, <1>8, <1>9 DEF redis, TypeOK
  <1>22. Queues'
    BY <1>0, <1>1, <1>3, <1>5, <1>6, <1>7, <1>8, <1>9 DEF redis, Queues
  <1>23. UpIsNotCleared'
    BY <1>0, <1>1, <1>3, <1>5, <1>6, <1>7, <1>8, <1>9 DEF redis, UpIsNotCleared
  <1>24. OpenIsAccepted'
    BY <1>0, <1>1, <1>3, <1>5, <1>6, <1>7, <1>8, <1>9 DEF redis, OpenIsAccepted, Running
  <1>25. OpenIsNotDeleted'
    BY <1>0, <1>1, <1>3, <1>5, <1>6, <1>7, <1>8, <1>9 DEF redis, OpenIsNotDeleted, Running
  <1>26. Unannounced'
    BY <1>0, <1>1, <1>3, <1>5, <1>6, <1>7, <1>8, <1>9 DEF redis, Unannounced, Running
  <1>27. SetOnce'
    BY <1>0, <1>1, <1>3, <1>5, <1>6, <1>7, <1>8, <1>9 DEF redis, SetOnce, Running
  <1>28. Kept'
    <2> SUFFICES ASSUME NEW d \in open', Announced(d)', node'[NodeOf[d]] = "up"
                 PROVE  /\ d \in index' /\ descriptor'[d] # NoDescriptor
                        /\ NodeOf[d] \in Beating => NodeOf[d] \in alive'
      BY DEF Kept
    <2>1. d \in Conns /\ NodeOf[d] \in Nodes
      BY <1>21 DEF TypeOK
    <2> QED
      BY <2>1, <1>0, <1>1, <1>3, <1>5, <1>6, <1>7, <1>8, <1>9 DEF redis, Kept, Announced
  <1> QED
    BY <1>21, <1>22, <1>23, <1>24, <1>25, <1>26, <1>27, <1>28

LEMMA DirFound ==
  ASSUME DirInv, NEW n \in Nodes, Found(n)
  PROVE  DirInv'
  <1> USE PresenceConstants DEF DirInv
  <1>0. /\ node \in [Nodes -> {"up", "closing", "down"}]
        /\ registered \in [Conns -> {"none", "joining", "setting", "done"}]
        /\ deferred \in [Conns -> Seq(RoomWrite)] /\ open \subseteq Conns
    BY DEF TypeOK
  <1>1. /\ answers[n] # <<>> /\ Handled(n) /\ Running(n)
        /\ Head(answers[n]).to.op = "get" /\ Head(answers[n]).to.of # "clearNode"
    BY DEF Found, First
  <1>2. Head(answers[n]) \in Given(n) /\ Head(answers[n]) \in Elems(answers[n])
    BY <1>1, FirstHandled
  <1> PICK to \in InFlight(n) : to = Head(answers[n]).to
    BY <1>2 DEF InFlight
  <1>3. PICK cmds \in Seq(Asked(n)) :
          /\ Send(n, cmds)
          /\ \A m \in Elems(cmds) : m.op # "set" /\ m.of = to.of /\ m.conn = to.conn
    BY <1>1, <1>2, BackIssued DEF Found
  <1>4. \A m \in Elems(cmds) : m.op # "set"
    BY <1>3
  <1>5. /\ pipe' \in [Nodes -> Seq(Command)] /\ answers' \in [Nodes -> Seq(Answer)]
        /\ \A k \in Nodes : pipe'[k] \in Seq(Asked(k)) /\ answers'[k] \in Seq(Given(k))
        /\ \A k \in Nodes : \A m : m \in InFlight(k)' =>
             m \in InFlight(k) \/ (k = n /\ m \in Elems(cmds))
        /\ \A d \in Conns : SetPiped(d)' <=> SetPiped(d)
        /\ \A d \in Conns : SetAnswered(d)' => SetAnswered(d)
        /\ \A d \in Conns :
             Single(pipe[NodeOf[d]], SetsOf(d)) => Single(pipe'[NodeOf[d]], SetsOf(d))
    BY <1>1, <1>3, <1>4, IssuedNoSet
  <1>6. to.of # "set" /\ to.of # "clearNode"
    BY <1>1, <1>2 DEF Given, Asked
  <1>7. UNCHANGED <<server, redis, reachable, overlap>>
    BY DEF Found
  <1>21. TypeOK'
    BY <1>0, <1>1, <1>3, <1>5, <1>6, <1>7 DEF server, redis, TypeOK
  <1>22. Queues'
    BY <1>0, <1>1, <1>3, <1>5, <1>6, <1>7 DEF server, redis, Queues
  <1>23. UpIsNotCleared'
    BY <1>0, <1>1, <1>3, <1>5, <1>6, <1>7 DEF server, redis, UpIsNotCleared
  <1>24. OpenIsAccepted'
    BY <1>0, <1>1, <1>3, <1>5, <1>6, <1>7 DEF server, redis, OpenIsAccepted, Running
  <1>25. OpenIsNotDeleted'
    <2> SUFFICES ASSUME NEW d \in Conns, Running(NodeOf[d])', d \in open' \/ registered'[d] = "none",
                        NEW x \in InFlight(NodeOf[d])', x.conn = d
                 PROVE  x.of # "del"
      BY DEF OpenIsNotDeleted
    <2>1. NodeOf[d] \in Nodes
      OBVIOUS
    <2> QED
      <3>1. /\ Running(NodeOf[d]) /\ (d \in open \/ registered[d] = "none")
        BY <1>7 DEF server, Running
      <3>2. \A m \in InFlight(NodeOf[d]) : m.conn = d => m.of # "del"
        BY <2>1, <3>1 DEF OpenIsNotDeleted
      <3>3. x \in InFlight(NodeOf[d]) \/ (NodeOf[d] = n /\ x \in Elems(cmds))
        BY <1>5, <2>1
      <3> QED
        BY <1>3, <3>2, <3>3
  <1>26. Unannounced'
    BY <1>0, <1>1, <1>3, <1>5, <1>6, <1>7 DEF server, redis, Unannounced, Running
  <1>27. SetOnce'
    BY <1>0, <1>1, <1>3, <1>5, <1>6, <1>7 DEF server, redis, SetOnce, Running
  <1>28. Kept'
    <2> SUFFICES ASSUME NEW d \in open', Announced(d)', node'[NodeOf[d]] = "up"
                 PROVE  /\ d \in index' /\ descriptor'[d] # NoDescriptor
                        /\ NodeOf[d] \in Beating => NodeOf[d] \in alive'
      BY DEF Kept
    <2>1. d \in Conns /\ NodeOf[d] \in Nodes
      BY <1>21 DEF TypeOK
    <2> QED
      BY <2>1, <1>0, <1>1, <1>3, <1>5, <1>6, <1>7 DEF server, redis, Kept, Announced
  <1> QED
    BY <1>21, <1>22, <1>23, <1>24, <1>25, <1>26, <1>27, <1>28

LEMMA DirClearNode ==
  ASSUME DirInv, NEW n \in Nodes, ClearNode(n)
  PROVE  DirInv'
  <1> USE PresenceConstants DEF DirInv
  <1>0. /\ node \in [Nodes -> {"up", "closing", "down"}]
        /\ registered \in [Conns -> {"none", "joining", "setting", "done"}]
        /\ deferred \in [Conns -> Seq(RoomWrite)] /\ open \subseteq Conns
    BY DEF TypeOK
  <1>1. answers[n] # <<>> /\ Handled(n) /\ Running(n) /\ Head(answers[n]).to.op \in {"members", "drop", "get"}
    BY DEF ClearNode, First
  <1>2. /\ Head(answers[n]) \in Given(n) /\ Head(answers[n]) \in Elems(answers[n])
        /\ Head(answers[n]).to.of = "clearNode"
    <2>1. Head(answers[n]) \in Given(n) /\ Head(answers[n]) \in Elems(answers[n])
      BY <1>1, FirstHandled
    <2>2. Head(answers[n]).to.of = "clearNode"
      BY <2>1 DEF Given, Asked, ClearNode, First
    <2> QED
      BY <2>1, <2>2
  <1>3. node[n] # "up"
    BY <1>2 DEF UpIsNotCleared, InFlight
  <1>4. PICK cmds \in Seq(Asked(n)) :
          /\ Send(n, cmds)
          /\ \A m \in Elems(cmds) : m.op # "set" /\ m.of = "clearNode"
    BY <1>2, ClearIssued
  <1>5. \A m \in Elems(cmds) : m.op # "set"
    BY <1>4
  <1>6. /\ pipe' \in [Nodes -> Seq(Command)] /\ answers' \in [Nodes -> Seq(Answer)]
        /\ \A k \in Nodes : pipe'[k] \in Seq(Asked(k)) /\ answers'[k] \in Seq(Given(k))
        /\ \A k \in Nodes : \A m : m \in InFlight(k)' =>
             m \in InFlight(k) \/ (k = n /\ m \in Elems(cmds))
        /\ \A d \in Conns : SetPiped(d)' <=> SetPiped(d)
        /\ \A d \in Conns : SetAnswered(d)' => SetAnswered(d)
        /\ \A d \in Conns :
             Single(pipe[NodeOf[d]], SetsOf(d)) => Single(pipe'[NodeOf[d]], SetsOf(d))
    BY <1>1, <1>4, <1>5, IssuedNoSet
  <1>7. /\ UNCHANGED <<node, open, registered, rooms, snapshot, deferred, moves, redis, reachable,
                      overlap>>
        /\ left' \in [Nodes -> SUBSET Conns] /\ \A k \in Nodes : left'[k] \subseteq Own(k)
    BY <1>2, ClearIssued DEF ClearNode
  <1>21. TypeOK'
    BY <1>0, <1>1, <1>3, <1>4, <1>6, <1>7 DEF redis, TypeOK
  <1>22. Queues'
    BY <1>0, <1>1, <1>3, <1>4, <1>6, <1>7 DEF redis, Queues
  <1>23. UpIsNotCleared'
    BY <1>0, <1>1, <1>3, <1>4, <1>6, <1>7 DEF redis, UpIsNotCleared
  <1>24. OpenIsAccepted'
    BY <1>0, <1>1, <1>3, <1>4, <1>6, <1>7 DEF redis, OpenIsAccepted, Running
  <1>25. OpenIsNotDeleted'
    BY <1>0, <1>1, <1>3, <1>4, <1>6, <1>7 DEF redis, OpenIsNotDeleted, Running
  <1>26. Unannounced'
    BY <1>0, <1>1, <1>3, <1>4, <1>6, <1>7 DEF redis, Unannounced, Running
  <1>27. SetOnce'
    BY <1>0, <1>1, <1>3, <1>4, <1>6, <1>7 DEF redis, SetOnce, Running
  <1>28. Kept'
    <2> SUFFICES ASSUME NEW d \in open', Announced(d)', node'[NodeOf[d]] = "up"
                 PROVE  /\ d \in index' /\ descriptor'[d] # NoDescriptor
                        /\ NodeOf[d] \in Beating => NodeOf[d] \in alive'
      BY DEF Kept
    <2>1. d \in Conns /\ NodeOf[d] \in Nodes
      BY <1>21 DEF TypeOK
    <2> QED
      BY <2>1, <1>0, <1>1, <1>3, <1>4, <1>6, <1>7 DEF redis, Kept, Announced
  <1> QED
    BY <1>21, <1>22, <1>23, <1>24, <1>25, <1>26, <1>27, <1>28

LEMMA DirNext ==
  ASSUME DirInv, [Next]_vars
  PROVE  DirInv'
  <1>1. ASSUME NEW c \in Conns, Reachable(c) \/ SocketClosed(c)
        PROVE  DirInv'
    BY <1>1, DirReachable, DirSocketClosed
  <1>2. ASSUME NEW c \in Conns, NEW rs \in SUBSET Rooms, Accept(c, rs)
        PROVE  DirInv'
    BY <1>2, DirAccept
  <1>3. ASSUME NEW c \in Conns, NEW r \in Rooms, JoinRoom(c, r) \/ LeaveRoom(c, r)
        PROVE  DirInv'
    BY <1>3, DirJoinRoom, DirLeaveRoom
  <1>4. ASSUME NEW n \in Nodes, Close(n) \/ AliveExpires(n)
        PROVE  DirInv'
    BY <1>4, DirClose, DirAliveExpires
  <1>5. ASSUME NEW n \in Nodes, Crash(n)
        PROVE  DirInv'
    BY <1>5, DirDown DEF Crash
  <1>6. ASSUME NEW n \in Nodes, Execute(n)
        PROVE  DirInv'
    BY <1>6, DirExecuteSet, DirExecuteGet, DirExecutePut, DirExecuteDrop, DirExecuteMembers,
       DirExecuteWipe DEF Execute
  <1>7. ASSUME NEW n \in Nodes, Registered(n) \/ Found(n) \/ ClearNode(n)
        PROVE  DirInv'
    BY <1>7, DirRegistered, DirFound, DirClearNode
  <1>8. ASSUME NEW n \in Nodes, Stopped(n)
        PROVE  DirInv'
    BY <1>8, DirDown DEF Stopped
  <1>9. CASE UNCHANGED vars
    BY <1>9 DEF vars, server, redis, DirInv, TypeOK, Queues, UpIsNotCleared, OpenIsAccepted,
       OpenIsNotDeleted, Unannounced, SetOnce, Kept, InFlight, SetPiped, SetAnswered, Announced,
       Running
  <1> QED
    BY <1>1, <1>2, <1>3, <1>4, <1>5, <1>6, <1>7, <1>8, <1>9 DEF Next, Handle

LEMMA DirInit ==
  ASSUME Init
  PROVE  DirInv
  <1> USE PresenceConstants
  <1>1. <<>> \in Seq(Command) /\ <<>> \in Seq(Answer) /\ <<>> \in Seq(RoomWrite)
        /\ \A n \in Nodes : <<>> \in Seq(Asked(n)) /\ <<>> \in Seq(Given(n))
    OBVIOUS
  <1>2. TypeOK
    BY <1>1 DEF Init, TypeOK
  <1>3. Queues
    BY <1>1 DEF Init, Queues
  <1>4. \A n \in Nodes : InFlight(n) = {}
    BY NoElems DEF Init, InFlight
  <1>5. \A c \in Conns : NodeOf[c] \in Nodes /\ ~ SetPiped(c) /\ ~ SetAnswered(c)
    BY NoElems DEF Init, SetPiped, SetAnswered
  <1>6. UpIsNotCleared /\ OpenIsNotDeleted /\ Unannounced
    BY <1>4, <1>5 DEF Init, UpIsNotCleared, OpenIsNotDeleted, Unannounced
  <1>7. OpenIsAccepted /\ Kept
    BY DEF Init, OpenIsAccepted, Kept
  <1>8. SetOnce
    <2>1. \A T : Single(<<>>, T)
      BY DEF Single
    <2> QED
      BY <1>5, <2>1 DEF Init, SetOnce
  <1> QED
    BY <1>2, <1>3, <1>6, <1>7, <1>8 DEF DirInv

LEMMA DirInductive == Spec => []DirInv
  <1>1. Init => DirInv
    BY DirInit
  <1>2. DirInv /\ [Next]_vars => DirInv'
    BY DirNext
  <1> QED
    BY <1>1, <1>2, PTL DEF Spec

\* The state of the directory and of the nodes that write it has the types the model gives it.
THEOREM PresenceTypeCorrect == Spec => []TypeOK
  <1>1. DirInv => TypeOK
    BY DEF DirInv
  <1> QED
    BY <1>1, DirInductive, PTL

\* A connection another node can find is one it can reach: the personal channel is subscribed
\* before presence advertises the connection (acceptConn).
THEOREM AdvertisedIsReachable == Spec => []ListedIsReachable
  <1>1. ASSUME DirInv
        PROVE  ListedIsReachable
    <2> SUFFICES ASSUME NEW c \in open, c \in index
                 PROVE  c \in reachable
      BY DEF ListedIsReachable, Listed
    <2>1. c \in Conns
      BY <1>1 DEF DirInv, TypeOK
    <2>2. Running(NodeOf[c]) /\ (registered[c] # "joining" => c \in reachable)
      BY <1>1, <2>1 DEF DirInv, OpenIsAccepted
    <2>3. registered[c] # "joining"
      BY <1>1, <2>1, <2>2 DEF DirInv, Unannounced
    <2> QED
      BY <2>2, <2>3
  <1> QED
    BY <1>1, DirInductive, PTL

\* A registered connection stays in the directory while it is open and its node is up and
\* beats, whatever its other connections do.
THEOREM RegisteredStaysListed == Spec => []OpenIsListed
  <1>1. ASSUME DirInv
        PROVE  OpenIsListed
    <2> SUFFICES ASSUME NEW c \in open, registered[c] = "done", node[NodeOf[c]] = "up",
                        NodeOf[c] \in Beating
                 PROVE  c \in Listed
      BY DEF OpenIsListed
    <2>1. c \in Conns
      BY <1>1 DEF DirInv, TypeOK
    <2>2. ~ SetPiped(c)
      BY <1>1, <2>1 DEF DirInv, SetOnce, Running
    <2> QED
      BY <1>1, <2>2 DEF DirInv, Kept, Announced, Listed
  <1> QED
    BY <1>1, DirInductive, PTL
-----------------------------------------------------------------------------
(* Rooms.  The announcement of a connection and its room writes, while     *)
(* Redis has not executed them or the node has not seen them answered.     *)

WritesOf(c) == {m \in Command : m.of \in RoomWrites /\ m.conn = c}
WriteAnswers(c) == {a \in Answer : a.to \in WritesOf(c)}

PipedSets(c) == Elems(pipe[NodeOf[c]]) \cap SetsOf(c)
PipedWrites(c) == Elems(pipe[NodeOf[c]]) \cap WritesOf(c)
AnsweredWrites(c) == Elems(answers[NodeOf[c]]) \cap WriteAnswers(c)

\* What a room write makes of a set of rooms, and where a connection's deferred writes lead.
Effect(w, rs) == IF w.of = "addRoom" THEN rs \cup {w.room} ELSE rs \ {w.room}
After(ws, before, after) ==
  \/ ws = <<>> /\ after = before
  \/ \E w \in RoomWrite : ws = <<w>> /\ after = Effect(w, before)

\* Room writes wait for the announcement.
WritesWait(c) ==
  /\ Running(NodeOf[c]) /\ registered[c] # "done" => PipedWrites(c) = {} /\ AnsweredWrites(c) = {}
  /\ registered[c] = "done" => deferred[c] = <<>>

\* No room lists a connection that Redis has not been told of.
NotInRooms(c) ==
  Running(NodeOf[c]) /\ (registered[c] \in {"none", "joining"} \/ PipedSets(c) # {}) =>
    \A r \in Rooms : c \notin inRoom[r]

\* Connections whose directory entry answers for their rooms.
Followed == {c \in open \ overlap : node[NodeOf[c]] = "up"}

\* One room write is under way at most.
OneWrite(c) ==
  /\ Single(pipe[NodeOf[c]], WritesOf(c)) /\ Single(answers[NodeOf[c]], WriteAnswers(c))
  /\ PipedWrites(c) = {} \/ AnsweredWrites(c) = {}

\* The rooms of a connection are those of its descriptor, or of the announcement under way,
\* after the one write that is deferred or under way; and that write read that descriptor.
RoomsFollow(c) ==
  /\ registered[c] = "joining" => After(deferred[c], snapshot[c], rooms[c])
  /\ \A m \in PipedSets(c) : After(deferred[c], m.rooms, rooms[c])
  /\ registered[c] \in {"setting", "done"} /\ PipedSets(c) = {} =>
       /\ \A r \in Rooms : c \in inRoom[r] <=> r \in descriptor[c]
       /\ PipedWrites(c) = {} /\ AnsweredWrites(c) = {} =>
            After(deferred[c], descriptor[c], rooms[c])
  /\ \A m \in PipedWrites(c) :
       rooms[c] = Effect(m, descriptor[c]) /\ (m.op = "put" => m.rooms = descriptor[c])
  /\ \A a \in AnsweredWrites(c) :
       rooms[c] = Effect(a.to, descriptor[c]) /\ a.found = descriptor[c]

RoomOK(c) ==
  /\ WritesWait(c) /\ NotInRooms(c)
  /\ c \in Followed => OneWrite(c) /\ RoomsFollow(c)
RoomInv == \A c \in Conns : RoomOK(c)

\* A step that leaves what the directory and the node hold of a connection alone ...
SameRooms(c) ==
  /\ registered'[c] = registered[c] /\ deferred'[c] = deferred[c] /\ rooms'[c] = rooms[c]
  /\ snapshot'[c] = snapshot[c] /\ descriptor'[c] = descriptor[c]
  /\ \A r \in Rooms : c \in inRoom'[r] <=> c \in inRoom[r]
  /\ c \in Followed' => c \in Followed
  /\ Running(NodeOf[c])' => Running(NodeOf[c])
\* ... and neither issues, executes nor handles anything of it.
SamePipe(c) ==
  /\ PipedSets(c)' = PipedSets(c) /\ PipedWrites(c)' = PipedWrites(c)
  /\ Single(pipe[NodeOf[c]], WritesOf(c)) => Single(pipe'[NodeOf[c]], WritesOf(c))
SameAnswers(c) ==
  /\ AnsweredWrites(c)' = AnsweredWrites(c)
  /\ Single(answers[NodeOf[c]], WriteAnswers(c)) => Single(answers'[NodeOf[c]], WriteAnswers(c))

LEMMA Unmoved ==
  ASSUME NEW c \in Conns, RoomOK(c), SameRooms(c), SamePipe(c), SameAnswers(c)
  PROVE  RoomOK(c)'
  <1>1. WritesWait(c)'
    BY DEF RoomOK, WritesWait, SameRooms, SamePipe, SameAnswers
  <1>2. NotInRooms(c)'
    BY DEF RoomOK, NotInRooms, SameRooms, SamePipe
  <1>3. ASSUME c \in Followed'
        PROVE  OneWrite(c)'
    BY <1>3 DEF RoomOK, OneWrite, SameRooms, SamePipe, SameAnswers
  <1>4. ASSUME c \in Followed'
        PROVE  RoomsFollow(c)'
    <2>1. RoomsFollow(c) /\ SameRooms(c)
      BY <1>4 DEF RoomOK, SameRooms
    <2>2. /\ registered'[c] = registered[c] /\ deferred'[c] = deferred[c] /\ rooms'[c] = rooms[c]
          /\ snapshot'[c] = snapshot[c] /\ descriptor'[c] = descriptor[c]
          /\ \A r \in Rooms : c \in inRoom'[r] <=> c \in inRoom[r]
          /\ PipedSets(c)' = PipedSets(c) /\ PipedWrites(c)' = PipedWrites(c)
          /\ AnsweredWrites(c)' = AnsweredWrites(c)
      BY DEF SameRooms, SamePipe, SameAnswers
    <2> QED
      BY <2>1, <2>2 DEF RoomsFollow
  <1> QED
    BY <1>1, <1>2, <1>3, <1>4 DEF RoomOK

LEMMA SentElsewhere ==
  ASSUME TypeOK, Queues, NEW n \in Nodes, NEW cmds \in Seq(Asked(n)), Send(n, cmds),
         NEW c \in Conns, \A m \in Elems(cmds) : m \notin SetsOf(c) /\ m \notin WritesOf(c)
  PROVE  SamePipe(c)
  <1>1. /\ \A k \in Nodes : k # n => pipe'[k] = pipe[k]
        /\ Elems(pipe'[n]) = Elems(pipe[n]) \cup Elems(cmds)
        /\ \A T : Single(pipe[n], T) /\ Elems(cmds) \cap T = {} => Single(pipe'[n], T)
    BY Sent
  <1>2. NodeOf[c] \in Nodes
    BY PresenceConstants
  <1>3. Elems(cmds) \cap WritesOf(c) = {} /\ Elems(cmds) \cap SetsOf(c) = {}
    OBVIOUS
  <1>4. CASE NodeOf[c] = n
    BY <1>1, <1>3, <1>4 DEF SamePipe, PipedSets, PipedWrites
  <1>5. CASE NodeOf[c] # n
    BY <1>1, <1>2, <1>5 DEF SamePipe, PipedSets, PipedWrites
  <1> QED
    BY <1>4, <1>5

LEMMA ExecutedElsewhere ==
  ASSUME TypeOK, Queues, NEW n \in Nodes, pipe[n] # <<>>, Executed(n), NEW c \in Conns,
         Head(pipe[n]) \notin SetsOf(c), Head(pipe[n]) \notin WritesOf(c)
  PROVE  SamePipe(c)
  <1>1. /\ \A k \in Nodes : k # n => pipe'[k] = pipe[k]
        /\ Elems(pipe[n]) = {Head(pipe[n])} \cup Elems(pipe'[n])
        /\ \A T : Single(pipe[n], T) => Single(pipe'[n], T)
    BY FirstExecuted
  <1>2. NodeOf[c] \in Nodes
    BY PresenceConstants
  <1>4. CASE NodeOf[c] = n
    BY <1>1, <1>4 DEF SamePipe, PipedSets, PipedWrites
  <1>5. CASE NodeOf[c] # n
    BY <1>1, <1>2, <1>5 DEF SamePipe, PipedSets, PipedWrites
  <1> QED
    BY <1>4, <1>5

LEMMA RepliedElsewhere ==
  ASSUME TypeOK, Queues, NEW n \in Nodes, NEW found, NEW c \in Conns,
         \/ UNCHANGED answers
         \/ [to |-> Head(pipe[n]), found |-> found] \in Given(n) /\ Reply(n, found),
         Head(pipe[n]) \notin WritesOf(c)
  PROVE  SameAnswers(c)
  <1>1. NodeOf[c] \in Nodes
    BY PresenceConstants
  <1>2. CASE UNCHANGED answers
    BY <1>2 DEF SameAnswers, AnsweredWrites
  <1>3. CASE [to |-> Head(pipe[n]), found |-> found] \in Given(n) /\ Reply(n, found)
    <2> PICK a : a = [to |-> Head(pipe[n]), found |-> found]
      OBVIOUS
    <2>1. a \notin WriteAnswers(c)
      BY DEF WriteAnswers
    <2>2. /\ \A k \in Nodes : k # n => answers'[k] = answers[k]
          /\ ~ Running(n) => answers' = answers
          /\ Running(n) => /\ Elems(answers'[n]) = Elems(answers[n]) \cup {a}
                           /\ \A T : Single(answers[n], T) /\ a \notin T => Single(answers'[n], T)
      BY <1>3, Replied
    <2>3. CASE NodeOf[c] = n
      BY <2>1, <2>2, <2>3 DEF SameAnswers, AnsweredWrites
    <2>4. CASE NodeOf[c] # n
      BY <1>1, <2>2, <2>4 DEF SameAnswers, AnsweredWrites
    <2> QED
      BY <2>3, <2>4
  <1> QED
    BY <1>2, <1>3

LEMMA HandledElsewhere ==
  ASSUME TypeOK, Queues, NEW n \in Nodes, answers[n] # <<>>, Handled(n), NEW c \in Conns,
         Head(answers[n]) \notin WriteAnswers(c)
  PROVE  SameAnswers(c)
  <1>1. /\ \A k \in Nodes : k # n => answers'[k] = answers[k]
        /\ Elems(answers[n]) = {Head(answers[n])} \cup Elems(answers'[n])
        /\ \A T : Single(answers[n], T) => Single(answers'[n], T)
    BY FirstHandled
  <1>2. NodeOf[c] \in Nodes
    BY PresenceConstants
  <1>3. CASE NodeOf[c] = n
    BY <1>1, <1>3 DEF SameAnswers, AnsweredWrites
  <1>4. CASE NodeOf[c] # n
    BY <1>1, <1>2, <1>4 DEF SameAnswers, AnsweredWrites
  <1> QED
    BY <1>3, <1>4

LEMMA NothingElsewhere ==
  ASSUME NEW c \in Conns
  PROVE  (UNCHANGED pipe => SamePipe(c)) /\ (UNCHANGED answers => SameAnswers(c))
  BY DEF SamePipe, SameAnswers, PipedSets, PipedWrites, AnsweredWrites

\* A queue without a member of T holds one in one place at most.
LEMMA NoneIsSingle ==
  ASSUME NEW q, NEW T, Elems(q) \cap T = {}
  PROVE  Single(q, T)
  BY DEF Elems, Single

LEMMA SetPipedIsPiped ==
  ASSUME NEW c \in Conns
  PROVE  /\ SetPiped(c) <=> PipedSets(c) # {}
         /\ SetPiped(c)' <=> PipedSets(c)' # {}
  BY DEF SetPiped, PipedSets

LEMMA InFlightWrites ==
  ASSUME NEW c \in Conns
  PROVE  /\ \A m \in PipedWrites(c) : m \in InFlight(NodeOf[c]) /\ m.conn = c /\ m.of \in RoomWrites
         /\ \A a \in AnsweredWrites(c) :
              a.to \in InFlight(NodeOf[c]) /\ a.to.conn = c /\ a.to.of \in RoomWrites
         /\ \A m \in PipedSets(c) :
              m \in InFlight(NodeOf[c]) /\ m.conn = c /\ m.op = "set"
  BY DEF PipedWrites, AnsweredWrites, PipedSets, InFlight, WritesOf, WriteAnswers, SetsOf
-----------------------------------------------------------------------------
(* Each step keeps the rooms where the invariant has them.                 *)

LEMMA RoomsClose ==
  ASSUME DirInv, RoomInv, NEW n \in Nodes, Close(n)
  PROVE  RoomInv'
  <1>0. TypeOK /\ Queues
    BY DEF DirInv
  <1>1. PICK m \in Asked(n) : Send(n, <<m>>) /\ m.of = "clearNode"
    BY NodeCommandAsked DEF Close, NodeCommand
  <1>2. <<m>> \in Seq(Asked(n)) /\ Elems(<<m>>) = {m} /\ m.op # "set" /\ UNCHANGED answers
    BY <1>1, OneElem DEF Close, Asked
  <1> SUFFICES ASSUME NEW c \in Conns
               PROVE  RoomOK(c)'
    BY DEF RoomInv
  <1>3. m \notin SetsOf(c) /\ m \notin WritesOf(c)
    BY <1>1, <1>2 DEF SetsOf, WritesOf, RoomWrites
  <1>4. SamePipe(c) /\ SameAnswers(c)
    BY <1>0, <1>1, <1>2, <1>3, SentElsewhere, NothingElsewhere
  <1>5. SameRooms(c)
    BY <1>0, PresenceConstants DEF Close, redis, SameRooms, Followed, Running, TypeOK
  <1> QED
    BY <1>4, <1>5, Unmoved DEF RoomInv

LEMMA RoomsAliveExpires ==
  ASSUME RoomInv, NEW n \in Nodes, AliveExpires(n)
  PROVE  RoomInv'
  <1> SUFFICES ASSUME NEW c \in Conns
               PROVE  RoomOK(c)'
    BY DEF RoomInv
  <1>1. SamePipe(c) /\ SameAnswers(c)
    BY NothingElsewhere DEF AliveExpires
  <1>2. SameRooms(c)
    BY DEF AliveExpires, server, SameRooms, Followed, Running
  <1> QED
    BY <1>1, <1>2, Unmoved DEF RoomInv

LEMMA RoomsDown ==
  ASSUME DirInv, RoomInv, NEW n \in Nodes, Down(n), UNCHANGED redis,
         pipe' = [pipe EXCEPT ![n] = <<>>] \/ UNCHANGED pipe
  PROVE  RoomInv'
  <1>0. TypeOK /\ PresenceConstants
    BY PresenceConstants DEF DirInv
  <1> SUFFICES ASSUME NEW c \in Conns
               PROVE  RoomOK(c)'
    BY DEF RoomInv
  <1>1. CASE NodeOf[c] = n
    <2>1. ~ Running(NodeOf[c])' /\ registered'[c] = "none" /\ node'[NodeOf[c]] = "down"
      BY <1>0, <1>1 DEF Down, Forget, Running, TypeOK
    <2> QED
      BY <2>1 DEF RoomOK, WritesWait, NotInRooms, Followed
  <1>2. CASE NodeOf[c] # n
    <2>1. pipe'[NodeOf[c]] = pipe[NodeOf[c]] /\ answers'[NodeOf[c]] = answers[NodeOf[c]]
      BY <1>0, <1>2 DEF Down, TypeOK
    <2>2. SamePipe(c) /\ SameAnswers(c)
      BY <2>1 DEF SamePipe, SameAnswers, PipedSets, PipedWrites, AnsweredWrites
    <2>3. SameRooms(c)
      BY <1>0, <1>2 DEF Down, Forget, redis, SameRooms, Followed, Running, TypeOK
    <2> QED
      BY <2>2, <2>3, Unmoved DEF RoomInv
  <1> QED
    BY <1>1, <1>2

LEMMA RoomsExecuteMembers ==
  ASSUME DirInv, RoomInv, NEW n \in Nodes, ExecuteMembers(n) \/ ExecuteWipe(n)
  PROVE  RoomInv'
  <1>0. TypeOK /\ Queues
    BY DEF DirInv
  <1>1. pipe[n] # <<>> /\ Head(pipe[n]).op \in {"members", "wipe"} /\ Executed(n)
    BY DEF ExecuteMembers, ExecuteWipe, Executes
  <1>2. Head(pipe[n]) \in Asked(n) /\ Head(pipe[n]).of = "clearNode"
    BY <1>0, <1>1, FirstExecuted DEF Asked
  <1>3. PICK found : Reply(n, found) /\ [to |-> Head(pipe[n]), found |-> found] \in Given(n)
    <2>1. CASE ExecuteMembers(n)
      <3>1. Head(pipe[n]).op = "members" /\ Reply(n, {c \in index : NodeOf[c] = n})
        BY <2>1 DEF ExecuteMembers, Executes
      <3>2. {c \in index : NodeOf[c] = n} \in SUBSET Own(n) /\ Own(n) \subseteq Conns
        BY <1>0 DEF Own, TypeOK
      <3>3. [to |-> Head(pipe[n]), found |-> {c \in index : NodeOf[c] = n}] \in Given(n)
        BY <1>2, <3>1, <3>2, MembersGiven
      <3> QED
        BY <3>1, <3>3
    <2>2. CASE ExecuteWipe(n)
      <3>1. Head(pipe[n]).op = "wipe" /\ Reply(n, {})
        BY <2>2 DEF ExecuteWipe, Executes
      <3> QED
        BY <1>2, <3>1 DEF Given, Answer, Asked
    <2> QED
      BY <2>1, <2>2
  <1> SUFFICES ASSUME NEW c \in Conns
               PROVE  RoomOK(c)'
    BY DEF RoomInv
  <1>4. Head(pipe[n]) \notin SetsOf(c) /\ Head(pipe[n]) \notin WritesOf(c)
    BY <1>1, <1>2 DEF SetsOf, WritesOf, RoomWrites
  <1>5. SamePipe(c) /\ SameAnswers(c)
    BY <1>0, <1>1, <1>3, <1>4, ExecutedElsewhere, RepliedElsewhere
  <1>6. SameRooms(c)
    BY DEF ExecuteMembers, ExecuteWipe, redis, server, SameRooms, Followed, Running
  <1> QED
    BY <1>5, <1>6, Unmoved DEF RoomInv

\* The commands of clearNode move no connection's rooms, but a connection whose descriptor a
\* deletion drops is closed, or its node closes.
LEMMA RoomsExecuteDrop ==
  ASSUME DirInv, RoomInv, NEW n \in Nodes, ExecuteDrop(n)
  PROVE  RoomInv'
  <1>0. TypeOK /\ Queues /\ PresenceConstants
    BY PresenceConstants DEF DirInv
  <1>1. pipe[n] # <<>> /\ Head(pipe[n]).op = "drop" /\ Executed(n)
    BY DEF ExecuteDrop, Executes
  <1>2. Head(pipe[n]) \in Asked(n) /\ Head(pipe[n]) \in InFlight(n)
    BY <1>0, <1>1, FirstExecuted DEF InFlight
  <1>3. UNCHANGED answers \/ ([to |-> Head(pipe[n]), found |-> {}] \in Given(n) /\ Reply(n, {}))
    BY <1>1, <1>2 DEF ExecuteDrop, Given, Answer, Asked
  <1> PICK d \in Conns : d = Head(pipe[n]).conn
    BY <1>1, <1>2 DEF Asked, Own
  <1>4. Head(pipe[n]).of \in {"del", "clearNode"} /\ NodeOf[d] = n
    BY <1>1, <1>2 DEF Asked, Command, RoomWrites, Own
  <1>5. d \notin Followed
    BY <1>2, <1>4 DEF DirInv, Followed, UpIsNotCleared, OpenIsNotDeleted, OpenIsAccepted
  <1>6. /\ \A c \in Conns : c # d => descriptor'[c] = descriptor[c]
        /\ \A r \in Rooms, c \in Conns : c # d => (c \in inRoom'[r] <=> c \in inRoom[r])
        /\ \A r \in Rooms : inRoom'[r] \subseteq inRoom[r]
        /\ UNCHANGED <<server, overlap>>
    BY <1>0 DEF ExecuteDrop, TypeOK
  <1> SUFFICES ASSUME NEW c \in Conns
               PROVE  RoomOK(c)'
    BY DEF RoomInv
  <1>7. Head(pipe[n]) \notin SetsOf(c) /\ Head(pipe[n]) \notin WritesOf(c)
    BY <1>1, <1>4 DEF SetsOf, WritesOf, RoomWrites
  <1>8. SamePipe(c) /\ SameAnswers(c)
    BY <1>0, <1>1, <1>3, <1>7, ExecutedElsewhere, RepliedElsewhere
  <1>9. CASE c # d
    <2>1. SameRooms(c)
      BY <1>6, <1>9 DEF server, SameRooms, Followed, Running
    <2> QED
      BY <1>8, <2>1, Unmoved DEF RoomInv
  <1>10. CASE c = d
    <2>1. RoomOK(c)
      BY DEF RoomInv
    <2>2. WritesWait(c)' /\ NotInRooms(c)' /\ c \notin Followed'
      BY <1>5, <1>6, <1>8, <1>10, <2>1
         DEF server, SamePipe, SameAnswers, RoomOK, WritesWait, NotInRooms, Followed, Running
    <2> QED
      BY <2>2 DEF RoomOK
  <1> QED
    BY <1>9, <1>10

LEMMA RoomsClearNode ==
  ASSUME DirInv, RoomInv, NEW n \in Nodes, ClearNode(n)
  PROVE  RoomInv'
  <1>0. TypeOK /\ Queues
    BY DEF DirInv
  <1>1. answers[n] # <<>> /\ Handled(n)
    BY DEF ClearNode, First
  <1>2. Head(answers[n]) \in Given(n) /\ Head(answers[n]).to.of = "clearNode"
    <2>1. Head(answers[n]) \in Given(n)
      BY <1>0, <1>1, FirstHandled
    <2> QED
      BY <2>1 DEF Given, Asked, ClearNode, First
  <1>3. PICK cmds \in Seq(Asked(n)) :
          /\ Send(n, cmds)
          /\ \A m \in Elems(cmds) : m.op # "set" /\ m.of = "clearNode"
    BY <1>0, <1>2, ClearIssued
  <1> SUFFICES ASSUME NEW c \in Conns
               PROVE  RoomOK(c)'
    BY DEF RoomInv
  <1>4. /\ \A m \in Elems(cmds) : m \notin SetsOf(c) /\ m \notin WritesOf(c)
        /\ Head(answers[n]) \notin WriteAnswers(c)
    BY <1>2, <1>3 DEF SetsOf, WritesOf, WriteAnswers, RoomWrites
  <1>5. SamePipe(c) /\ SameAnswers(c)
    BY <1>0, <1>1, <1>3, <1>4, SentElsewhere, HandledElsewhere
  <1>6. SameRooms(c)
    BY DEF ClearNode, redis, SameRooms, Followed, Running
  <1> QED
    BY <1>5, <1>6, Unmoved DEF RoomInv

LEMMA RoomsAccept ==
  ASSUME DirInv, RoomInv, NEW c \in Conns, NEW rs \in SUBSET Rooms, Accept(c, rs)
  PROVE  RoomInv'
  <1>0. TypeOK /\ PresenceConstants
    BY PresenceConstants DEF DirInv
  <1> SUFFICES ASSUME NEW d \in Conns
               PROVE  RoomOK(d)'
    BY DEF RoomInv
  <1>1. SamePipe(d) /\ SameAnswers(d)
    BY NothingElsewhere DEF Accept
  <1>2. CASE d # c
    <2>1. SameRooms(d)
      BY <1>0, <1>2 DEF Accept, redis, SameRooms, Followed, Running, TypeOK
    <2> QED
      BY <1>1, <2>1, Unmoved DEF RoomInv
  <1>3. CASE d = c
    <2>1. /\ registered[c] = "none" /\ registered'[c] = "joining" /\ Running(NodeOf[c])
          /\ rooms'[c] = rs /\ snapshot'[c] = rs /\ deferred'[c] = <<>>
          /\ inRoom' = inRoom /\ descriptor' = descriptor
      BY <1>0 DEF Accept, redis, Running, TypeOK, DirInv, OpenIsAccepted
    <2>2. /\ PipedWrites(c)' = {} /\ AnsweredWrites(c)' = {}
          /\ \A r \in Rooms : c \notin inRoom'[r]
      BY <1>1, <1>3, <2>1 DEF RoomInv, RoomOK, WritesWait, NotInRooms, SamePipe, SameAnswers
    <2>3. PipedSets(c)' = {}
      <3>1. PipedSets(c) = {}
        BY <2>1, InFlightWrites DEF DirInv, Unannounced
      <3> QED
        BY <3>1, <1>1, <1>3 DEF SamePipe
    <2>4. Single(pipe'[NodeOf[c]], WritesOf(c)) /\ Single(answers'[NodeOf[c]], WriteAnswers(c))
      BY <2>2, NoneIsSingle DEF PipedWrites, AnsweredWrites
    <2>5. OneWrite(c)' /\ WritesWait(c)' /\ NotInRooms(c)'
      BY <2>1, <2>2, <2>4 DEF OneWrite, WritesWait, NotInRooms
    <2>6. RoomsFollow(c)'
      BY <2>1, <2>2, <2>3 DEF RoomsFollow, After
    <2> QED
      BY <1>3, <2>5, <2>6 DEF RoomOK
  <1> QED
    BY <1>2, <1>3

LEMMA RoomsReachable ==
  ASSUME DirInv, RoomInv, NEW c \in Conns, Reachable(c)
  PROVE  RoomInv'
  <1>0. TypeOK /\ Queues /\ PresenceConstants /\ NodeOf[c] \in Nodes
    BY PresenceConstants DEF DirInv
  <1>1. PICK m \in Asked(NodeOf[c]) :
          /\ Send(NodeOf[c], <<m>>)
          /\ m.op = "set" /\ m.of = "set" /\ m.conn = c /\ m.rooms = snapshot[c]
    <2>1. PICK m \in Asked(NodeOf[c]) :
            /\ m = [op |-> "set", of |-> "set", conn |-> c, room |-> NoRoom, rooms |-> snapshot[c]]
            /\ Send(NodeOf[c], <<m>>)
      BY <1>0 DEF Reachable, Announce, Asked, Command, Own, RoomWrites, TypeOK
    <2> QED
      BY <2>1
  <1>2. <<m>> \in Seq(Asked(NodeOf[c])) /\ Elems(<<m>>) = {m} /\ UNCHANGED answers
    BY OneElem DEF Reachable
  <1> SUFFICES ASSUME NEW d \in Conns
               PROVE  RoomOK(d)'
    BY DEF RoomInv
  <1>3. SameAnswers(d)
    BY <1>2, NothingElsewhere
  <1>4. CASE d # c
    <2>1. m \notin SetsOf(d) /\ m \notin WritesOf(d)
      BY <1>1, <1>4 DEF SetsOf, WritesOf
    <2>2. SamePipe(d)
      BY <1>0, <1>1, <1>2, <2>1, SentElsewhere
    <2>3. SameRooms(d)
      BY <1>0, <1>4 DEF Reachable, redis, SameRooms, Followed, Running, TypeOK
    <2> QED
      BY <1>3, <2>2, <2>3, Unmoved DEF RoomInv
  <1>5. CASE d = c
    <2>1. /\ registered[c] = "joining" /\ registered'[c] = "setting" /\ Running(NodeOf[c])
          /\ rooms'[c] = rooms[c] /\ deferred'[c] = deferred[c]
          /\ inRoom' = inRoom /\ descriptor' = descriptor /\ UNCHANGED <<node, open, overlap>>
      BY <1>0 DEF Reachable, redis, Running, TypeOK
    <2>2. PipedSets(c) = {}
      BY <2>1, InFlightWrites DEF DirInv, Unannounced
    <2>3. PipedWrites(c) = {} /\ AnsweredWrites(c) = {} /\ \A r \in Rooms : c \notin inRoom[r]
      BY <2>1 DEF RoomInv, RoomOK, WritesWait, NotInRooms
    <2>4. Elems(pipe'[NodeOf[c]]) = Elems(pipe[NodeOf[c]]) \cup {m}
      BY <1>0, <1>1, SentOne
    <2>5. PipedSets(c)' = {m} /\ PipedWrites(c)' = {} /\ AnsweredWrites(c)' = {}
      <3>1. m \in SetsOf(c) /\ m \notin WritesOf(c)
        BY <1>1 DEF SetsOf, WritesOf, RoomWrites, Asked
      <3>2. PipedSets(c)' = {m}
        BY <2>2, <2>4, <3>1 DEF PipedSets
      <3>3. PipedWrites(c)' = {}
        BY <2>3, <2>4, <3>1 DEF PipedWrites
      <3> QED
        BY <1>3, <1>5, <2>3, <3>2, <3>3 DEF SameAnswers
    <2>6. Single(pipe'[NodeOf[c]], WritesOf(c)) /\ Single(answers'[NodeOf[c]], WriteAnswers(c))
      BY <2>5, NoneIsSingle DEF PipedWrites, AnsweredWrites
    <2>7. OneWrite(c)' /\ WritesWait(c)' /\ NotInRooms(c)'
      BY <2>1, <2>3, <2>5, <2>6 DEF OneWrite, WritesWait, NotInRooms
    <2>8. ASSUME c \in Followed'
          PROVE  RoomsFollow(c)'
      <3>1. RoomsFollow(c)
        BY <2>1, <2>8 DEF Followed, RoomInv, RoomOK
      <3>2. After(deferred[c], snapshot[c], rooms[c])
        BY <2>1, <3>1 DEF RoomsFollow
      <3> QED
        BY <1>1, <2>1, <2>5, <3>2 DEF RoomsFollow
    <2> QED
      BY <1>5, <2>7, <2>8 DEF RoomOK
  <1> QED
    BY <1>4, <1>5

LEMMA RoomsSocketClosed ==
  ASSUME DirInv, RoomInv, NEW c \in Conns, SocketClosed(c)
  PROVE  RoomInv'
  <1>0. TypeOK /\ Queues /\ PresenceConstants /\ NodeOf[c] \in Nodes
    BY PresenceConstants DEF DirInv
  <1>1. PICK cmds \in Seq(Asked(NodeOf[c])) :
          /\ Send(NodeOf[c], cmds)
          /\ \A m \in Elems(cmds) : /\ m.conn = c /\ m.op = "get" /\ m.of # "clearNode"
                                    /\ m.of = "del" \/ registered[c] = "done"
    BY <1>0, CloseIssued
  <1>2. /\ \A d \in Conns : d # c => deferred'[d] = deferred[d]
        /\ registered[c] = "done" => deferred'[c] = deferred[c]
    BY <1>0, CloseIssued
  <1> SUFFICES ASSUME NEW d \in Conns
               PROVE  RoomOK(d)'
    BY DEF RoomInv
  <1>3. SameAnswers(d)
    BY NothingElsewhere DEF SocketClosed
  <1>4. CASE d # c
    <2>1. \A m \in Elems(cmds) : m \notin SetsOf(d) /\ m \notin WritesOf(d)
      BY <1>1, <1>4 DEF SetsOf, WritesOf
    <2>2. SamePipe(d)
      BY <1>0, <1>1, <2>1, SentElsewhere
    <2>3. SameRooms(d)
      BY <1>0, <1>2, <1>4 DEF SocketClosed, redis, SameRooms, Followed, Running, TypeOK
    <2> QED
      BY <1>3, <2>2, <2>3, Unmoved DEF RoomInv
  <1>5. CASE d = c
    <2>1. c \notin Followed' /\ UNCHANGED <<registered, inRoom, node>>
      BY DEF SocketClosed, redis, Followed
    <2>2. PipedSets(c)' = PipedSets(c)
      <3>1. Elems(pipe'[NodeOf[c]]) = Elems(pipe[NodeOf[c]]) \cup Elems(cmds)
        BY <1>0, <1>1, Sent
      <3>2. \A m \in Elems(cmds) : m \notin SetsOf(c)
        BY <1>1 DEF SetsOf
      <3> QED
        BY <3>1, <3>2 DEF PipedSets
    <2>3. WritesWait(c) /\ NotInRooms(c)
      BY DEF RoomInv, RoomOK
    <2>4. NotInRooms(c)'
      BY <2>1, <2>2, <2>3 DEF NotInRooms, Running
    <2>5. WritesWait(c)'
      <3>1. CASE registered[c] = "done"
        BY <1>2, <2>1, <2>3, <3>1 DEF WritesWait
      <3>2. CASE registered[c] # "done"
        <4>1. \A m \in Elems(cmds) : m \notin SetsOf(c) /\ m \notin WritesOf(c)
          BY <1>1, <3>2 DEF SetsOf, WritesOf, RoomWrites
        <4>2. SamePipe(c)
          BY <1>0, <1>1, <4>1, SentElsewhere
        <4> QED
          BY <1>3, <1>5, <2>1, <2>3, <3>2, <4>2 DEF WritesWait, SamePipe, SameAnswers, Running
      <3> QED
        BY <3>1, <3>2
    <2> QED
      BY <1>5, <2>1, <2>4, <2>5 DEF RoomOK
  <1> QED
    BY <1>4, <1>5

LEMMA SettledWrites ==
  ASSUME TypeOK, Queues, NEW c \in Conns, ~ Unsettled(c)
  PROVE  deferred[c] = <<>> /\ PipedWrites(c) = {} /\ AnsweredWrites(c) = {}
  <1>1. /\ NodeOf[c] \in Nodes /\ pipe[NodeOf[c]] \in Seq(Command)
        /\ answers[NodeOf[c]] \in Seq(Answer)
    BY PresenceConstants DEF TypeOK
  <1>2. /\ DOMAIN pipe[NodeOf[c]] = 1..Len(pipe[NodeOf[c]])
        /\ DOMAIN answers[NodeOf[c]] = 1..Len(answers[NodeOf[c]])
    BY <1>1
  <1>3. PipedWrites(c) = {}
    BY <1>2 DEF Unsettled, PipedWrites, WritesOf, Elems
  <1>4. AnsweredWrites(c) = {}
    BY <1>2 DEF Unsettled, AnsweredWrites, WriteAnswers, WritesOf, Elems
  <1> QED
    BY <1>3, <1>4 DEF Unsettled

LEMMA OneGet ==
  ASSUME NEW c \in Conns, NEW w \in RoomWrite
  PROVE  \E m \in Asked(NodeOf[c]) :
           /\ Gets(c, <<w>>) = <<m>> /\ Elems(<<m>>) = {m} /\ <<m>> \in Seq(Asked(NodeOf[c]))
           /\ m.op = "get" /\ m.of = w.of /\ m.conn = c /\ m.room = w.room /\ m.of \in RoomWrites
  <1>1. w.of \in RoomWrites /\ w.room \in Rooms
    BY DEF RoomWrite, RoomWrites
  <1>2. PICK m \in Asked(NodeOf[c]) : m = Get(w.of, c, w.room)
    BY <1>1, GetAsked DEF RoomWrites
  <1>3. Gets(c, <<w>>) = <<m>>
    BY <1>2 DEF Gets
  <1>4. Elems(<<m>>) = {m} /\ <<m>> \in Seq(Asked(NodeOf[c]))
    BY OneElem
  <1> QED
    BY <1>1, <1>2, <1>3, <1>4 DEF Get

LEMMA NothingAfter ==
  ASSUME NEW before, NEW after, After(<<>>, before, after)
  PROVE  after = before
  <1>1. \A w : <<w>> # <<>>
    OBVIOUS
  <1> QED
    BY <1>1 DEF After

\* A room write of a connection that has none under way.
LEMMA RoomsMove ==
  ASSUME DirInv, RoomInv, NEW c \in Conns, NEW w \in RoomWrite, AfterRegistered(c, <<w>>),
         registered[c] # "none", Running(NodeOf[c]),
         rooms' = [rooms EXCEPT ![c] = Effect(w, rooms[c])],
         overlap' = IF Unsettled(c) THEN overlap \cup {c} ELSE overlap,
         UNCHANGED <<node, open, registered, snapshot, answers, redis>>
  PROVE  RoomInv'
  <1>0. TypeOK /\ Queues /\ PresenceConstants /\ NodeOf[c] \in Nodes
    BY PresenceConstants DEF DirInv
  <1> PICK g \in Asked(NodeOf[c]) :
        /\ Gets(c, <<w>>) = <<g>> /\ Elems(<<g>>) = {g} /\ <<g>> \in Seq(Asked(NodeOf[c]))
        /\ g.op = "get" /\ g.of = w.of /\ g.conn = c /\ g.room = w.room /\ g.of \in RoomWrites
    BY OneGet
  <1>1. g \in WritesOf(c)
    BY DEF WritesOf, Asked
  <1>2. \/ registered[c] = "done" /\ Send(NodeOf[c], <<g>>) /\ UNCHANGED deferred
        \/ /\ registered[c] # "done" /\ UNCHANGED pipe
           /\ deferred' = [deferred EXCEPT ![c] = @ \o <<w>>]
    BY DEF AfterRegistered
  <1>3. UNCHANGED <<descriptor, inRoom>>
    BY DEF redis
  <1> SUFFICES ASSUME NEW d \in Conns
               PROVE  RoomOK(d)'
    BY DEF RoomInv
  <1>4. SameAnswers(d)
    BY NothingElsewhere
  <1>5. CASE d # c
    <2>1. g \notin SetsOf(d) /\ g \notin WritesOf(d)
      BY <1>5 DEF SetsOf, WritesOf
    <2>2. SamePipe(d)
      BY <1>0, <1>2, <2>1, SentElsewhere, NothingElsewhere
    <2>3. SameRooms(d)
      BY <1>0, <1>2, <1>3, <1>5 DEF SameRooms, Followed, Running, TypeOK
    <2> QED
      BY <1>4, <2>2, <2>3, Unmoved DEF RoomInv
  <1>6. CASE d = c
    <2>1. RoomOK(c) /\ (c \in Followed' => c \in Followed /\ ~ Unsettled(c))
      BY DEF RoomInv, Followed
    <2>2. c \in Followed' => deferred[c] = <<>> /\ PipedWrites(c) = {} /\ AnsweredWrites(c) = {}
      BY <1>0, <2>1, SettledWrites
    <2>3. rooms'[c] = Effect(w, rooms[c])
      BY <1>0 DEF TypeOK
    <2>4. CASE registered[c] = "done"
      <3>1. /\ Elems(pipe'[NodeOf[c]]) = Elems(pipe[NodeOf[c]]) \cup {g}
            /\ \A T : Elems(pipe[NodeOf[c]]) \cap T = {} => Single(pipe'[NodeOf[c]], T)
        BY <1>0, <1>2, <2>4, SentOne
      <3>2. PipedSets(c)' = PipedSets(c) /\ PipedSets(c) = {}
        <4>1. g \notin SetsOf(c)
          BY DEF SetsOf
        <4>2. ~ SetPiped(c)
          BY <2>4 DEF DirInv, SetOnce
        <4> QED
          BY <3>1, <4>1, <4>2, SetPipedIsPiped DEF PipedSets
      <3>3. WritesWait(c)' /\ NotInRooms(c)'
        BY <1>2, <1>3, <2>1, <2>4, <3>2 DEF RoomOK, WritesWait, NotInRooms, Running
      <3>4. ASSUME c \in Followed'
            PROVE  OneWrite(c)' /\ RoomsFollow(c)'
        <4>1. PipedWrites(c)' = {g} /\ AnsweredWrites(c)' = {}
          BY <1>1, <1>4, <1>6, <2>2, <3>1, <3>4 DEF PipedWrites, SameAnswers
        <4>2. Single(pipe'[NodeOf[c]], WritesOf(c))
          BY <2>2, <3>1, <3>4 DEF PipedWrites
        <4>3. OneWrite(c)'
          BY <1>4, <1>6, <2>1, <3>4, <4>1, <4>2 DEF OneWrite, SameAnswers, RoomOK
        <4>4. RoomsFollow(c)
          BY <2>1, <3>4 DEF RoomOK
        <4>5. /\ rooms[c] = descriptor[c]
              /\ \A r \in Rooms : c \in inRoom[r] <=> r \in descriptor[c]
          BY <2>2, <2>4, <3>2, <3>4, <4>4 DEF RoomsFollow, After
        <4>6. rooms'[c] = Effect(g, descriptor[c])
          BY <2>3, <4>5 DEF Effect
        <4>7. registered'[c] = "done" /\ PipedSets(c)' = {}
          BY <2>4, <3>2
        <4> QED
          BY <1>3, <4>1, <4>3, <4>5, <4>6, <4>7 DEF RoomsFollow
      <3> QED
        BY <1>6, <3>3, <3>4 DEF RoomOK
    <2>5. CASE registered[c] # "done"
      <3>1. SamePipe(c) /\ UNCHANGED pipe
        BY <1>2, <2>5, NothingElsewhere
      <3>2. deferred'[c] = deferred[c] \o <<w>> /\ registered'[c] = registered[c]
        BY <1>0, <1>2, <2>5 DEF TypeOK
      <3>3. WritesWait(c)' /\ NotInRooms(c)'
        BY <1>3, <1>4, <1>6, <2>1, <2>5, <3>1, <3>2
           DEF RoomOK, WritesWait, NotInRooms, Running, SamePipe, SameAnswers
      <3>4. ASSUME c \in Followed'
            PROVE  OneWrite(c)' /\ RoomsFollow(c)'
        <4>1. OneWrite(c)'
          BY <1>4, <1>6, <2>1, <3>1, <3>4 DEF OneWrite, SameAnswers, SamePipe, RoomOK
        <4>. deferred[c] = <<>>
          BY <2>2, <3>4
        <4>2. deferred'[c] = <<w>>
          <5>1. <<w>> \in Seq(RoomWrite)
            OBVIOUS
          <5>2. <<>> \o <<w>> = <<w>>
            BY <5>1, ConcatEmptySeq
          <5> QED
            BY <3>2, <5>2
        <4>3. RoomsFollow(c)
          BY <2>1, <3>4 DEF RoomOK
        <4>4. \A before : After(deferred[c], before, rooms[c]) => rooms[c] = before
          BY NothingAfter
        <4>5. \A before : rooms[c] = before => After(<<w>>, before, rooms'[c])
          BY <2>3 DEF After
        <4>6. registered[c] = "joining" => After(<<w>>, snapshot[c], rooms'[c])
          BY <4>3, <4>4, <4>5 DEF RoomsFollow
        <4>7. \A m \in PipedSets(c) : After(<<w>>, m.rooms, rooms'[c])
          BY <4>3, <4>4, <4>5 DEF RoomsFollow
        <4>8. registered[c] \in {"setting", "done"} /\ PipedSets(c) = {} =>
                /\ \A r \in Rooms : c \in inRoom[r] <=> r \in descriptor[c]
                /\ After(<<w>>, descriptor[c], rooms'[c])
          BY <2>2, <3>4, <4>3, <4>4, <4>5 DEF RoomsFollow
        <4>9. PipedSets(c)' = PipedSets(c) /\ PipedWrites(c)' = {} /\ AnsweredWrites(c)' = {}
          BY <1>4, <1>6, <2>2, <3>1, <3>4 DEF SamePipe, SameAnswers
        <4>10. RoomsFollow(c)'
          BY <1>3, <3>2, <4>2, <4>6, <4>7, <4>8, <4>9 DEF RoomsFollow
        <4> QED
          BY <4>1, <4>10
      <3> QED
        BY <1>6, <3>3, <3>4 DEF RoomOK
    <2> QED
      BY <2>4, <2>5
  <1> QED
    BY <1>5, <1>6

LEMMA RoomsJoinRoom ==
  ASSUME DirInv, RoomInv, NEW c \in Conns, NEW r \in Rooms, JoinRoom(c, r) \/ LeaveRoom(c, r)
  PROVE  RoomInv'
  <1>1. ASSUME JoinRoom(c, r)
        PROVE  RoomInv'
    <2>1. PICK w \in RoomWrite : w = [of |-> "addRoom", room |-> r]
      BY DEF RoomWrite
    <2>2. rooms' = [rooms EXCEPT ![c] = Effect(w, rooms[c])]
      BY <1>1, <2>1 DEF JoinRoom, Effect
    <2> QED
      BY <1>1, <2>1, <2>2, RoomsMove DEF JoinRoom
  <1>2. ASSUME LeaveRoom(c, r)
        PROVE  RoomInv'
    <2>1. PICK w \in RoomWrite : w = [of |-> "removeRoom", room |-> r]
      BY DEF RoomWrite
    <2>2. rooms' = [rooms EXCEPT ![c] = Effect(w, rooms[c])]
      BY <1>2, <2>1 DEF LeaveRoom, Effect
    <2> QED
      BY <1>2, <2>1, <2>2, RoomsMove DEF LeaveRoom
  <1> QED
    BY <1>1, <1>2


LEMMA RoomsExecuteSet ==
  ASSUME DirInv, RoomInv, NEW n \in Nodes, ExecuteSet(n)
  PROVE  RoomInv'
  <1>0. TypeOK /\ Queues /\ PresenceConstants
    BY PresenceConstants DEF DirInv
  <1>1. pipe[n] # <<>> /\ Head(pipe[n]).op = "set" /\ Executed(n)
    BY DEF ExecuteSet, Executes
  <1> PICK h \in Asked(n) : h = Head(pipe[n])
    BY <1>0, <1>1, FirstExecuted
  <1> PICK c \in Conns : c = h.conn /\ NodeOf[c] = n
    BY <1>1 DEF Asked, Own
  <1> PICK rs \in SUBSET Rooms : rs = h.rooms
    BY DEF Asked, Command
  <1>2. /\ Elems(pipe[n]) = {h} \cup Elems(pipe'[n])
        /\ \A T : Single(pipe[n], T) => Single(pipe'[n], T)
        /\ \A T : Single(pipe[n], T) /\ h \in T => Elems(pipe'[n]) \cap T = {}
    BY <1>0, <1>1, FirstExecuted
  <1>3. [to |-> h, found |-> {}] \in Given(n) /\ Reply(n, {})
    BY <1>1 DEF ExecuteSet, Given, Answer, Asked, RoomWrites
  <1>4. /\ descriptor' = [descriptor EXCEPT ![c] = rs]
        /\ inRoom' = [r \in Rooms |-> IF r \in rs THEN inRoom[r] \cup {c} ELSE inRoom[r]]
        /\ UNCHANGED <<server, overlap>>
    BY DEF ExecuteSet
  <1>5. UNCHANGED <<node, open, registered, rooms, snapshot, deferred>>
    BY <1>4 DEF server
  <1>6. h.of = "set" /\ h \in SetsOf(c)
    BY <1>1 DEF Asked, SetsOf
  <1> SUFFICES ASSUME NEW d \in Conns
               PROVE  RoomOK(d)'
    BY DEF RoomInv
  <1>7. h \notin WritesOf(d)
    BY <1>6 DEF WritesOf, RoomWrites
  <1>8. SameAnswers(d)
    BY <1>0, <1>1, <1>3, <1>7, RepliedElsewhere
  <1>9. CASE d # c
    <2>1. h \notin SetsOf(d)
      BY <1>9 DEF SetsOf
    <2>2. SamePipe(d)
      BY <1>0, <1>1, <1>7, <2>1, ExecutedElsewhere
    <2>3. descriptor'[d] = descriptor[d] /\ \A r \in Rooms : d \in inRoom'[r] <=> d \in inRoom[r]
      BY <1>0, <1>4, <1>9 DEF TypeOK
    <2>4. SameRooms(d)
      BY <1>4, <1>5, <2>3 DEF SameRooms, Followed, Running
    <2> QED
      BY <1>8, <2>2, <2>4, Unmoved DEF RoomInv
  <1>10. CASE d = c
    <2>1. RoomOK(c)
      BY DEF RoomInv
    <2>2. h \in PipedSets(c) /\ PipedSets(c)' = {} /\ PipedWrites(c)' = PipedWrites(c)
      <3>1. Single(pipe[n], SetsOf(c))
        BY DEF DirInv, SetOnce
      <3>2. Elems(pipe'[n]) \cap SetsOf(c) = {}
        BY <1>2, <1>6, <3>1
      <3> QED
        BY <1>2, <1>6, <1>7, <1>10, <3>2 DEF PipedSets, PipedWrites
    <2>3. Running(n) => registered[c] = "setting"
      <3>1. Running(n) => registered[c] # "done"
        BY <2>2, SetPipedIsPiped DEF DirInv, SetOnce
      <3>2. Running(n) => registered[c] \notin {"none", "joining"}
        BY <2>2, InFlightWrites DEF DirInv, Unannounced
      <3> QED
        BY <1>0, <3>1, <3>2 DEF TypeOK
    <2>4. WritesWait(c)' /\ NotInRooms(c)'
      BY <1>5, <1>8, <1>10, <2>1, <2>2, <2>3
         DEF RoomOK, WritesWait, NotInRooms, SameAnswers, Running
    <2>5. ASSUME c \in Followed'
          PROVE  OneWrite(c)' /\ RoomsFollow(c)'
      <3>1. c \in Followed /\ Running(n) /\ OneWrite(c) /\ RoomsFollow(c)
        BY <1>4, <1>5, <2>1, <2>5 DEF Followed, Running, RoomOK
      <3>2. OneWrite(c)'
        BY <1>2, <1>8, <1>10, <2>2, <3>1 DEF OneWrite, SameAnswers
      <3>3. PipedWrites(c)' = {} /\ AnsweredWrites(c)' = {}
        BY <1>8, <1>10, <2>1, <2>2, <2>3, <3>1 DEF RoomOK, WritesWait, SameAnswers
      <3>4. \A r \in Rooms : c \notin inRoom[r]
        BY <2>1, <2>2, <3>1 DEF RoomOK, NotInRooms
      <3>5. descriptor'[c] = rs /\ \A r \in Rooms : c \in inRoom'[r] <=> r \in descriptor'[c]
        BY <1>0, <1>4, <3>4 DEF TypeOK
      <3>6. After(deferred[c], rs, rooms[c])
        BY <2>2, <3>1 DEF RoomsFollow
      <3> QED
        BY <1>5, <2>2, <2>3, <3>1, <3>2, <3>3, <3>5, <3>6 DEF RoomsFollow
    <2> QED
      BY <1>10, <2>4, <2>5 DEF RoomOK
  <1> QED
    BY <1>9, <1>10

\* A room write under way whose node runs is one of a registered connection.
LEMMA WritesAreOfRegistered ==
  ASSUME DirInv, RoomInv, NEW c \in Conns, Running(NodeOf[c]),
         PipedWrites(c) # {} \/ AnsweredWrites(c) # {}
  PROVE  registered[c] = "done" /\ deferred[c] = <<>> /\ PipedSets(c) = {}
  <1>1. registered[c] = "done" /\ deferred[c] = <<>>
    BY DEF RoomInv, RoomOK, WritesWait
  <1> QED
    BY <1>1, SetPipedIsPiped DEF DirInv, SetOnce

LEMMA RoomsExecuteGet ==
  ASSUME DirInv, RoomInv, NEW n \in Nodes, ExecuteGet(n)
  PROVE  RoomInv'
  <1>0. TypeOK /\ Queues /\ PresenceConstants
    BY PresenceConstants DEF DirInv
  <1>1. pipe[n] # <<>> /\ Head(pipe[n]).op = "get" /\ Executed(n)
    BY DEF ExecuteGet, Executes
  <1> PICK h \in Asked(n) : h = Head(pipe[n])
    BY <1>0, <1>1, FirstExecuted
  <1> PICK a : a = [to |-> h, found |-> descriptor[h.conn]]
    OBVIOUS
  <1>2. /\ Elems(pipe[n]) = {h} \cup Elems(pipe'[n])
        /\ \A T : Single(pipe[n], T) /\ h \in T => Elems(pipe'[n]) \cap T = {}
    BY <1>0, <1>1, FirstExecuted
  <1>3. a \in Given(n) /\ Reply(n, descriptor[h.conn])
    BY <1>0, <1>1 DEF ExecuteGet, Given, Answer, Asked, Own, TypeOK, RoomWrites
  <1>4. UNCHANGED <<node, open, registered, rooms, snapshot, deferred, descriptor, inRoom, overlap>>
    BY DEF ExecuteGet, server, redis
  <1> SUFFICES ASSUME NEW c \in Conns
               PROVE  RoomOK(c)'
    BY DEF RoomInv
  <1>5. h \notin SetsOf(c)
    BY <1>1 DEF SetsOf
  <1>6. CASE h \notin WritesOf(c)
    <2>1. SamePipe(c)
      BY <1>0, <1>1, <1>5, <1>6, ExecutedElsewhere
    <2>2. SameAnswers(c)
      BY <1>0, <1>1, <1>3, <1>6, RepliedElsewhere
    <2>3. SameRooms(c)
      BY <1>4 DEF SameRooms, Followed, Running
    <2> QED
      BY <2>1, <2>2, <2>3, Unmoved DEF RoomInv
  <1>7. CASE h \in WritesOf(c)
    <2>1. RoomOK(c) /\ h.conn = c /\ NodeOf[c] = n
      BY <1>1, <1>7 DEF RoomInv, WritesOf, Asked, Own
    <2>2. h \in PipedWrites(c) /\ PipedSets(c)' = PipedSets(c)
      BY <1>2, <1>5, <1>7, <2>1 DEF PipedWrites, PipedSets
    <2>3. Running(n) => registered[c] = "done" /\ deferred[c] = <<>> /\ PipedSets(c) = {}
      BY <2>1, <2>2, WritesAreOfRegistered
    <2>4. WritesWait(c)' /\ NotInRooms(c)'
      BY <1>4, <2>1, <2>2, <2>3 DEF RoomOK, WritesWait, NotInRooms, Running
    <2>5. ASSUME c \in Followed'
          PROVE  OneWrite(c)' /\ RoomsFollow(c)'
      <3>1. Running(n) /\ OneWrite(c) /\ RoomsFollow(c)
        BY <1>4, <2>1, <2>5 DEF Followed, Running, RoomOK
      <3>2. AnsweredWrites(c) = {}
        BY <2>2, <3>1 DEF OneWrite
      <3>3. PipedWrites(c)' = {}
        BY <1>2, <1>7, <2>1, <3>1 DEF OneWrite, PipedWrites
      <3>4. /\ Elems(answers'[n]) = Elems(answers[n]) \cup {a}
            /\ \A T : Elems(answers[n]) \cap T = {} => Single(answers'[n], T)
        BY <1>0, <1>3, <3>1, Replied
      <3>5. AnsweredWrites(c)' = {a} /\ Single(answers'[n], WriteAnswers(c))
        <4>1. a \in WriteAnswers(c)
          BY <1>3, <1>7 DEF WriteAnswers, Given
        <4>2. Elems(answers[n]) \cap WriteAnswers(c) = {}
          BY <2>1, <3>2 DEF AnsweredWrites
        <4> QED
          BY <2>1, <3>4, <4>1, <4>2 DEF AnsweredWrites
      <3>6. Single(pipe'[n], WritesOf(c))
        BY <2>1, <3>3, NoneIsSingle DEF PipedWrites
      <3>7. OneWrite(c)'
        BY <2>1, <3>3, <3>5, <3>6 DEF OneWrite
      <3>8. a.to = h /\ a.found = descriptor[c] /\ rooms[c] = Effect(h, descriptor[c])
        BY <2>1, <2>2, <3>1 DEF RoomsFollow
      <3> QED
        BY <1>4, <2>2, <2>3, <3>1, <3>3, <3>5, <3>7, <3>8 DEF RoomsFollow
    <2> QED
      BY <2>4, <2>5 DEF RoomOK
  <1> QED
    BY <1>6, <1>7

LEMMA RoomsExecutePut ==
  ASSUME DirInv, RoomInv, NEW n \in Nodes, ExecutePut(n)
  PROVE  RoomInv'
  <1>0. TypeOK /\ Queues /\ PresenceConstants
    BY PresenceConstants DEF DirInv
  <1>1. pipe[n] # <<>> /\ Head(pipe[n]).op = "put" /\ Executed(n) /\ UNCHANGED answers
    BY DEF ExecutePut, Executes
  <1> PICK h \in Asked(n) : h = Head(pipe[n])
    BY <1>0, <1>1, FirstExecuted
  <1> PICK c \in Conns : c = h.conn /\ NodeOf[c] = n
    BY <1>1 DEF Asked, Own
  <1>2. /\ Elems(pipe[n]) = {h} \cup Elems(pipe'[n])
        /\ \A T : Single(pipe[n], T) => Single(pipe'[n], T)
        /\ \A T : Single(pipe[n], T) /\ h \in T => Elems(pipe'[n]) \cap T = {}
    BY <1>0, <1>1, FirstExecuted
  <1>3. h \in WritesOf(c) /\ h.of \in RoomWrites /\ h.room \in Rooms /\ h.rooms \in SUBSET Rooms
    BY <1>1 DEF Asked, Command, WritesOf
  <1>4. /\ descriptor' = [descriptor EXCEPT ![c] = Effect(h, h.rooms)]
        /\ inRoom' = [inRoom EXCEPT ![h.room] =
                        IF h.of = "addRoom" THEN @ \cup {c} ELSE @ \ {c}]
        /\ UNCHANGED <<server, overlap>>
    BY DEF ExecutePut, Effect
  <1>5. UNCHANGED <<node, open, registered, rooms, snapshot, deferred>>
    BY <1>4 DEF server
  <1> SUFFICES ASSUME NEW d \in Conns
               PROVE  RoomOK(d)'
    BY DEF RoomInv
  <1>6. h \notin SetsOf(d)
    BY <1>1 DEF SetsOf
  <1>7. SameAnswers(d)
    BY <1>1, NothingElsewhere
  <1>8. CASE d # c
    <2>1. h \notin WritesOf(d)
      BY <1>8 DEF WritesOf
    <2>2. SamePipe(d)
      BY <1>0, <1>1, <1>6, <2>1, ExecutedElsewhere
    <2>3. descriptor'[d] = descriptor[d]
      BY <1>0, <1>4, <1>8 DEF TypeOK
    <2>4. \A r \in Rooms : d \in inRoom'[r] <=> d \in inRoom[r]
      BY <1>0, <1>4, <1>8 DEF TypeOK
    <2>5. SameRooms(d)
      BY <1>4, <1>5, <2>3, <2>4 DEF SameRooms, Followed, Running
    <2> QED
      BY <1>7, <2>2, <2>5, Unmoved DEF RoomInv
  <1>9. CASE d = c
    <2>1. RoomOK(c)
      BY DEF RoomInv
    <2>2. h \in PipedWrites(c) /\ PipedSets(c)' = PipedSets(c)
      BY <1>2, <1>3, <1>6, <1>9 DEF PipedWrites, PipedSets
    <2>3. Running(n) => registered[c] = "done" /\ deferred[c] = <<>> /\ PipedSets(c) = {}
      BY <2>2, WritesAreOfRegistered
    <2>4. WritesWait(c)' /\ NotInRooms(c)'
      BY <1>5, <2>1, <2>2, <2>3 DEF RoomOK, WritesWait, NotInRooms, Running
    <2>5. ASSUME c \in Followed'
          PROVE  OneWrite(c)' /\ RoomsFollow(c)'
      <3>1. Running(n) /\ OneWrite(c) /\ RoomsFollow(c)
        BY <1>4, <1>5, <2>1, <2>5 DEF Followed, Running, RoomOK
      <3>2. AnsweredWrites(c)' = {} /\ PipedWrites(c)' = {}
        <4>1. AnsweredWrites(c)' = {}
          BY <1>7, <1>9, <2>2, <3>1 DEF OneWrite, SameAnswers
        <4> QED
          BY <4>1, <1>2, <1>3, <3>1 DEF OneWrite, PipedWrites
      <3>3. OneWrite(c)'
        BY <1>2, <1>7, <1>9, <3>1, <3>2 DEF OneWrite, SameAnswers
      <3>4. h.rooms = descriptor[c] /\ rooms[c] = Effect(h, descriptor[c])
        BY <1>1, <2>2, <3>1 DEF RoomsFollow
      <3>5. descriptor'[c] = rooms[c]
        BY <1>0, <1>4, <3>4 DEF TypeOK
      <3>6. \A r \in Rooms : c \in inRoom[r] <=> r \in descriptor[c]
        BY <2>3, <3>1 DEF RoomsFollow
      <3>7. \A r \in Rooms : c \in inRoom'[r] <=> r \in Effect(h, descriptor[c])
        <4> SUFFICES ASSUME NEW r \in Rooms
                     PROVE  c \in inRoom'[r] <=> r \in Effect(h, descriptor[c])
          OBVIOUS
        <4>1. CASE r = h.room
          BY <1>0, <1>3, <1>4, <4>1 DEF TypeOK, Effect
        <4>2. CASE r # h.room
          BY <1>0, <1>3, <1>4, <3>6, <4>2 DEF TypeOK, Effect
        <4> QED
          BY <4>1, <4>2
      <3>8. /\ \A r \in Rooms : c \in inRoom'[r] <=> r \in descriptor'[c]
            /\ After(<<>>, descriptor'[c], rooms'[c])
        BY <1>5, <3>4, <3>5, <3>7 DEF After
      <3>9. registered'[c] = "done" /\ deferred'[c] = <<>> /\ PipedSets(c)' = {}
        BY <1>5, <2>2, <2>3, <3>1
      <3>10. RoomsFollow(c)'
        BY <3>2, <3>8, <3>9 DEF RoomsFollow
      <3> QED
        BY <3>3, <3>10
    <2> QED
      BY <1>9, <2>4, <2>5 DEF RoomOK
  <1> QED
    BY <1>8, <1>9

LEMMA NoGets ==
  ASSUME NEW c
  PROVE  Gets(c, <<>>) = <<>>
  BY DEF Gets

LEMMA RoomsRegistered ==
  ASSUME DirInv, RoomInv, NEW n \in Nodes, Registered(n)
  PROVE  RoomInv'
  <1>0. TypeOK /\ Queues /\ PresenceConstants
    BY PresenceConstants DEF DirInv
  <1>1. answers[n] # <<>> /\ Head(answers[n]).to.op = "set" /\ Handled(n) /\ Running(n)
    BY DEF Registered, First
  <1> PICK a \in Given(n) : a = Head(answers[n]) /\ a \in Elems(answers[n])
    BY <1>0, <1>1, FirstHandled
  <1> PICK c \in Conns : c = a.to.conn /\ NodeOf[c] = n
    BY <1>1 DEF Given, Asked, Own
  <1>2. a.to \in SetsOf(c) /\ a.to.of = "set" /\ a.to \in InFlight(n)
    BY <1>1 DEF Given, Asked, SetsOf, InFlight
  <1>3. registered[c] \in {"setting", "done"}
    <2>1. registered[c] \notin {"none", "joining"}
      BY <1>1, <1>2 DEF DirInv, Unannounced
    <2> QED
      BY <1>0, <2>1 DEF TypeOK
  <1>4. PipedSets(c) = {}
    <2>1. SetAnswered(c)
      BY <1>2 DEF SetAnswered
    <2> QED
      BY <2>1, SetPipedIsPiped DEF DirInv, SetOnce
  <1>5. deferred[c] \in Seq(RoomWrite)
    BY <1>0 DEF TypeOK
  <1> PICK cmds \in Seq(Asked(n)) : cmds = Gets(c, deferred[c])
    BY <1>5, GetsAsked
  <1>6. Send(n, cmds) /\ \A m \in Elems(cmds) : m.conn = c /\ m.op = "get" /\ m.of \in RoomWrites
    BY <1>5, GetsAsked DEF Registered
  <1>7. /\ registered' = [registered EXCEPT ![c] = "done"]
        /\ deferred' = [deferred EXCEPT ![c] = <<>>]
        /\ UNCHANGED <<node, open, rooms, snapshot, descriptor, inRoom, overlap>>
    BY DEF Registered, redis
  <1> SUFFICES ASSUME NEW d \in Conns
               PROVE  RoomOK(d)'
    BY DEF RoomInv
  <1>8. SameAnswers(d)
    <2>1. a \notin WriteAnswers(d)
      BY <1>2 DEF WriteAnswers, WritesOf, RoomWrites
    <2> QED
      BY <1>0, <1>1, <2>1, HandledElsewhere
  <1>9. CASE d # c
    <2>1. \A m \in Elems(cmds) : m \notin SetsOf(d) /\ m \notin WritesOf(d)
      BY <1>6, <1>9 DEF SetsOf, WritesOf
    <2>2. SamePipe(d)
      BY <1>0, <1>6, <2>1, SentElsewhere
    <2>3. registered'[d] = registered[d] /\ deferred'[d] = deferred[d]
      BY <1>0, <1>7, <1>9 DEF TypeOK
    <2>4. SameRooms(d)
      BY <1>7, <2>3 DEF SameRooms, Followed, Running
    <2> QED
      BY <1>8, <2>2, <2>4, Unmoved DEF RoomInv
  <1>10. CASE d = c
    <2>1. RoomOK(c)
      BY DEF RoomInv
    <2>2. registered'[c] = "done" /\ deferred'[c] = <<>>
      BY <1>0, <1>7 DEF TypeOK
    <2>3. CASE registered[c] = "done"
      <3>1. deferred[c] = <<>>
        BY <2>1, <2>3 DEF RoomOK, WritesWait
      <3>2. UNCHANGED pipe
        BY <1>0, <1>6, <3>1, NoGets, SentNothing
      <3>3. SameRooms(c)
        BY <1>7, <2>2, <2>3, <3>1 DEF SameRooms, Followed, Running
      <3> QED
        BY <1>8, <1>10, <2>1, <3>2, <3>3, Unmoved, NothingElsewhere
    <2>4. CASE registered[c] = "setting"
      <3>1. PipedWrites(c) = {} /\ AnsweredWrites(c)' = {}
        BY <1>1, <1>8, <1>10, <2>1, <2>4 DEF RoomOK, WritesWait, SameAnswers
      <3>2. AnsweredWrites(c) = {}
        BY <1>1, <2>1, <2>4 DEF RoomOK, WritesWait
      <3>3. PipedSets(c)' = {}
        <4>1. Elems(pipe'[n]) = Elems(pipe[n]) \cup Elems(cmds)
          BY <1>0, <1>6, Sent
        <4>2. \A m \in Elems(cmds) : m \notin SetsOf(c)
          BY <1>6 DEF SetsOf
        <4> QED
          BY <1>4, <4>1, <4>2 DEF PipedSets
      <3>4. WritesWait(c)' /\ NotInRooms(c)'
        BY <2>2, <3>3 DEF WritesWait, NotInRooms
      <3>5. ASSUME c \in Followed'
            PROVE  OneWrite(c)' /\ RoomsFollow(c)'
        <4>1. RoomsFollow(c)
          BY <1>7, <2>1, <3>5 DEF Followed, RoomOK
        <4>2. /\ \A r \in Rooms : c \in inRoom[r] <=> r \in descriptor[c]
              /\ After(deferred[c], descriptor[c], rooms[c])
          BY <1>4, <2>4, <3>1, <3>2, <4>1 DEF RoomsFollow
        <4>3. Single(answers'[n], WriteAnswers(c))
          BY <3>1, NoneIsSingle DEF AnsweredWrites
        <4>4. CASE deferred[c] = <<>>
          <5>1. rooms[c] = descriptor[c]
            BY <4>2, <4>4, NothingAfter
          <5>2. UNCHANGED pipe
            BY <1>0, <1>6, <4>4, NoGets, SentNothing
          <5>3. PipedWrites(c)' = {} /\ Single(pipe'[n], WritesOf(c))
            BY <3>1, <5>2, NoneIsSingle DEF PipedWrites
          <5>4. OneWrite(c)'
            BY <3>1, <4>3, <5>3 DEF OneWrite
          <5> QED
            BY <1>7, <2>2, <3>1, <3>3, <4>2, <5>1, <5>3, <5>4 DEF RoomsFollow, After
        <4>5. CASE \E w \in RoomWrite : deferred[c] = <<w>> /\ rooms[c] = Effect(w, descriptor[c])
          <5> PICK w \in RoomWrite : deferred[c] = <<w>> /\ rooms[c] = Effect(w, descriptor[c])
            BY <4>5
          <5> PICK g \in Asked(NodeOf[c]) :
                /\ Gets(c, <<w>>) = <<g>> /\ Elems(<<g>>) = {g} /\ <<g>> \in Seq(Asked(NodeOf[c]))
                /\ g.op = "get" /\ g.of = w.of /\ g.conn = c /\ g.room = w.room /\ g.of \in RoomWrites
            BY OneGet, ZenonT(30)
          <5>1. Send(n, <<g>>) /\ g \in WritesOf(c)
            BY <1>6 DEF WritesOf, Asked
          <5>2. /\ Elems(pipe'[n]) = Elems(pipe[n]) \cup {g}
                /\ \A T : Elems(pipe[n]) \cap T = {} => Single(pipe'[n], T)
            BY <1>0, <5>1, SentOne
          <5>3. PipedWrites(c)' = {g} /\ Single(pipe'[n], WritesOf(c))
            BY <3>1, <5>1, <5>2 DEF PipedWrites
          <5>4. OneWrite(c)'
            BY <3>1, <4>3, <5>3 DEF OneWrite
          <5>5. rooms[c] = Effect(g, descriptor[c])
            BY DEF Effect
          <5> QED
            BY <1>7, <2>2, <3>1, <3>3, <4>2, <5>3, <5>4, <5>5 DEF RoomsFollow
        <4> QED
          BY <4>2, <4>4, <4>5 DEF After
      <3> QED
        BY <1>10, <3>4, <3>5 DEF RoomOK
    <2> QED
      BY <1>3, <2>3, <2>4
  <1> QED
    BY <1>9, <1>10

\* What a room write finds tells it what is left to do.
LEMMA WriteBackEffect ==
  ASSUME NEW n \in Nodes, NEW a \in Given(n), a.to.op = "get", a.to.of \in RoomWrites,
         a.found # NoDescriptor
  PROVE  \/ WriteBack(a.to, a.found) = <<>> /\ Effect(a.to, a.found) = a.found
         \/ \E m \in Asked(n) :
              /\ WriteBack(a.to, a.found) = <<m>> /\ m.op = "put" /\ m.of = a.to.of
              /\ m.conn = a.to.conn /\ m.rooms = a.found
              /\ \A rs : Effect(m, rs) = Effect(a.to, rs)
  <1>1. CASE WriteBack(a.to, a.found) = <<>>
    <2>1. \A x : <<x>> # <<>>
      OBVIOUS
    <2>2. \/ a.to.of = "addRoom" /\ a.to.room \in a.found
          \/ a.to.of = "removeRoom" /\ a.to.room \notin a.found
      BY <1>1, <2>1 DEF WriteBack
    <2> QED
      BY <1>1, <2>2 DEF Effect
  <1>2. CASE WriteBack(a.to, a.found) # <<>>
    <2>1. PICK m \in Asked(n) :
            /\ WriteBack(a.to, a.found) = <<m>> /\ m.of = a.to.of /\ m.conn = a.to.conn
            /\ m.room = a.to.room /\ m.rooms = a.found /\ m.op = "put"
      BY <1>2, WriteBackAsked
    <2> QED
      BY <2>1 DEF Effect
  <1> QED
    BY <1>1, <1>2

LEMMA RoomsFound ==
  ASSUME DirInv, RoomInv, NEW n \in Nodes, Found(n)
  PROVE  RoomInv'
  <1>0. TypeOK /\ Queues /\ PresenceConstants
    BY PresenceConstants DEF DirInv
  <1>1. answers[n] # <<>> /\ Head(answers[n]).to.op = "get" /\ Handled(n) /\ Running(n)
    BY DEF Found, First
  <1> PICK a \in Given(n) : a = Head(answers[n]) /\ a \in Elems(answers[n])
    BY <1>0, <1>1, FirstHandled
  <1>2. PICK cmds \in Seq(Asked(n)) :
          /\ cmds = WriteBack(a.to, a.found)
          /\ \A m \in Elems(cmds) : m.op # "set" /\ m.of = a.to.of /\ m.conn = a.to.conn
    BY <1>1, BackIssued
  <1>3. Send(n, cmds)
    BY <1>2 DEF Found
  <1>4. UNCHANGED <<node, open, registered, rooms, snapshot, deferred, descriptor, inRoom, overlap>>
    BY DEF Found, server, redis
  <1> SUFFICES ASSUME NEW c \in Conns
               PROVE  RoomOK(c)'
    BY DEF RoomInv
  <1>5. CASE a \notin WriteAnswers(c)
    <2>1. \A m \in Elems(cmds) : m \notin SetsOf(c) /\ m \notin WritesOf(c)
      BY <1>2, <1>5 DEF SetsOf, WritesOf, WriteAnswers, Given, Answer
    <2>2. SamePipe(c) /\ SameAnswers(c)
      BY <1>0, <1>1, <1>3, <1>5, <2>1, SentElsewhere, HandledElsewhere
    <2>3. SameRooms(c)
      BY <1>4 DEF SameRooms, Followed, Running
    <2> QED
      BY <2>2, <2>3, Unmoved DEF RoomInv
  <1>6. CASE a \in WriteAnswers(c)
    <2>1. RoomOK(c) /\ a.to.conn = c /\ a.to.of \in RoomWrites /\ NodeOf[c] = n
      BY <1>1, <1>6 DEF RoomInv, WriteAnswers, WritesOf, Given, Asked, Own
    <2>2. a \in AnsweredWrites(c)
      BY <1>6, <2>1 DEF AnsweredWrites
    <2>3. registered[c] = "done" /\ deferred[c] = <<>> /\ PipedSets(c) = {}
      BY <1>1, <2>1, <2>2, WritesAreOfRegistered
    <2>4. PipedSets(c)' = {}
      <3>1. Elems(pipe'[n]) = Elems(pipe[n]) \cup Elems(cmds)
        BY <1>0, <1>3, Sent
      <3>2. \A m \in Elems(cmds) : m \notin SetsOf(c)
        BY <1>2 DEF SetsOf
      <3> QED
        BY <2>1, <2>3, <3>1, <3>2 DEF PipedSets
    <2>5. WritesWait(c)' /\ NotInRooms(c)'
      BY <1>4, <2>3, <2>4 DEF WritesWait, NotInRooms
    <2>6. ASSUME c \in Followed'
          PROVE  OneWrite(c)' /\ RoomsFollow(c)'
      <3>1. c \in Followed /\ OneWrite(c) /\ RoomsFollow(c)
        BY <1>4, <2>1, <2>6 DEF Followed, RoomOK
      <3>2. PipedWrites(c) = {}
        BY <2>2, <3>1 DEF OneWrite
      <3>3. AnsweredWrites(c)' = {} /\ Single(answers'[n], WriteAnswers(c))
        <4>1. /\ \A T : Single(answers[n], T) => Single(answers'[n], T)
              /\ \A T : Single(answers[n], T) /\ a \in T => Elems(answers'[n]) \cap T = {}
          BY <1>0, <1>1, FirstHandled
        <4>2. Single(answers[n], WriteAnswers(c))
          BY <2>1, <3>1 DEF OneWrite
        <4> QED
          BY <1>6, <2>1, <4>1, <4>2 DEF AnsweredWrites
      <3>4. rooms[c] = Effect(a.to, descriptor[c]) /\ a.found = descriptor[c]
        BY <2>2, <3>1 DEF RoomsFollow
      <3>5. a.found # NoDescriptor
        <4>1. c \in open /\ node[n] = "up" /\ Announced(c)
          BY <2>1, <2>3, <3>1, SetPipedIsPiped DEF Followed, Announced
        <4> QED
          BY <2>1, <3>4, <4>1 DEF DirInv, Kept
      <3>6. \A r \in Rooms : c \in inRoom[r] <=> r \in descriptor[c]
        BY <2>3, <3>1 DEF RoomsFollow
      <3>7. CASE WriteBack(a.to, a.found) = <<>> /\ Effect(a.to, a.found) = a.found
        <4>1. UNCHANGED pipe
          BY <1>0, <1>2, <1>3, <3>7, SentNothing
        <4>2. PipedWrites(c)' = {} /\ Single(pipe'[n], WritesOf(c))
          BY <2>1, <3>2, <4>1, NoneIsSingle DEF PipedWrites
        <4>3. OneWrite(c)'
          BY <2>1, <3>3, <4>2 DEF OneWrite
        <4> QED
          BY <1>4, <2>3, <2>4, <3>3, <3>4, <3>6, <3>7, <4>2, <4>3 DEF RoomsFollow, After
      <3>8. ASSUME NEW m \in Asked(n),
                   WriteBack(a.to, a.found) = <<m>>, m.op = "put", m.of = a.to.of,
                   m.conn = a.to.conn, m.rooms = a.found,
                   \A rs : Effect(m, rs) = Effect(a.to, rs)
            PROVE  OneWrite(c)' /\ RoomsFollow(c)'
        <4>1. Send(n, <<m>>) /\ m \in WritesOf(c)
          BY <1>2, <1>3, <2>1, <3>8 DEF WritesOf, Asked
        <4>2. /\ Elems(pipe'[n]) = Elems(pipe[n]) \cup {m}
              /\ \A T : Elems(pipe[n]) \cap T = {} => Single(pipe'[n], T)
          BY <1>0, <4>1, SentOne
        <4>3. PipedWrites(c)' = {m} /\ Single(pipe'[n], WritesOf(c))
          BY <2>1, <3>2, <4>1, <4>2 DEF PipedWrites
        <4>4. OneWrite(c)'
          BY <2>1, <3>3, <4>3 DEF OneWrite
        <4>5. rooms[c] = Effect(m, descriptor[c]) /\ m.rooms = descriptor[c]
          BY <3>4, <3>8
        <4> QED
          BY <1>4, <2>3, <2>4, <3>3, <3>6, <4>3, <4>4, <4>5 DEF RoomsFollow
      <3> QED
        BY <1>1, <2>1, <3>5, <3>7, <3>8, WriteBackEffect
    <2> QED
      BY <2>5, <2>6 DEF RoomOK
  <1> QED
    BY <1>5, <1>6

LEMMA RoomsNext ==
  ASSUME DirInv, RoomInv, [Next]_vars
  PROVE  RoomInv'
  <1>1. ASSUME NEW c \in Conns, Reachable(c) \/ SocketClosed(c)
        PROVE  RoomInv'
    BY <1>1, RoomsReachable, RoomsSocketClosed
  <1>2. ASSUME NEW c \in Conns, NEW rs \in SUBSET Rooms, Accept(c, rs)
        PROVE  RoomInv'
    BY <1>2, RoomsAccept
  <1>3. ASSUME NEW c \in Conns, NEW r \in Rooms, JoinRoom(c, r) \/ LeaveRoom(c, r)
        PROVE  RoomInv'
    BY <1>3, RoomsJoinRoom
  <1>4. ASSUME NEW n \in Nodes, Close(n) \/ AliveExpires(n)
        PROVE  RoomInv'
    BY <1>4, RoomsClose, RoomsAliveExpires
  <1>5. ASSUME NEW n \in Nodes, Crash(n)
        PROVE  RoomInv'
    BY <1>5, RoomsDown DEF Crash
  <1>6. ASSUME NEW n \in Nodes, Execute(n)
        PROVE  RoomInv'
    BY <1>6, RoomsExecuteSet, RoomsExecuteGet, RoomsExecutePut, RoomsExecuteDrop,
       RoomsExecuteMembers DEF Execute
  <1>7. ASSUME NEW n \in Nodes, Registered(n) \/ Found(n) \/ ClearNode(n)
        PROVE  RoomInv'
    BY <1>7, RoomsRegistered, RoomsFound, RoomsClearNode
  <1>8. ASSUME NEW n \in Nodes, Stopped(n)
        PROVE  RoomInv'
    BY <1>8, RoomsDown DEF Stopped
  <1>9. CASE UNCHANGED vars
    <2> SUFFICES ASSUME NEW c \in Conns
                 PROVE  RoomOK(c)'
      BY DEF RoomInv
    <2>1. SamePipe(c) /\ SameAnswers(c)
      BY <1>9, NothingElsewhere DEF vars
    <2>2. SameRooms(c)
      BY <1>9 DEF vars, server, redis, SameRooms, Followed, Running
    <2> QED
      BY <2>1, <2>2, Unmoved DEF RoomInv
  <1> QED
    BY <1>1, <1>2, <1>3, <1>4, <1>5, <1>6, <1>7, <1>8, <1>9 DEF Next, Handle

LEMMA RoomsInit ==
  ASSUME Init
  PROVE  RoomInv
  <1> SUFFICES ASSUME NEW c \in Conns
               PROVE  RoomOK(c)
    BY DEF RoomInv
  <1>1. /\ registered[c] = "none" /\ deferred[c] = <<>> /\ open = {} /\ NodeOf[c] \in Nodes
        /\ \A r \in Rooms : inRoom[r] = {}
        /\ pipe[NodeOf[c]] = <<>> /\ answers[NodeOf[c]] = <<>>
    BY PresenceConstants DEF Init
  <1>2. PipedWrites(c) = {} /\ AnsweredWrites(c) = {}
    BY <1>1, NoElems DEF PipedWrites, AnsweredWrites
  <1> QED
    BY <1>1, <1>2 DEF RoomOK, WritesWait, NotInRooms, Followed

LEMMA RoomsInductive == Spec => []RoomInv
  <1>1. Init => RoomInv
    BY RoomsInit
  <1>2. RoomInv /\ DirInv /\ [Next]_vars => RoomInv'
    BY RoomsNext
  <1> QED
    BY <1>1, <1>2, DirInductive, PTL DEF Spec

\* A registered connection is in the directory with the rooms its node has it in, once its
\* room writes, which did not overlap, have been carried out (addRoom, removeRoom).
THEOREM RoomsStayListed == Spec => []RoomsAreListed
  <1>1. ASSUME DirInv, RoomInv
        PROVE  RoomsAreListed
    <2> SUFFICES ASSUME NEW c \in open \ overlap, registered[c] = "done",
                        node[NodeOf[c]] = "up", ~ Unsettled(c)
                 PROVE  /\ descriptor[c] = rooms[c]
                        /\ \A r \in Rooms : c \in inRoom[r] <=> r \in rooms[c]
      BY DEF RoomsAreListed
    <2>1. TypeOK /\ Queues /\ c \in Conns
      BY <1>1 DEF DirInv, TypeOK
    <2>2. deferred[c] = <<>> /\ PipedWrites(c) = {} /\ AnsweredWrites(c) = {}
      BY <2>1, SettledWrites
    <2>3. PipedSets(c) = {}
      BY <1>1, <2>1, SetPipedIsPiped DEF DirInv, SetOnce, Running
    <2>4. RoomsFollow(c)
      BY <1>1, <2>1 DEF RoomInv, RoomOK, Followed
    <2>5. /\ \A r \in Rooms : c \in inRoom[r] <=> r \in descriptor[c]
          /\ After(<<>>, descriptor[c], rooms[c])
      BY <2>2, <2>3, <2>4 DEF RoomsFollow
    <2> QED
      BY <2>5, NothingAfter
  <1> QED
    BY <1>1, DirInductive, RoomsInductive, PTL
=============================================================================
