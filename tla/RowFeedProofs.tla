---------------------------- MODULE RowFeedProofs ----------------------------
(***************************************************************************)
(* Live subscriptions over the stores of RowRelay, for every set of nodes, *)
(* rows, batches and subscriptions: the server's handlers leave the stores *)
(* what RowRelay says they are, and a live subscription of which nothing   *)
(* was lost holds, with what is under way to it, the rows of its store.    *)
(***************************************************************************)
EXTENDS RowFeed, RowRelayProofs, WellFoundedInduction

\* The answer to a `csub`.
IsAnswer(frame, s) == frame.t \in {"res", "err"} /\ frame.s = s
Answered(q, s) == \E i \in 1..Len(q) : IsAnswer(q[i], s)
AnsweredOnce(q, s) ==
  \A i, j \in 1..Len(q) : IsAnswer(q[i], s) /\ IsAnswer(q[j], s) => i = j

\* The rows that the subscription is to show.
Due(s) == Admitted(s, store[at])

\* The changes in p, and then those in q, lead from these rows to the rows that are due.
Leads(s, p, q, rows, due) ==
  \A r \in Rows : View(s, After(q, r, After(p, r, rows[r]))) = due[r]

\* The frames behind the i-th.
Beyond(q, i) == SubSeq(q, i + 1, Len(q))

\* A connection that is lost takes everything with it.
OfflineIsEmpty ==
  at = Offline => /\ reg = {} /\ leaving = {} /\ waiting = {} /\ wire = <<>>
                  /\ serving = [s \in Subs |-> Quiet]

\* The server does not know of a subscription that has not been made.
NewIsUnknown ==
  \A s \in Subs : sub[s] = "new" => s \notin waiting /\ serving[s].pc = "none" /\ ~ Answered(wire, s)

\* A connection asks once for a subscription, and is answered once.
OneAnswer ==
  \A s \in Subs :
    /\ AnsweredOnce(wire, s)
    /\ serving[s].pc # "none" => ~ Answered(wire, s)

LeavingIsClosed == \A s \in leaving : sub[s] = "closed"

Protocol == OfflineIsEmpty /\ NewIsUnknown /\ OneAnswer /\ LeavingIsClosed

\* How far a subscription of which nothing has been lost has come.  Its handler has registered
\* it and reads the rows: what is told meanwhile is no older than what will be read ...
Reading(s) ==
  /\ s \in waiting /\ serving[s].pc = "reading" /\ s \in reg
  /\ sub[s] = "opening" => Leads(s, pending[s], wire, Due(s), Due(s))
\* ... or has read them: a client without rows buffers what it is told; one that has rows,
\* which the answer will replace, is told nothing ...
HasRead(s) ==
  /\ s \in waiting /\ serving[s].pc = "read" /\ s \in reg
  /\ sub[s] = "opening" => Leads(s, pending[s], wire, serving[s].rows, Due(s))
  /\ sub[s] # "opening" => Leads(s, <<>>, <<>>, serving[s].rows, Due(s))
\* ... or the rows are under way ...
Sent(s) ==
  /\ s \in waiting /\ serving[s].pc = "none" /\ s \in reg
  /\ \E i \in 1..Len(wire) :
       /\ wire[i].t = "res" /\ wire[i].s = s
       /\ sub[s] = "opening" => Leads(s, pending[s], wire, wire[i].rows, Due(s))
       /\ sub[s] # "opening" => Leads(s, <<>>, Beyond(wire, i), wire[i].rows, Due(s))
\* ... or an error is ...
Rejected(s) ==
  /\ s \in waiting /\ serving[s].pc = "none"
  /\ \E i \in 1..Len(wire) : wire[i].t = "err" /\ wire[i].s = s
\* ... or the client has the rows.
Held(s) ==
  /\ s \notin waiting /\ serving[s].pc = "none" /\ s \in reg /\ sub[s] = "live"
  /\ Leads(s, <<>>, wire, map[s], Due(s))

OnCourse(s) == Reading(s) \/ HasRead(s) \/ Sent(s) \/ Rejected(s) \/ Held(s)
Followed == \A s \in Subs : intact[s] /\ sub[s] # "closed" => OnCourse(s)

FeedInv == TypeOK /\ Protocol /\ Followed
-----------------------------------------------------------------------------
(* The last change of a row counts.                                        *)

LEMMA HasLast ==
  ASSUME NEW n \in Nat, NEW T, T \subseteq 1..n, T # {}
  PROVE  \E i \in T : \A j \in T : j <= i
  <1>1. PICK D : D = {m \in Nat : \E i \in T : m = n - i}
    OBVIOUS
  <1>2. D \subseteq Nat /\ \A i \in T : i \in 1..n /\ n - i \in D
    BY <1>1
  <1>3. D # {}
    BY <1>2
  <1>4. IsWellFoundedOn(OpToRel(<, Nat), Nat)
    BY NatLessThanWellFounded
  <1>5. PICK x \in D : \A y \in D : ~ (<<y, x>> \in OpToRel(<, Nat))
    BY <1>2, <1>3, <1>4, WFMin
  <1>6. \A y \in D : ~ (y < x)
    BY <1>2, <1>5 DEF OpToRel
  <1>7. PICK i \in T : x = n - i
    BY <1>1
  <1>8. ASSUME NEW j \in T
        PROVE  j <= i
    <2>1. n - j \in D /\ ~ (n - j < x) /\ i \in 1..n /\ j \in 1..n
      BY <1>2, <1>6
    <2> QED
      BY <2>1, <1>7
  <1> QED
    BY <1>8

LEMMA AfterNone ==
  ASSUME NEW q, NEW r, NEW value, \A i \in 1..Len(q) : ~ Tells(q[i], r)
  PROVE  After(q, r, value) = value
  BY DEF After

LEMMA AfterLast ==
  ASSUME NEW q \in Seq(Frame), NEW r, NEW i \in 1..Len(q), Tells(q[i], r),
         \A j \in (i + 1)..Len(q) : ~ Tells(q[j], r)
  PROVE  \A value : After(q, r, value) = q[i].d[r]
  <1> DEFINE told == {j \in 1..Len(q) : Tells(q[j], r)}
  <1>1. Len(q) \in Nat
    OBVIOUS
  <1>2. i \in told /\ \A j \in told : j <= i
    BY <1>1
  <1>3. \A k \in told : (\A j \in told : j <= k) => k = i
    BY <1>1, <1>2
  <1>4. (CHOOSE k \in told : \A j \in told : j <= k) = i
    BY <1>2, <1>3
  <1> QED
    BY <1>2, <1>4 DEF After

LEMMA AfterCases ==
  ASSUME NEW q \in Seq(Frame), NEW r
  PROVE  \/ \A i \in 1..Len(q) : ~ Tells(q[i], r)
         \/ \E i \in 1..Len(q) :
              Tells(q[i], r) /\ \A j \in (i + 1)..Len(q) : ~ Tells(q[j], r)
  <1>1. Len(q) \in Nat
    OBVIOUS
  <1>2. PICK T : T = {i \in 1..Len(q) : Tells(q[i], r)}
    OBVIOUS
  <1>3. CASE T = {}
    BY <1>2, <1>3
  <1>4. CASE T # {}
    <2>1. T \subseteq 1..Len(q)
      BY <1>2
    <2>2. PICK i \in T : \A j \in T : j <= i
      BY <1>1, <1>4, <2>1, HasLast
    <2>3. \A j \in (i + 1)..Len(q) : j \in 1..Len(q) /\ ~ (j <= i)
      BY <1>1, <2>1
    <2> QED
      BY <1>2, <2>2, <2>3
  <1> QED
    BY <1>3, <1>4

LEMMA AfterAppend ==
  ASSUME NEW q \in Seq(Frame), NEW f \in Frame, NEW r, NEW value
  PROVE  After(Append(q, f), r, value) = IF Tells(f, r) THEN f.d[r] ELSE After(q, r, value)
  <1> PICK p \in Seq(Frame) : p = Append(q, f)
    BY AppendProperties
  <1>1. /\ Len(q) \in Nat /\ Len(p) = Len(q) + 1
        /\ p[Len(q) + 1] = f /\ \A i \in 1..Len(q) : p[i] = q[i]
    BY AppendProperties
  <1>2. CASE Tells(f, r)
    <2>1. Len(q) + 1 \in 1..Len(p)
      BY <1>1
    <2>2. \A j \in (Len(q) + 1 + 1)..Len(p) : ~ Tells(p[j], r)
      BY <1>1
    <2>3. Tells(p[Len(q) + 1], r)
      BY <1>1, <1>2
    <2>4. \A v : After(p, r, v) = p[Len(q) + 1].d[r]
      BY <1>1, <2>1, <2>2, <2>3, AfterLast
    <2> QED
      BY <1>1, <1>2, <2>4
  <1>3. CASE ~ Tells(f, r)
    <2>1. CASE \A i \in 1..Len(q) : ~ Tells(q[i], r)
      <3>1. \A i \in 1..Len(p) : ~ Tells(p[i], r)
        BY <1>1, <1>3, <2>1
      <3> QED
        BY <1>3, <2>1, <3>1, AfterNone
    <2>2. ASSUME NEW i \in 1..Len(q), Tells(q[i], r), \A j \in (i + 1)..Len(q) : ~ Tells(q[j], r)
          PROVE  After(p, r, value) = After(q, r, value)
      <3>1. i \in 1..Len(p) /\ Tells(p[i], r) /\ p[i] = q[i]
        BY <1>1, <2>2
      <3>2. \A j \in (i + 1)..Len(p) : ~ Tells(p[j], r)
        BY <1>1, <1>3, <2>2
      <3>3. After(q, r, value) = q[i].d[r]
        BY <2>2, AfterLast
      <3>4. \A v : After(p, r, v) = p[i].d[r]
        BY <3>1, <3>2, AfterLast
      <3> QED
        BY <3>1, <3>3, <3>4
    <2> QED
      BY <1>3, <2>1, <2>2, AfterCases
  <1> QED
    BY <1>2, <1>3

LEMMA AfterTail ==
  ASSUME NEW q \in Seq(Frame), q # <<>>, NEW r, NEW value
  PROVE  After(q, r, value) =
           After(Tail(q), r, IF Tells(Head(q), r) THEN Head(q).d[r] ELSE value)
  <1>1. /\ Tail(q) \in Seq(Frame) /\ Len(q) \in Nat /\ Len(Tail(q)) = Len(q) - 1
        /\ 1 \in 1..Len(q) /\ Head(q) = q[1]
        /\ \A i \in 1..Len(Tail(q)) : i + 1 \in 1..Len(q) /\ Tail(q)[i] = q[i + 1]
    BY HeadTailProperties, EmptySeq
  <1>2. ASSUME NEW j \in 2..Len(q)
        PROVE  j - 1 \in 1..Len(Tail(q)) /\ Tail(q)[j - 1] = q[j]
    <2>1. j - 1 \in 1..Len(Tail(q)) /\ j - 1 + 1 = j
      BY <1>1
    <2> QED
      BY <2>1, <1>1
  <1>3. CASE \A i \in 1..Len(Tail(q)) : ~ Tells(Tail(q)[i], r)
    <2>1. \A v : After(Tail(q), r, v) = v
      BY <1>3, AfterNone
    <2>2. \A j \in 2..Len(q) : ~ Tells(q[j], r)
      BY <1>2, <1>3
    <2>3. CASE Tells(Head(q), r)
      <3>1. After(q, r, value) = q[1].d[r]
        BY <1>1, <2>2, <2>3, AfterLast
      <3> QED
        BY <1>1, <2>1, <2>3, <3>1
    <2>4. CASE ~ Tells(Head(q), r)
      <3>1. \A j \in 1..Len(q) : ~ Tells(q[j], r)
        BY <1>1, <2>2, <2>4
      <3> QED
        BY <2>1, <2>4, <3>1, AfterNone
    <2> QED
      BY <2>3, <2>4
  <1>4. ASSUME NEW i \in 1..Len(Tail(q)), Tells(Tail(q)[i], r),
               \A j \in (i + 1)..Len(Tail(q)) : ~ Tells(Tail(q)[j], r)
        PROVE  \A v : After(q, r, value) = After(Tail(q), r, v)
    <2>1. i + 1 \in 1..Len(q) /\ Tells(q[i + 1], r) /\ q[i + 1] = Tail(q)[i]
      BY <1>1, <1>4
    <2>2. ASSUME NEW j \in (i + 1 + 1)..Len(q)
          PROVE  ~ Tells(q[j], r)
      <3>1. j \in 2..Len(q) /\ j - 1 \in (i + 1)..Len(Tail(q))
        BY <1>1
      <3> QED
        BY <1>2, <1>4, <3>1
    <2>3. After(q, r, value) = q[i + 1].d[r]
      BY <2>1, <2>2, AfterLast
    <2>4. \A v : After(Tail(q), r, v) = Tail(q)[i].d[r]
      BY <1>1, <1>4, AfterLast
    <2> QED
      BY <2>1, <2>3, <2>4
  <1>5. \/ \A i \in 1..Len(Tail(q)) : ~ Tells(Tail(q)[i], r)
        \/ \E i \in 1..Len(Tail(q)) :
             Tells(Tail(q)[i], r) /\ \A j \in (i + 1)..Len(Tail(q)) : ~ Tells(Tail(q)[j], r)
    BY <1>1, AfterCases
  <1> QED
    BY <1>3, <1>4, <1>5

\* Filtering what the changes start from makes no difference to what is seen after them.
LEMMA AfterView ==
  ASSUME NEW s, NEW q \in Seq(Frame), NEW r, NEW value
  PROVE  View(s, After(q, r, View(s, value))) = View(s, After(q, r, value))
  <1>1. CASE \A i \in 1..Len(q) : ~ Tells(q[i], r)
    <2>1. After(q, r, View(s, value)) = View(s, value) /\ After(q, r, value) = value
      BY <1>1, AfterNone
    <2> QED
      BY <2>1 DEF View
  <1>2. ASSUME NEW i \in 1..Len(q), Tells(q[i], r), \A j \in (i + 1)..Len(q) : ~ Tells(q[j], r)
        PROVE  After(q, r, View(s, value)) = After(q, r, value)
    <2>1. \A v : After(q, r, v) = q[i].d[r]
      BY <1>2, AfterLast
    <2> QED
      BY <2>1
  <1>3. \/ \A i \in 1..Len(q) : ~ Tells(q[i], r)
        \/ \E i \in 1..Len(q) :
             Tells(q[i], r) /\ \A j \in (i + 1)..Len(q) : ~ Tells(q[j], r)
    BY AfterCases
  <1> QED
    BY <1>1, <1>2, <1>3

LEMMA AfterNothing ==
  ASSUME NEW r, NEW value
  PROVE  After(<<>>, r, value) = value
  <1>1. Len(<<>>) = 0
    OBVIOUS
  <1> QED
    BY <1>1, AfterNone

LEMMA AfterFirst ==
  ASSUME NEW f \in Frame, NEW r, NEW value
  PROVE  After(<<f>>, r, value) = IF Tells(f, r) THEN f.d[r] ELSE value
  <1>1. <<>> \in Seq(Frame) /\ Append(<<>>, f) = <<f>>
    OBVIOUS
  <1>2. PICK q \in Seq(Frame) : q = <<>>
    BY <1>1
  <1>3. After(Append(q, f), r, value) = IF Tells(f, r) THEN f.d[r] ELSE After(q, r, value)
    BY AfterAppend
  <1> QED
    BY <1>1, <1>2, <1>3, AfterNothing

-----------------------------------------------------------------------------
(* What leads to the rows that are due.                                    *)

LEMMA LeadsBehind ==
  ASSUME NEW s, NEW p, NEW q \in Seq(Frame), NEW rows, NEW due, NEW f \in Frame,
         f.t # "cchg", Leads(s, p, q, rows, due)
  PROVE  Leads(s, p, Append(q, f), rows, due)
  <1>1. \A r, v : After(Append(q, f), r, v) = IF Tells(f, r) THEN f.d[r] ELSE After(q, r, v)
    BY AfterAppend
  <1>2. \A r, v : After(Append(q, f), r, v) = After(q, r, v)
    BY <1>1 DEF Tells
  <1> QED
    BY <1>2 DEF Leads

LEMMA TailFirst ==
  ASSUME NEW q \in Seq(Frame), q # <<>>
  PROVE  \A r, v : After(q, r, v) = After(Tail(q), r, IF Tells(Head(q), r) THEN Head(q).d[r] ELSE v)
  BY AfterTail

LEMMA LeadsAhead ==
  ASSUME NEW s, NEW p, NEW q \in Seq(Frame), NEW rows, NEW due, q # <<>>,
         Head(q).t # "cchg", Leads(s, p, q, rows, due)
  PROVE  Leads(s, p, Tail(q), rows, due)
  <1>1. \A r, v : After(q, r, v) = After(Tail(q), r, v)
    BY TailFirst DEF Tells
  <1> QED
    BY <1>1 DEF Leads

\* The client buffers a change.
LEMMA LeadsBuffered ==
  ASSUME NEW s, NEW p \in Seq(Frame), NEW q \in Seq(Frame), NEW rows, NEW due, q # <<>>,
         Leads(s, p, q, rows, due)
  PROVE  Leads(s, Append(p, Head(q)), Tail(q), rows, due)
  <1>1. Head(q) \in Frame
    BY HeadTailProperties
  <1>2. \A r, v : After(Append(p, Head(q)), r, v)
                    = IF Tells(Head(q), r) THEN Head(q).d[r] ELSE After(p, r, v)
    BY <1>1, AfterAppend
  <1>3. \A r, v : After(q, r, After(p, r, v)) = After(Tail(q), r, After(Append(p, Head(q)), r, v))
    BY <1>2, TailFirst
  <1> QED
    BY <1>3 DEF Leads

\* The client applies the changes that lead up to q.
LEMMA LeadsReplayed ==
  ASSUME NEW s, NEW p, NEW q \in Seq(Frame), NEW rows, NEW due, Leads(s, p, q, rows, due)
  PROVE  Leads(s, <<>>, q, Replay(s, p, rows), due)
  <1> SUFFICES ASSUME NEW r \in Rows
               PROVE  View(s, After(q, r, After(<<>>, r, Replay(s, p, rows)[r]))) = due[r]
    BY DEF Leads
  <1>1. Replay(s, p, rows)[r] = View(s, After(p, r, rows[r]))
    BY DEF Replay
  <1>2. \A v : After(<<>>, r, v) = v
    BY AfterNothing
  <1>3. \A v : View(s, After(q, r, View(s, v))) = View(s, After(q, r, v))
    BY AfterView
  <1>4. View(s, After(q, r, After(p, r, rows[r]))) = due[r]
    BY DEF Leads
  <1> QED
    BY <1>1, <1>2, <1>3, <1>4

\* The client applies the change that arrives.
LEMMA LeadsApplied ==
  ASSUME NEW s, NEW q \in Seq(Frame), NEW rows, NEW due, q # <<>>,
         Leads(s, <<>>, q, rows, due)
  PROVE  Leads(s, <<>>, Tail(q), Replay(s, <<Head(q)>>, rows), due)
  <1>1. Head(q) \in Frame /\ Tail(q) \in Seq(Frame)
    BY HeadTailProperties
  <1>2. \A r, v : After(<<Head(q)>>, r, v) = IF Tells(Head(q), r) THEN Head(q).d[r] ELSE v
    BY <1>1, AfterFirst
  <1>3. \A r, v : After(<<>>, r, v) = v
    BY AfterNothing
  <1>4. \A r, v : After(q, r, After(<<>>, r, v)) = After(Tail(q), r, After(<<Head(q)>>, r, v))
    BY <1>2, <1>3, TailFirst
  <1>5. Leads(s, <<Head(q)>>, Tail(q), rows, due)
    BY <1>4 DEF Leads
  <1> QED
    BY <1>1, <1>5, LeadsReplayed

\* The server tells a change, which makes other rows due, wherever its own rows start from.
LEMMA LeadsTold ==
  ASSUME NEW s, NEW p, NEW q \in Seq(Frame), NEW f \in Frame, f.t = "cchg",
         NEW rows, NEW newer, NEW due, NEW later, Leads(s, p, q, rows, due),
         \A r \in Rows : IF r \in DOMAIN f.d THEN later[r] = View(s, f.d[r])
                       ELSE later[r] = due[r] /\ newer[r] = rows[r]
  PROVE  Leads(s, p, Append(q, f), newer, later)
  <1>1. \A r, v : After(Append(q, f), r, v) = IF Tells(f, r) THEN f.d[r] ELSE After(q, r, v)
    BY AfterAppend
  <1>2. \A r, v : After(Append(q, f), r, v) = IF r \in DOMAIN f.d THEN f.d[r] ELSE After(q, r, v)
    BY <1>1 DEF Tells
  <1> QED
    BY <1>2 DEF Leads

\* Rows that have been read are due, as long as no older change is buffered.
LEMMA LeadsRead ==
  ASSUME NEW s, NEW q, NEW rows, \A i \in 1..Len(q) : q[i].t # "cchg"
  PROVE  Leads(s, <<>>, q, Admitted(s, rows), Admitted(s, rows))
  <1>1. \A r, v : After(q, r, v) = v /\ After(<<>>, r, v) = v
    BY AfterNone, AfterNothing DEF Tells
  <1>2. \A r \in Rows : View(s, Admitted(s, rows)[r]) = Admitted(s, rows)[r]
    BY DEF View, Admitted
  <1> QED
    BY <1>1, <1>2 DEF Leads

-----------------------------------------------------------------------------
(* The frames behind one that is under way.                                *)

LEMMA BeyondFrames ==
  ASSUME NEW q \in Seq(Frame), NEW i \in 1..Len(q)
  PROVE  /\ Beyond(q, i) \in Seq(Frame) /\ Len(Beyond(q, i)) = Len(q) - i
         /\ \A k \in 1..(Len(q) - i) : Beyond(q, i)[k] = q[i + k]
  <1>1. Len(q) \in Nat /\ \A k \in (i + 1)..Len(q) : q[k] \in Frame
    BY ElementOfSeq
  <1>2. /\ Beyond(q, i) \in Seq(Frame)
        /\ Len(Beyond(q, i)) = IF i + 1 <= Len(q) THEN Len(q) - (i + 1) + 1 ELSE 0
        /\ \A k \in 1..(Len(q) - (i + 1) + 1) : Beyond(q, i)[k] = q[i + 1 + k - 1]
    BY <1>1, SubSeqProperties DEF Beyond
  <1>3. \A k \in 1..(Len(q) - i) : k \in 1..(Len(q) - (i + 1) + 1) /\ i + 1 + k - 1 = i + k
    BY <1>1
  <1> QED
    BY <1>1, <1>2, <1>3

LEMMA BeyondAppend ==
  ASSUME NEW q \in Seq(Frame), NEW f \in Frame, NEW i \in 1..Len(q)
  PROVE  Beyond(q, i) \in Seq(Frame) /\ Beyond(Append(q, f), i) = Append(Beyond(q, i), f)
  <1>1. /\ Len(q) \in Nat /\ Append(q, f) \in Seq(Frame) /\ Len(Append(q, f)) = Len(q) + 1
        /\ Append(q, f)[Len(q) + 1] = f /\ \A k \in 1..Len(q) : Append(q, f)[k] = q[k]
    BY AppendProperties
  <1>2. /\ Beyond(q, i) \in Seq(Frame) /\ Len(Beyond(q, i)) = Len(q) - i
        /\ \A k \in 1..(Len(q) - i) : Beyond(q, i)[k] = q[i + k]
    BY BeyondFrames
  <1>3. /\ Beyond(Append(q, f), i) \in Seq(Frame)
        /\ Len(Beyond(Append(q, f), i)) = Len(q) + 1 - i
        /\ \A k \in 1..(Len(q) + 1 - i) : Beyond(Append(q, f), i)[k] = Append(q, f)[i + k]
    <2>1. i \in 1..Len(Append(q, f)) /\ Len(q) + 1 - i = Len(Append(q, f)) - i
      BY <1>1
    <2>2. /\ Beyond(Append(q, f), i) \in Seq(Frame)
          /\ Len(Beyond(Append(q, f), i)) = Len(Append(q, f)) - i
          /\ \A k \in 1..(Len(Append(q, f)) - i) : Beyond(Append(q, f), i)[k] = Append(q, f)[i + k]
      BY <1>1, <2>1, BeyondFrames
    <2> QED
      BY <2>1, <2>2
  <1>4. /\ Append(Beyond(q, i), f) \in Seq(Frame)
        /\ Len(Append(Beyond(q, i), f)) = Len(q) - i + 1
        /\ Append(Beyond(q, i), f)[Len(q) - i + 1] = f
        /\ \A k \in 1..(Len(q) - i) : Append(Beyond(q, i), f)[k] = Beyond(q, i)[k]
    BY <1>2, AppendProperties
  <1>5. ASSUME NEW k \in 1..(Len(q) + 1 - i)
        PROVE  Beyond(Append(q, f), i)[k] = Append(Beyond(q, i), f)[k]
    <2>1. CASE k = Len(q) + 1 - i
      <3>1. i + k = Len(q) + 1 /\ k = Len(q) - i + 1
        BY <1>1, <2>1
      <3> QED
        BY <1>1, <1>3, <1>4, <3>1
    <2>2. CASE k # Len(q) + 1 - i
      <3>1. k \in 1..(Len(q) - i) /\ i + k \in 1..Len(q)
        BY <1>1, <2>2
      <3> QED
        BY <1>1, <1>2, <1>3, <1>4, <3>1
    <2> QED
      BY <2>1, <2>2
  <1>6. Len(Append(Beyond(q, i), f)) = Len(Beyond(Append(q, f), i))
    BY <1>1, <1>3, <1>4
  <1> QED
    BY <1>2, <1>3, <1>4, <1>5, <1>6, SeqEqual

LEMMA BeyondLast ==
  ASSUME NEW q \in Seq(Frame), NEW f \in Frame
  PROVE  Beyond(Append(q, f), Len(q) + 1) = <<>>
  <1>1. /\ Len(q) \in Nat /\ Append(q, f) \in Seq(Frame) /\ Len(Append(q, f)) = Len(q) + 1
    BY AppendProperties
  <1> QED
    BY <1>1, SubSeqEmpty DEF Beyond

LEMMA BeyondTail ==
  ASSUME NEW q \in Seq(Frame), q # <<>>, NEW i \in 1..Len(q)
  PROVE  IF i = 1 THEN Beyond(q, i) = Tail(q)
         ELSE i - 1 \in 1..Len(Tail(q)) /\ Tail(q)[i - 1] = q[i] /\ Beyond(Tail(q), i - 1) = Beyond(q, i)
  <1>1. /\ Len(q) \in Nat /\ Tail(q) \in Seq(Frame) /\ Len(Tail(q)) = Len(q) - 1
        /\ \A k \in 1..(Len(q) - 1) : Tail(q)[k] = q[k + 1]
    BY HeadTailProperties, EmptySeq
  <1>2. /\ Beyond(q, i) \in Seq(Frame) /\ Len(Beyond(q, i)) = Len(q) - i
        /\ \A k \in 1..(Len(q) - i) : Beyond(q, i)[k] = q[i + k]
    BY BeyondFrames
  <1>3. CASE i = 1
    <2>1. \A k \in 1..Len(Tail(q)) : Beyond(q, i)[k] = Tail(q)[k]
      BY <1>1, <1>2, <1>3
    <2> QED
      BY <1>1, <1>2, <1>3, <2>1, SeqEqual
  <1>4. CASE i # 1
    <2>1. i - 1 \in 1..Len(Tail(q)) /\ i - 1 + 1 = i
      BY <1>1, <1>4
    <2>2. /\ Beyond(Tail(q), i - 1) \in Seq(Frame)
          /\ Len(Beyond(Tail(q), i - 1)) = Len(Tail(q)) - (i - 1)
          /\ \A k \in 1..(Len(Tail(q)) - (i - 1)) : Beyond(Tail(q), i - 1)[k] = Tail(q)[i - 1 + k]
      BY <1>1, <2>1, BeyondFrames
    <2>3. ASSUME NEW k \in 1..(Len(q) - i)
          PROVE  Beyond(Tail(q), i - 1)[k] = Beyond(q, i)[k]
      <3>1. /\ i - 1 + k \in 1..(Len(q) - 1) /\ i - 1 + k + 1 = i + k
            /\ k \in 1..(Len(Tail(q)) - (i - 1))
        BY <1>1
      <3> QED
        BY <1>1, <1>2, <2>2, <3>1
    <2>4. Len(Beyond(Tail(q), i - 1)) = Len(q) - i
      <3>1. Len(Tail(q)) - (i - 1) = Len(q) - i
        BY <1>1
      <3> QED
        BY <2>2, <3>1
    <2>5. Beyond(Tail(q), i - 1) = Beyond(q, i)
      BY <1>2, <2>2, <2>3, <2>4, SeqEqual
    <2> QED
      BY <1>1, <1>4, <2>1, <2>5
  <1> QED
    BY <1>3, <1>4

-----------------------------------------------------------------------------
(* What a batch makes due is told.                                         *)

LEMMA ToldIsChange ==
  ASSUME NEW rows, NEW b \in Batches, NEW known
  PROVE  Told(rows, b, known) \in Change /\ DOMAIN Told(rows, b, known) = Routed(rows, b, known)
         /\ Routed(rows, b, known) \subseteq DOMAIN b
         /\ Routed(rows, b, known) \subseteq Rows
  <1>1. Routed(rows, b, known) \subseteq DOMAIN b /\ DOMAIN b \subseteq Rows
    BY RowConstants DEF Routed
  <1>2. \A r \in DOMAIN b : b[r].row \in Values \cup {Absent}
    BY BatchOps
  <1>3. Told(rows, b, known) \in [Routed(rows, b, known) -> Values \cup {Absent}]
    BY <1>1, <1>2 DEF Told
  <1>4. Routed(rows, b, known) \in SUBSET Rows
    BY <1>1
  <1> QED
    BY <1>1, <1>3, <1>4 DEF Change

LEMMA RoutedIsDue ==
  ASSUME NEW s \in reg, s \in Subs, NEW rows, NEW b \in Batches, NEW known \in BOOLEAN, NEW r \in Rows,
         Applies(rows, b),
         ~ \E x \in DOMAIN Told(rows, b, known) : Told(rows, b, known)[x] \in Filter[s] \ Readable
  PROVE  Admitted(s, Apply(rows, b))[r] =
           IF r \in DOMAIN Told(rows, b, known) THEN View(s, Told(rows, b, known)[r])
           ELSE Admitted(s, rows)[r]
  <1> PICK now : now = Admitted(s, Apply(rows, b))[r]
    OBVIOUS
  <1> PICK before : before = Admitted(s, rows)[r]
    OBVIOUS
  <1>1. DOMAIN Told(rows, b, known) = Routed(rows, b, known) /\ Routed(rows, b, known) \subseteq DOMAIN b
    BY ToldIsChange
  <1>2. /\ now = IF r \in DOMAIN b
                   THEN IF b[r].row \in Filter[s] \cap Readable THEN b[r].row ELSE Absent
                   ELSE before
        /\ before = IF rows[r] \in Filter[s] \cap Readable THEN rows[r] ELSE Absent
    BY DEF Admitted, Apply
  <1>3. Filter[s] \cap Readable \subseteq Effective /\ Absent \notin Filter[s]
    BY RowConstants, FeedConstants DEF Effective
  <1>4. CASE r \in Routed(rows, b, known)
    <2>1. Told(rows, b, known)[r] = IF known \/ b[r].row \in Effective THEN b[r].row ELSE Absent
      BY <1>4 DEF Told
    <2>2. Told(rows, b, known)[r] \notin Filter[s] \ Readable
      BY <1>1, <1>4
    <2>3. now = View(s, Told(rows, b, known)[r])
      BY <1>1, <1>2, <1>3, <1>4, <2>1, <2>2 DEF View
    <2> QED
      BY <1>1, <1>4, <2>3
  <1>5. CASE r \notin Routed(rows, b, known)
    <2>1. CASE r \notin DOMAIN b
      BY <1>1, <1>2, <1>5, <2>1
    <2>2. CASE r \in DOMAIN b
      <3>1. /\ b[r].k \in {"insert", "update", "delete"}
            /\ b[r].k = "delete" => b[r].row = Absent
            /\ b[r].k = "insert" => rows[r] = Absent
        BY <2>2, BatchOps DEF Applies, Op
      <3>2. \/ b[r].k = "update" /\ known /\ rows[r] = b[r].row
            \/ b[r].k = "delete" /\ rows[r] = Absent
            \/ b[r].row \notin Effective /\ ~ IF known THEN rows[r] \in Effective ELSE b[r].k # "insert"
        BY <1>5, <2>2 DEF Routed
      <3>3. now = before
        BY <1>2, <1>3, <2>2, <3>1, <3>2
      <3> QED
        BY <1>1, <1>5, <3>3
    <2> QED
      BY <2>1, <2>2
  <1> QED
    BY <1>4, <1>5

-----------------------------------------------------------------------------
(* Types.                                                                  *)

LEMMA SnapshotTypes ==
  ASSUME NEW s \in Subs, NEW q, NEW rows
  PROVE  Replay(s, q, rows) \in Snapshot /\ Admitted(s, rows) \in Snapshot
  <1>1. Filter[s] \subseteq Values
    BY FeedConstants
  <1>2. \A v : View(s, v) \in Values \cup {Absent}
    BY <1>1 DEF View
  <1>3. Replay(s, q, rows) \in Snapshot
    BY <1>2 DEF Replay, Snapshot
  <1>4. Admitted(s, rows) \in Snapshot
    BY <1>1 DEF Admitted, Snapshot
  <1> QED
    BY <1>3, <1>4

LEMMA FrameTypes ==
  /\ \A d \in Change : [t |-> "cchg", d |-> d] \in Frame
  /\ \A s \in Subs : [t |-> "err", s |-> s] \in Frame
  /\ \A s \in Subs, rows \in Snapshot : [t |-> "res", s |-> s, rows |-> rows] \in Frame
  /\ \A f \in Frame : f.t = "res" => f.s \in Subs /\ f.rows \in Snapshot
  BY DEF Frame

\* What routing does to the connection.
LEMMA RouteSends ==
  ASSUME TypeOK, NEW n \in Nodes, NEW b \in Batches, Route(n, b)
  PROVE  /\ \/ wire' = wire
            \/ at = n /\ \E f \in Frame : f.t = "cchg" /\ wire' = Append(wire, f)
         /\ wire' \in Seq(Frame) /\ intact' \in [Subs -> BOOLEAN]
  <1>1. wire \in Seq(Frame) /\ intact \in [Subs -> BOOLEAN]
    BY DEF TypeOK
  <1>2. CASE at = n /\ Applies(store[n], b) /\ reg # {}
    <2>1. PICK known \in PrevKnown :
            /\ wire' = IF DOMAIN Told(store[n], b, known) = {} THEN wire
                       ELSE Append(wire, [t |-> "cchg", d |-> Told(store[n], b, known)])
            /\ intact' = [s \in Subs |-> intact[s] /\ ~ Loses(s, Told(store[n], b, known))]
      BY <1>2 DEF Route
    <2>2. PICK f \in Frame : f = [t |-> "cchg", d |-> Told(store[n], b, known)]
      BY ToldIsChange, FrameTypes
    <2>3. f.t = "cchg" /\ (wire' = wire \/ wire' = Append(wire, f))
      BY <2>1, <2>2
    <2>4. Append(wire, f) \in Seq(Frame)
      BY <1>1, AppendProperties
    <2>5. \A s \in Subs : (intact[s] /\ ~ Loses(s, Told(store[n], b, known))) \in BOOLEAN
      OBVIOUS
    <2>6. intact' \in [Subs -> BOOLEAN]
      BY <2>1, <2>5
    <2> QED
      BY <1>1, <1>2, <2>3, <2>4, <2>6
  <1>3. CASE ~ (at = n /\ Applies(store[n], b) /\ reg # {})
    BY <1>1, <1>3 DEF Route
  <1> QED
    BY <1>2, <1>3

LEMMA FeedTypes == TypeOK /\ [Next]_vars => TypeOK'
  <1> SUFFICES ASSUME TypeOK, [Next]_vars PROVE TypeOK'
    OBVIOUS
  <1>1. /\ RelayTypeOK /\ at \in Nodes \cup {Offline}
        /\ reg \subseteq Subs /\ leaving \subseteq Subs /\ waiting \subseteq Subs
        /\ serving \in [Subs -> [pc : {"none", "asked", "reading"}] \cup [pc : {"read"}, rows : Snapshot]]
        /\ wire \in Seq(Frame)
        /\ sub \in [Subs -> {"new", "opening", "live", "failed", "closed"}]
        /\ map \in [Subs -> Snapshot] /\ pending \in [Subs -> Seq(Frame)]
        /\ intact \in [Subs -> BOOLEAN] /\ drops \in 0..MaxDrops /\ failures \in 0..MaxFailures
    BY DEF TypeOK
  <1>2. UNCHANGED relayVars => RelayTypeOK'
    BY <1>1 DEF relayVars, RelayTypeOK
  <1>3. \A f \in Frame : Append(wire, f) \in Seq(Frame)
    BY <1>1, AppendProperties
  <1>4. wire # <<>> => Head(wire) \in Frame /\ Tail(wire) \in Seq(Frame)
    BY <1>1, HeadTailProperties
  <1>5. drops < MaxDrops => drops + 1 \in 0..MaxDrops
    BY <1>1, FeedConstants
  <1>6. failures < MaxFailures => failures + 1 \in 0..MaxFailures
    BY <1>1, FeedConstants
  <1>7. <<>> \in Seq(Frame)
    OBVIOUS
  <1>8. ASSUME NEW n \in Nodes, NEW b \in Batches, Write(n, b)
        PROVE  TypeOK'
    <2>1. RelayTypeOK'
      BY <1>1, <1>8, CommitChanges DEF Write
    <2>2. wire' \in Seq(Frame) /\ intact' \in [Subs -> BOOLEAN]
      BY <1>8, RouteSends DEF Write
    <2> QED
      BY <1>1, <1>8, <2>1, <2>2 DEF Write, serverVars, clientVars, TypeOK
  <1>9. ASSUME NEW m \in Nodes, NEW n \in Nodes, NEW b \in Batches, Ingest(m, n, b)
        PROVE  TypeOK'
    <2>1. RelayTypeOK'
      BY <1>1, <1>9, OnRelayChanges DEF Ingest
    <2>2. wire' \in Seq(Frame) /\ intact' \in [Subs -> BOOLEAN]
      BY <1>9, RouteSends DEF Ingest
    <2> QED
      BY <1>1, <1>9, <2>1, <2>2 DEF Ingest, serverVars, clientVars, TypeOK
  <1>10. CASE ReceiveChange
    <2>1. pending' \in [Subs -> Seq(Frame)]
      <3>1. \A s \in Subs : Append(pending[s], Head(wire)) \in Seq(Frame)
        BY <1>1, <1>4, <1>10, AppendProperties DEF ReceiveChange
      <3> QED
        BY <1>1, <1>10, <3>1 DEF ReceiveChange
    <2>2. map' \in [Subs -> Snapshot]
      BY <1>1, <1>10, SnapshotTypes DEF ReceiveChange
    <2> QED
      BY <1>1, <1>2, <1>4, <1>10, <2>1, <2>2 DEF ReceiveChange, serverVars, TypeOK
  <1>11. ASSUME NEW s \in Subs, ReceiveSnapshot(s)
         PROVE  TypeOK'
    <2>1. Head(wire).rows \in Snapshot
      BY <1>4, <1>11, FrameTypes DEF ReceiveSnapshot
    <2>2. map' \in [Subs -> Snapshot]
      <3>1. Replay(s, pending[s], Head(wire).rows) \in Snapshot
        BY SnapshotTypes
      <3>2. PICK held \in Snapshot :
              held = IF Settling(s) THEN Head(wire).rows ELSE Replay(s, pending[s], Head(wire).rows)
        BY <2>1, <3>1
      <3>3. map' = map \/ map' = [map EXCEPT ![s] = held]
        BY <1>11, <3>2 DEF ReceiveSnapshot
      <3> QED
        BY <1>1, <3>2, <3>3
    <2>3. pending' \in [Subs -> Seq(Frame)]
      BY <1>1, <1>7, <1>11 DEF ReceiveSnapshot
    <2>4. sub' \in [Subs -> {"new", "opening", "live", "failed", "closed"}]
      <3>1. sub' = sub \/ sub' = [sub EXCEPT ![s] = "live"]
        BY <1>11 DEF ReceiveSnapshot
      <3> QED
        BY <1>1, <3>1
    <2>5. waiting' \subseteq Subs /\ wire' \in Seq(Frame)
      BY <1>1, <1>4, <1>11 DEF ReceiveSnapshot
    <2> QED
      BY <1>1, <1>2, <1>11, <2>2, <2>3, <2>4, <2>5 DEF ReceiveSnapshot, serverVars, TypeOK
  <1>12. ASSUME NEW s \in Subs, Failed(s)
         PROVE  /\ waiting' \subseteq Subs /\ intact' \in [Subs -> BOOLEAN]
                /\ sub' \in [Subs -> {"new", "opening", "live", "failed", "closed"}]
    BY <1>1, <1>12 DEF Failed
  <1>13. ASSUME NEW s \in Subs, ReceiveError(s)
         PROVE  TypeOK'
    <2>1. /\ waiting' \subseteq Subs /\ intact' \in [Subs -> BOOLEAN]
          /\ sub' \in [Subs -> {"new", "opening", "live", "failed", "closed"}]
      BY <1>1, <1>12, <1>13 DEF ReceiveError
    <2> QED
      BY <1>1, <1>2, <1>4, <1>13, <2>1 DEF ReceiveError, serverVars, TypeOK
  <1>14. ASSUME NEW s \in Subs, TimeOut(s)
         PROVE  TypeOK'
    BY <1>1, <1>2, <1>6, <1>12, <1>14 DEF TimeOut, serverVars, TypeOK
  <1>15. CASE OnClose
    BY <1>1, <1>2, <1>5, <1>7, <1>15 DEF OnClose, Quiet, TypeOK
  <1>16. ASSUME NEW n \in Nodes, OnOpen(n)
         PROVE  TypeOK'
    BY <1>1, <1>2, <1>16 DEF OnOpen, Quiet, TypeOK
  <1>17. ASSUME NEW s \in Subs, Subscribe(s)
         PROVE  TypeOK'
    <2>1. waiting' \subseteq Subs
      BY <1>1, <1>17 DEF Subscribe
    <2>2. serving' \in [Subs -> [pc : {"none", "asked", "reading"}] \cup [pc : {"read"}, rows : Snapshot]]
      <3>1. PICK asked \in [pc : {"asked"}] : asked = [pc |-> "asked"]
        OBVIOUS
      <3>2. serving' = serving \/ serving' = [serving EXCEPT ![s] = asked]
        BY <1>17, <3>1 DEF Subscribe
      <3>3. asked \in [pc : {"none", "asked", "reading"}]
        BY <3>1
      <3> QED
        BY <1>1, <3>2, <3>3
    <2> QED
      BY <1>1, <1>2, <1>17, <2>1, <2>2 DEF Subscribe, TypeOK
  <1>18. ASSUME NEW s \in Subs, Close(s)
         PROVE  TypeOK'
    BY <1>1, <1>2, <1>18 DEF Close, TypeOK
  <1>19. ASSUME NEW s \in Subs, Register(s)
         PROVE  TypeOK'
    <2>1. (s \in waiting /\ ~ Buffered(s)) \in BOOLEAN
      OBVIOUS
    <2>2. intact' \in [Subs -> BOOLEAN]
      BY <1>1, <1>19, <2>1 DEF Register
    <2> QED
      BY <1>1, <1>2, <1>19, <2>2 DEF Register, clientVars, TypeOK
  <1>20. ASSUME NEW s \in Subs, ReadSnapshot(s)
         PROVE  TypeOK'
    <2>1. Admitted(s, store[at]) \in Snapshot
      BY SnapshotTypes
    <2>2. [pc |-> "read", rows |-> Admitted(s, store[at])] \in [pc : {"read"}, rows : Snapshot]
      BY <2>1
    <2>3. serving' \in [Subs -> [pc : {"none", "asked", "reading"}] \cup [pc : {"read"}, rows : Snapshot]]
      BY <1>1, <1>20, <2>2 DEF ReadSnapshot
    <2> QED
      BY <1>1, <1>2, <1>20, <2>3 DEF ReadSnapshot, clientVars, TypeOK
  <1>21. ASSUME NEW s \in Subs, Answer(s)
         PROVE  TypeOK'
    <2>1. serving[s].rows \in Snapshot
      BY <1>1, <1>21 DEF Answer
    <2>2. wire' \in Seq(Frame)
      BY <1>3, <1>21, <2>1, FrameTypes DEF Answer
    <2> QED
      BY <1>1, <1>2, <1>21, <2>2 DEF Answer, Quiet, clientVars, TypeOK
  <1>22. ASSUME NEW s \in Subs, Failing(s)
         PROVE  /\ wire' \in Seq(Frame) /\ failures' \in 0..MaxFailures
                /\ serving' \in [Subs -> [pc : {"none", "asked", "reading"}] \cup [pc : {"read"}, rows : Snapshot]]
    BY <1>1, <1>3, <1>6, <1>22, FrameTypes DEF Failing, Quiet
  <1>23. ASSUME NEW s \in Subs, Refuse(s)
         PROVE  TypeOK'
    BY <1>1, <1>2, <1>22, <1>23 DEF Refuse, clientVars, TypeOK
  <1>24. ASSUME NEW s \in Subs, SnapshotFails(s)
         PROVE  TypeOK'
    BY <1>1, <1>2, <1>22, <1>24 DEF SnapshotFails, clientVars, TypeOK
  <1>25. ASSUME NEW s \in Subs, OnUnsub(s)
         PROVE  TypeOK'
    BY <1>1, <1>2, <1>25 DEF OnUnsub, clientVars, TypeOK
  <1>26. CASE UNCHANGED vars
    BY <1>1, <1>2, <1>26 DEF vars, serverVars, clientVars, TypeOK
  <1> QED
    BY <1>8, <1>9, <1>10, <1>11, <1>13, <1>14, <1>15, <1>16, <1>17, <1>18, <1>19, <1>20, <1>21,
       <1>23, <1>24, <1>25, <1>26 DEF Next, Receive, Serve

-----------------------------------------------------------------------------
(* Asking and answering.                                                   *)

LEMMA AnswerJoins ==
  ASSUME NEW q \in Seq(Frame), NEW f \in Frame, NEW s,
         AnsweredOnce(q, s), IsAnswer(f, s) => ~ Answered(q, s)
  PROVE  /\ AnsweredOnce(Append(q, f), s)
         /\ Answered(Append(q, f), s) => Answered(q, s) \/ IsAnswer(f, s)
  <1> PICK p : p = Append(q, f)
    OBVIOUS
  <1>1. /\ Len(q) \in Nat /\ Len(p) = Len(q) + 1 /\ p[Len(q) + 1] = f
        /\ \A i \in 1..Len(q) : p[i] = q[i]
    BY AppendProperties
  <1>2. \A i \in 1..Len(p) : IF i \in 1..Len(q) THEN p[i] = q[i] ELSE i = Len(q) + 1 /\ p[i] = f
    BY <1>1
  <1>3. AnsweredOnce(p, s)
    BY <1>1, <1>2 DEF AnsweredOnce, Answered
  <1>4. Answered(p, s) => Answered(q, s) \/ IsAnswer(f, s)
    BY <1>2 DEF Answered
  <1> QED
    BY <1>3, <1>4

LEMMA AnswerLeaves ==
  ASSUME NEW q \in Seq(Frame), q # <<>>, NEW s, AnsweredOnce(q, s)
  PROVE  /\ AnsweredOnce(Tail(q), s)
         /\ Answered(Tail(q), s) => Answered(q, s) /\ ~ IsAnswer(Head(q), s)
  <1> PICK p : p = Tail(q)
    OBVIOUS
  <1>1. /\ Len(q) \in Nat /\ 1 \in 1..Len(q) /\ Head(q) = q[1]
        /\ \A i \in 1..Len(p) : i + 1 \in 1..Len(q) /\ p[i] = q[i + 1] /\ i + 1 # 1
    BY HeadTailProperties, EmptySeq
  <1>2. AnsweredOnce(p, s)
    <2> SUFFICES ASSUME NEW i \in 1..Len(p), NEW j \in 1..Len(p), IsAnswer(p[i], s), IsAnswer(p[j], s)
                 PROVE  i = j
      BY DEF AnsweredOnce
    <2>1. i + 1 = j + 1
      BY <1>1 DEF AnsweredOnce
    <2> QED
      BY <1>1, <2>1
  <1>3. Answered(p, s) => Answered(q, s) /\ ~ IsAnswer(Head(q), s)
    BY <1>1 DEF Answered, AnsweredOnce
  <1> QED
    BY <1>2, <1>3

\* A step that sends at most the answer of a handler that is done, receives at most one frame,
\* and starts no handler but that of a new subscription.
LEMMA AskedOnce ==
  ASSUME TypeOK, NewIsUnknown, OneAnswer,
         \/ wire' = wire
         \/ wire # <<>> /\ wire' = Tail(wire)
         \/ \E f \in Frame :
              /\ wire' = Append(wire, f)
              /\ \A s \in Subs : IsAnswer(f, s) => serving[s].pc # "none" /\ serving'[s].pc = "none",
         \A s \in Subs :
           /\ serving'[s].pc # "none" =>
                serving[s].pc # "none" \/ (sub[s] = "new" /\ sub'[s] # "new")
           /\ sub'[s] = "new" => sub[s] = "new" /\ (s \in waiting' => s \in waiting)
  PROVE  NewIsUnknown' /\ OneAnswer'
  <1>1. wire \in Seq(Frame)
    BY DEF TypeOK
  <1>2. \A s \in Subs : AnsweredOnce(wire, s) /\ (serving[s].pc # "none" => ~ Answered(wire, s))
    BY DEF OneAnswer
  <1>3. ASSUME NEW s \in Subs
        PROVE  /\ AnsweredOnce(wire', s)
               /\ Answered(wire', s) => Answered(wire, s) \/ (serving[s].pc # "none" /\ serving'[s].pc = "none")
    <2>1. CASE wire' = wire
      BY <1>2, <2>1
    <2>2. CASE wire # <<>> /\ wire' = Tail(wire)
      BY <1>1, <1>2, <2>2, AnswerLeaves
    <2>3. ASSUME NEW f \in Frame, wire' = Append(wire, f),
                 \A t \in Subs : IsAnswer(f, t) => serving[t].pc # "none" /\ serving'[t].pc = "none"
          PROVE  /\ AnsweredOnce(wire', s)
                 /\ Answered(wire', s) => Answered(wire, s) \/ (serving[s].pc # "none" /\ serving'[s].pc = "none")
      <3>1. IsAnswer(f, s) => ~ Answered(wire, s)
        BY <1>2, <2>3
      <3>2. /\ AnsweredOnce(Append(wire, f), s)
            /\ Answered(Append(wire, f), s) => Answered(wire, s) \/ IsAnswer(f, s)
        BY <1>1, <1>2, <3>1, AnswerJoins
      <3> QED
        BY <2>3, <3>2
    <2> QED
      BY <2>1, <2>2, <2>3
  <1>4. OneAnswer'
    <2> SUFFICES ASSUME NEW s \in Subs
                 PROVE  AnsweredOnce(wire', s) /\ (serving'[s].pc # "none" => ~ Answered(wire', s))
      BY DEF OneAnswer
    <2>1. sub[s] = "new" => ~ Answered(wire, s)
      BY DEF NewIsUnknown
    <2> QED
      BY <1>2, <1>3, <2>1
  <1>5. NewIsUnknown'
    <2> SUFFICES ASSUME NEW s \in Subs, sub'[s] = "new"
                 PROVE  s \notin waiting' /\ serving'[s].pc = "none" /\ ~ Answered(wire', s)
      BY DEF NewIsUnknown
    <2>1. sub[s] = "new" /\ s \notin waiting /\ serving[s].pc = "none" /\ ~ Answered(wire, s)
      BY DEF NewIsUnknown
    <2> QED
      BY <1>3, <2>1
  <1> QED
    BY <1>4, <1>5

LEMMA ProtocolStep == TypeOK /\ Protocol /\ [Next]_vars => Protocol'
  <1> SUFFICES ASSUME TypeOK, OfflineIsEmpty, NewIsUnknown, OneAnswer, LeavingIsClosed, [Next]_vars
               PROVE  Protocol'
    BY DEF Protocol
  <1>1. /\ at \in Nodes \cup {Offline} /\ Offline \notin Nodes
        /\ reg \subseteq Subs /\ leaving \subseteq Subs /\ waiting \subseteq Subs
        /\ serving \in [Subs -> [pc : {"none", "asked", "reading"}] \cup [pc : {"read"}, rows : Snapshot]]
        /\ wire \in Seq(Frame)
        /\ sub \in [Subs -> {"new", "opening", "live", "failed", "closed"}]
    BY FeedConstants DEF TypeOK
  <1>2. /\ Quiet.pc = "none"
        /\ \A s \in Subs : serving[s].pc # "none" => at # Offline
        /\ wire # <<>> => at # Offline
        /\ \A s \in Subs : s \in waiting \cup leaving \cup reg => at # Offline
    BY DEF OfflineIsEmpty, Quiet
  <1>3. ASSUME NEW n \in Nodes, NEW b \in Batches, Route(n, b),
               UNCHANGED <<at, serverVars, clientVars>>
        PROVE  Protocol'
    <2>1. \/ wire' = wire
          \/ at = n /\ \E f \in Frame : f.t = "cchg" /\ wire' = Append(wire, f)
      BY <1>3, RouteSends
    <2>2. UNCHANGED <<at, reg, serving, leaving, sub, waiting>>
      BY <1>3 DEF serverVars, clientVars
    <2>3. OfflineIsEmpty' /\ LeavingIsClosed'
      BY <1>1, <2>1, <2>2 DEF OfflineIsEmpty, LeavingIsClosed
    <2>4. \A f, s : f.t = "cchg" => ~ IsAnswer(f, s)
      BY DEF IsAnswer
    <2>5. NewIsUnknown' /\ OneAnswer'
      BY <2>1, <2>2, <2>4, AskedOnce
    <2> QED
      BY <2>3, <2>5 DEF Protocol
  <1>4. CASE ReceiveChange
    <2>1. UNCHANGED <<at, reg, serving, leaving, sub, waiting>> /\ wire # <<>> /\ wire' = Tail(wire)
      BY <1>4 DEF ReceiveChange, serverVars
    <2>2. OfflineIsEmpty' /\ LeavingIsClosed'
      BY <1>2, <2>1 DEF OfflineIsEmpty, LeavingIsClosed
    <2>3. NewIsUnknown' /\ OneAnswer'
      BY <2>1, AskedOnce
    <2> QED
      BY <2>2, <2>3 DEF Protocol
  <1>5. ASSUME NEW s \in Subs, ReceiveSnapshot(s) \/ ReceiveError(s)
        PROVE  Protocol'
    <2>1. /\ UNCHANGED <<at, reg, serving, leaving>> /\ wire # <<>> /\ wire' = Tail(wire)
          /\ waiting' \subseteq waiting
          /\ \A t \in Subs : sub'[t] # sub[t] => sub[t] \in {"opening", "live", "failed"} /\ sub'[t] \in {"live", "failed"}
      BY <1>1, <1>5 DEF ReceiveSnapshot, ReceiveError, Failed, serverVars
    <2>2. OfflineIsEmpty' /\ LeavingIsClosed'
      BY <1>1, <1>2, <2>1 DEF OfflineIsEmpty, LeavingIsClosed
    <2>3. NewIsUnknown' /\ OneAnswer'
      BY <2>1, AskedOnce
    <2> QED
      BY <2>2, <2>3 DEF Protocol
  <1>6. ASSUME NEW s \in Subs, TimeOut(s)
        PROVE  Protocol'
    <2>1. /\ UNCHANGED <<at, reg, serving, leaving, wire>> /\ s \in waiting
          /\ waiting' \subseteq waiting
          /\ \A t \in Subs : sub'[t] # sub[t] => sub[t] \in {"opening", "live"} /\ sub'[t] = "failed"
      BY <1>1, <1>6 DEF TimeOut, Failed, serverVars
    <2>2. OfflineIsEmpty' /\ LeavingIsClosed'
      BY <1>1, <1>2, <2>1 DEF OfflineIsEmpty, LeavingIsClosed
    <2>3. NewIsUnknown' /\ OneAnswer'
      BY <2>1, AskedOnce
    <2> QED
      BY <2>2, <2>3 DEF Protocol
  <1>7. CASE OnClose
    <2>1. /\ reg' = {} /\ leaving' = {} /\ waiting' = {} /\ wire' = <<>> /\ sub' = sub
          /\ serving' = [s \in Subs |-> Quiet]
      BY <1>7 DEF OnClose
    <2>2. Len(<<>>) = 0
      BY EmptySeq
    <2>3. \A s : AnsweredOnce(<<>>, s) /\ ~ Answered(<<>>, s)
      BY <2>2 DEF AnsweredOnce, Answered
    <2> QED
      BY <1>2, <2>1, <2>3 DEF Protocol, OfflineIsEmpty, NewIsUnknown, OneAnswer, LeavingIsClosed
  <1>8. ASSUME NEW n \in Nodes, OnOpen(n)
        PROVE  Protocol'
    <2>1. /\ at' = n /\ UNCHANGED <<reg, leaving, sub, wire>> /\ wire = <<>>
          /\ \A s \in Subs : (s \in waiting' \/ serving'[s].pc # "none") => sub[s] \in {"opening", "live", "failed"}
      BY <1>2, <1>8 DEF OnOpen, OfflineIsEmpty
    <2>2. Len(<<>>) = 0
      BY EmptySeq
    <2>3. \A s : AnsweredOnce(<<>>, s) /\ ~ Answered(<<>>, s)
      BY <2>2 DEF AnsweredOnce, Answered
    <2> QED
      BY <1>1, <2>1, <2>3 DEF Protocol, OfflineIsEmpty, NewIsUnknown, OneAnswer, LeavingIsClosed
  <1>9. ASSUME NEW s \in Subs, Subscribe(s)
        PROVE  Protocol'
    <2>1. /\ UNCHANGED <<at, reg, leaving, wire>> /\ sub[s] = "new" /\ sub' = [sub EXCEPT ![s] = "opening"]
          /\ at = Offline => UNCHANGED <<waiting, serving>>
          /\ \A t \in Subs \ {s} : serving'[t] = serving[t] /\ (t \in waiting' <=> t \in waiting)
      BY <1>1, <1>9 DEF Subscribe, Online
    <2>2. OfflineIsEmpty' /\ LeavingIsClosed'
      BY <1>1, <2>1 DEF OfflineIsEmpty, LeavingIsClosed
    <2>3. NewIsUnknown' /\ OneAnswer'
      BY <1>1, <2>1, AskedOnce
    <2> QED
      BY <2>2, <2>3 DEF Protocol
  <1>10. ASSUME NEW s \in Subs, Close(s)
         PROVE  Protocol'
    <2>1. /\ UNCHANGED <<at, reg, serving, wire, waiting>> /\ sub' = [sub EXCEPT ![s] = "closed"]
          /\ leaving' = IF at # Offline THEN leaving \cup {s} ELSE leaving
      BY <1>10 DEF Close, Online
    <2>2. OfflineIsEmpty' /\ LeavingIsClosed'
      BY <1>1, <2>1 DEF OfflineIsEmpty, LeavingIsClosed
    <2>3. NewIsUnknown' /\ OneAnswer'
      BY <1>1, <2>1, AskedOnce
    <2> QED
      BY <2>2, <2>3 DEF Protocol
  <1>11. ASSUME NEW s \in Subs, Register(s) \/ ReadSnapshot(s) \/ OnUnsub(s)
         PROVE  Protocol'
    <2>1. UNCHANGED <<at, wire, sub, waiting>> /\ leaving' \subseteq leaving /\ at # Offline
      BY <1>2, <1>11 DEF Register, ReadSnapshot, OnUnsub, clientVars
    <2>2. \A t \in Subs : serving'[t].pc # "none" => serving[t].pc # "none"
      BY <1>1, <1>11 DEF Register, ReadSnapshot, OnUnsub
    <2>3. OfflineIsEmpty' /\ LeavingIsClosed'
      BY <2>1 DEF OfflineIsEmpty, LeavingIsClosed
    <2>4. NewIsUnknown' /\ OneAnswer'
      BY <2>1, <2>2, AskedOnce
    <2> QED
      BY <2>3, <2>4 DEF Protocol
  <1>12. ASSUME NEW s \in Subs, Answer(s) \/ Refuse(s) \/ SnapshotFails(s)
         PROVE  Protocol'
    <2>1. /\ UNCHANGED <<at, sub, waiting, leaving>> /\ at # Offline
          /\ serving[s].pc # "none" /\ serving' = [serving EXCEPT ![s] = Quiet]
      BY <1>2, <1>12 DEF Answer, Refuse, SnapshotFails, Failing, clientVars
    <2>2. PICK f \in Frame : f.t \in {"res", "err"} /\ f.s = s /\ wire' = Append(wire, f)
      <3>1. Answer(s) => serving[s].rows \in Snapshot
        BY <1>1 DEF Answer
      <3> QED
        BY <1>12, <3>1, FrameTypes DEF Answer, Refuse, SnapshotFails, Failing
    <2>3. \A t \in Subs : IsAnswer(f, t) => t = s
      BY <2>2 DEF IsAnswer
    <2>4. \A t \in Subs : serving'[t].pc # "none" => serving[t].pc # "none"
      BY <1>1, <1>2, <2>1
    <2>5. serving'[s].pc = "none"
      BY <1>1, <1>2, <2>1
    <2>6. OfflineIsEmpty' /\ LeavingIsClosed'
      BY <2>1 DEF OfflineIsEmpty, LeavingIsClosed
    <2>7. NewIsUnknown' /\ OneAnswer'
      BY <2>1, <2>2, <2>3, <2>4, <2>5, AskedOnce
    <2> QED
      BY <2>6, <2>7 DEF Protocol
  <1>13. CASE UNCHANGED vars
    BY <1>13 DEF vars, serverVars, clientVars, Protocol, OfflineIsEmpty, NewIsUnknown, OneAnswer, LeavingIsClosed
  <1> QED
    BY <1>3, <1>4, <1>5, <1>6, <1>7, <1>8, <1>9, <1>10, <1>11, <1>12, <1>13
    DEF Next, Receive, Serve, Write, Ingest

-----------------------------------------------------------------------------
(* A subscription of which nothing is lost stays on its course.            *)

\* The steps of others: at most an answer is sent or received.
LEMMA OthersKeepCourse ==
  ASSUME TypeOK, NEW s \in Subs, OnCourse(s),
         sub'[s] = sub[s], s \in waiting' <=> s \in waiting, serving'[s] = serving[s],
         s \in reg' <=> s \in reg, pending'[s] = pending[s], map'[s] = map[s],
         Admitted(s, store'[at']) = Due(s),
         \/ wire' = wire
         \/ \E f \in Frame : f.t # "cchg" /\ wire' = Append(wire, f)
         \/ /\ wire # <<>> /\ wire' = Tail(wire) /\ Head(wire).t # "cchg"
            /\ s \in waiting => ~ IsAnswer(Head(wire), s)
  PROVE  OnCourse(s)'
  <1> PICK q : q = wire
    OBVIOUS
  <1> PICK w : w = wire'
    OBVIOUS
  <1> PICK due : due = Due(s)
    OBVIOUS
  <1>1. q \in Seq(Frame) /\ Len(q) \in Nat
    BY DEF TypeOK
  <1>2. \/ w = q
        \/ \E f \in Frame : f.t # "cchg" /\ w = Append(q, f)
        \/ /\ q # <<>> /\ w = Tail(q) /\ Head(q).t # "cchg"
           /\ s \in waiting => ~ IsAnswer(Head(q), s)
    OBVIOUS
  <1>3. ASSUME NEW p, NEW rows, Leads(s, p, q, rows, due)
        PROVE  Leads(s, p, w, rows, due)
    <2>1. CASE w = q
      BY <1>3, <2>1
    <2>2. ASSUME NEW f \in Frame, f.t # "cchg", w = Append(q, f)
          PROVE  Leads(s, p, w, rows, due)
      BY <1>1, <1>3, <2>2, LeadsBehind
    <2>3. CASE q # <<>> /\ w = Tail(q) /\ Head(q).t # "cchg"
      BY <1>1, <1>3, <2>3, LeadsAhead
    <2> QED
      BY <1>2, <2>1, <2>2, <2>3
  <1>4. ASSUME NEW i \in 1..Len(q), IsAnswer(q[i], s), s \in waiting
        PROVE  \E j \in 1..Len(w) :
                 /\ w[j] = q[i]
                 /\ \A rows : Leads(s, <<>>, Beyond(q, i), rows, due) => Leads(s, <<>>, Beyond(w, j), rows, due)
    <2>1. CASE w = q
      BY <2>1
    <2>2. ASSUME NEW f \in Frame, f.t # "cchg", w = Append(q, f)
          PROVE  /\ i \in 1..Len(w) /\ w[i] = q[i]
                 /\ \A rows : Leads(s, <<>>, Beyond(q, i), rows, due) => Leads(s, <<>>, Beyond(w, i), rows, due)
      <3>1. i \in 1..Len(w) /\ w[i] = q[i]
        BY <1>1, <2>2, AppendProperties
      <3>2. Beyond(q, i) \in Seq(Frame) /\ Beyond(w, i) = Append(Beyond(q, i), f)
        BY <1>1, <2>2, BeyondAppend
      <3>3. \A rows : Leads(s, <<>>, Beyond(q, i), rows, due) => Leads(s, <<>>, Append(Beyond(q, i), f), rows, due)
        BY <2>2, <3>2, LeadsBehind
      <3> QED
        BY <3>1, <3>2, <3>3
    <2>3. CASE q # <<>> /\ w = Tail(q) /\ ~ IsAnswer(Head(q), s)
      <3>1. i # 1
        <4>1. Head(q) = q[1]
          BY <1>1, <2>3
        <4> QED
          BY <1>4, <2>3, <4>1
      <3>2. i - 1 \in 1..Len(w) /\ w[i - 1] = q[i] /\ Beyond(w, i - 1) = Beyond(q, i)
        BY <1>1, <2>3, <3>1, BeyondTail
      <3> QED
        BY <3>2
    <2> QED
      BY <1>2, <1>4, <2>1, <2>2, <2>3
  <1>5. CASE Reading(s)
    <2>1. Reading(s)'
      BY <1>3, <1>5 DEF Reading, Due
    <2> QED
      BY <2>1 DEF OnCourse
  <1>6. CASE HasRead(s)
    <2>1. HasRead(s)'
      BY <1>3, <1>6 DEF HasRead, Due
    <2> QED
      BY <2>1 DEF OnCourse
  <1>7. CASE Sent(s)
    <2>1. PICK i \in 1..Len(q) :
            /\ q[i].t = "res" /\ q[i].s = s
            /\ sub[s] = "opening" => Leads(s, pending[s], q, q[i].rows, due)
            /\ sub[s] # "opening" => Leads(s, <<>>, Beyond(q, i), q[i].rows, due)
      BY <1>7 DEF Sent
    <2>2. s \in waiting /\ IsAnswer(q[i], s)
      BY <1>7, <2>1 DEF Sent, IsAnswer
    <2>3. PICK j \in 1..Len(w) :
            /\ w[j] = q[i]
            /\ \A rows : Leads(s, <<>>, Beyond(q, i), rows, due) => Leads(s, <<>>, Beyond(w, j), rows, due)
      BY <1>4, <2>2
    <2>4. /\ w[j].t = "res" /\ w[j].s = s
          /\ sub[s] = "opening" => Leads(s, pending[s], w, w[j].rows, due)
          /\ sub[s] # "opening" => Leads(s, <<>>, Beyond(w, j), w[j].rows, due)
      BY <1>3, <2>1, <2>3
    <2>5. Sent(s)'
      BY <1>7, <2>4 DEF Sent, Due
    <2> QED
      BY <2>5 DEF OnCourse
  <1>8. CASE Rejected(s)
    <2>1. PICK i \in 1..Len(q) : q[i].t = "err" /\ q[i].s = s
      BY <1>8 DEF Rejected
    <2>2. s \in waiting /\ IsAnswer(q[i], s)
      BY <1>8, <2>1 DEF Rejected, IsAnswer
    <2>3. PICK j \in 1..Len(w) : w[j] = q[i]
      BY <1>4, <2>2
    <2>4. Rejected(s)'
      BY <1>8, <2>1, <2>3 DEF Rejected
    <2> QED
      BY <2>4 DEF OnCourse
  <1>9. CASE Held(s)
    <2>1. Held(s)'
      BY <1>3, <1>9 DEF Held, Due
    <2> QED
      BY <2>1 DEF OnCourse
  <1> QED
    BY <1>5, <1>6, <1>7, <1>8, <1>9 DEF OnCourse

\* An error stays under way, whatever is sent behind it.
LEMMA RejectedStays ==
  ASSUME TypeOK, NEW s \in Subs, Rejected(s), waiting' = waiting, serving' = serving,
         wire' = wire \/ \E f \in Frame : wire' = Append(wire, f)
  PROVE  Rejected(s)'
  <1>1. wire \in Seq(Frame)
    BY DEF TypeOK
  <1>2. PICK i \in 1..Len(wire) : wire[i].t = "err" /\ wire[i].s = s
    BY DEF Rejected
  <1>3. i \in 1..Len(wire') /\ wire'[i] = wire[i]
    BY <1>1, AppendProperties
  <1> QED
    BY <1>2, <1>3 DEF Rejected

\* A change of the store that is told.
LEMMA ToldKeepsCourse ==
  ASSUME TypeOK, NEW s \in Subs, OnCourse(s), NEW f \in Frame, f.t = "cchg", wire' = Append(wire, f),
         sub' = sub, waiting' = waiting, serving' = serving, reg' = reg, pending' = pending, map' = map,
         ~ (serving[s].pc = "read" /\ sub[s] # "opening"),
         \A r \in Rows : IF r \in DOMAIN f.d THEN Admitted(s, store'[at'])[r] = View(s, f.d[r])
                         ELSE Admitted(s, store'[at'])[r] = Due(s)[r]
  PROVE  OnCourse(s)'
  <1> PICK q : q = wire
    OBVIOUS
  <1> PICK w : w = wire'
    OBVIOUS
  <1> PICK due : due = Due(s)
    OBVIOUS
  <1> PICK later : later = Admitted(s, store'[at'])
    OBVIOUS
  <1>1. q \in Seq(Frame) /\ Len(q) \in Nat /\ w = Append(q, f)
    BY DEF TypeOK
  <1>2. \A r \in Rows : IF r \in DOMAIN f.d THEN later[r] = View(s, f.d[r]) ELSE later[r] = due[r]
    OBVIOUS
  <1>3. ASSUME NEW p, NEW k \in Seq(Frame), NEW rows, Leads(s, p, k, rows, due)
        PROVE  Leads(s, p, Append(k, f), rows, later)
    BY <1>2, <1>3, LeadsTold
  <1>4. CASE Reading(s)
    <2>1. sub[s] = "opening" => Leads(s, pending[s], w, later, later)
      <3> SUFFICES ASSUME sub[s] = "opening" PROVE Leads(s, pending[s], Append(q, f), later, later)
        BY <1>1
      <3>1. Leads(s, pending[s], q, due, due)
        BY <1>4 DEF Reading
      <3> QED
        BY <1>1, <1>2, <3>1, LeadsTold
    <2>2. Reading(s)'
      BY <1>4, <2>1 DEF Reading, Due
    <2> QED
      BY <2>2 DEF OnCourse
  <1>5. CASE HasRead(s)
    <2>1. sub[s] = "opening" /\ Leads(s, pending[s], w, serving[s].rows, later)
      BY <1>1, <1>3, <1>5 DEF HasRead
    <2>2. HasRead(s)'
      BY <1>5, <2>1 DEF HasRead, Due
    <2> QED
      BY <2>2 DEF OnCourse
  <1>6. CASE Sent(s)
    <2>1. PICK i \in 1..Len(q) :
            /\ q[i].t = "res" /\ q[i].s = s
            /\ sub[s] = "opening" => Leads(s, pending[s], q, q[i].rows, due)
            /\ sub[s] # "opening" => Leads(s, <<>>, Beyond(q, i), q[i].rows, due)
      BY <1>6 DEF Sent
    <2>2. i \in 1..Len(w) /\ w[i] = q[i]
      BY <1>1, AppendProperties
    <2>3. Beyond(q, i) \in Seq(Frame) /\ Beyond(w, i) = Append(Beyond(q, i), f)
      BY <1>1, BeyondAppend
    <2>4. /\ sub[s] = "opening" => Leads(s, pending[s], w, w[i].rows, later)
          /\ sub[s] # "opening" => Leads(s, <<>>, Beyond(w, i), w[i].rows, later)
      BY <1>1, <1>3, <2>1, <2>2, <2>3
    <2>5. Sent(s)'
      BY <1>6, <2>1, <2>2, <2>4 DEF Sent, Due
    <2> QED
      BY <2>5 DEF OnCourse
  <1>7. CASE Rejected(s)
    BY <1>7, RejectedStays DEF OnCourse
  <1>8. CASE Held(s)
    <2>1. Leads(s, <<>>, w, map[s], later)
      BY <1>1, <1>3, <1>8 DEF Held
    <2>2. Held(s)'
      BY <1>8, <2>1 DEF Held, Due
    <2> QED
      BY <2>2 DEF OnCourse
  <1> QED
    BY <1>4, <1>5, <1>6, <1>7, <1>8 DEF OnCourse

LEMMA ChangeKeepsCourse ==
  ASSUME TypeOK, NEW s \in Subs, OnCourse(s), sub[s] # "closed", ReceiveChange
  PROVE  OnCourse(s)'
  <1> PICK q : q = wire
    OBVIOUS
  <1> PICK w : w = wire'
    OBVIOUS
  <1> PICK due : due = Due(s)
    OBVIOUS
  <1>1. /\ q \in Seq(Frame) /\ Len(q) \in Nat /\ q # <<>> /\ w = Tail(q)
        /\ Head(q) = q[1] /\ Head(q).t = "cchg" /\ pending[s] \in Seq(Frame)
    BY DEF TypeOK, ReceiveChange
  <1>2. /\ sub' = sub /\ waiting' = waiting /\ serving' = serving /\ reg' = reg
        /\ sub[s] = "opening" => pending'[s] = Append(pending[s], Head(q)) /\ map'[s] = map[s]
        /\ sub[s] # "opening" => pending'[s] = pending[s]
        /\ sub[s] = "live" => map'[s] = Replay(s, <<Head(q)>>, map[s])
        /\ Admitted(s, store'[at']) = due
    BY DEF ReceiveChange, serverVars, Settling, relayVars, Due
  <1>3. ASSUME NEW rows, sub[s] = "opening", Leads(s, pending[s], q, rows, due)
        PROVE  Leads(s, pending'[s], w, rows, due)
    <2>1. Leads(s, Append(pending[s], Head(q)), Tail(q), rows, due)
      BY <1>1, <1>3, LeadsBuffered
    <2> QED
      BY <1>1, <1>2, <1>3, <2>1
  <1>4. ASSUME NEW i \in 1..Len(q), IsAnswer(q[i], s)
        PROVE  i - 1 \in 1..Len(w) /\ w[i - 1] = q[i] /\ Beyond(w, i - 1) = Beyond(q, i)
    <2>1. i # 1
      BY <1>1, <1>4 DEF IsAnswer
    <2> QED
      BY <1>1, <2>1, BeyondTail
  <1>5. CASE Reading(s)
    <2>1. Reading(s)'
      BY <1>2, <1>3, <1>5 DEF Reading, Due
    <2> QED
      BY <2>1 DEF OnCourse
  <1>6. CASE HasRead(s)
    <2>1. HasRead(s)'
      BY <1>2, <1>3, <1>6 DEF HasRead, Due
    <2> QED
      BY <2>1 DEF OnCourse
  <1>7. CASE Sent(s)
    <2>1. PICK i \in 1..Len(q) :
            /\ q[i].t = "res" /\ q[i].s = s
            /\ sub[s] = "opening" => Leads(s, pending[s], q, q[i].rows, due)
            /\ sub[s] # "opening" => Leads(s, <<>>, Beyond(q, i), q[i].rows, due)
      BY <1>7 DEF Sent
    <2>2. i - 1 \in 1..Len(w) /\ w[i - 1] = q[i] /\ Beyond(w, i - 1) = Beyond(q, i)
      BY <1>4, <2>1 DEF IsAnswer
    <2>3. /\ sub[s] = "opening" => Leads(s, pending'[s], w, w[i - 1].rows, due)
          /\ sub[s] # "opening" => Leads(s, <<>>, Beyond(w, i - 1), w[i - 1].rows, due)
      BY <1>3, <2>1, <2>2
    <2>4. Sent(s)'
      BY <1>2, <1>7, <2>1, <2>2, <2>3 DEF Sent, Due
    <2> QED
      BY <2>4 DEF OnCourse
  <1>8. CASE Rejected(s)
    <2>1. PICK i \in 1..Len(q) : q[i].t = "err" /\ q[i].s = s
      BY <1>8 DEF Rejected
    <2>2. i - 1 \in 1..Len(w) /\ w[i - 1] = q[i]
      BY <1>4, <2>1 DEF IsAnswer
    <2>3. Rejected(s)'
      BY <1>2, <1>8, <2>1, <2>2 DEF Rejected
    <2> QED
      BY <2>3 DEF OnCourse
  <1>9. CASE Held(s)
    <2>1. Leads(s, <<>>, Tail(q), Replay(s, <<Head(q)>>, map[s]), due)
      BY <1>1, <1>9, LeadsApplied DEF Held
    <2>2. Held(s)'
      BY <1>1, <1>2, <1>9, <2>1 DEF Held, Due
    <2> QED
      BY <2>2 DEF OnCourse
  <1> QED
    BY <1>5, <1>6, <1>7, <1>8, <1>9 DEF OnCourse

\* A batch that reaches the store of the connection's node.
LEMMA RouteKeepsCourse ==
  ASSUME TypeOK, OfflineIsEmpty, NEW s \in Subs, OnCourse(s), NEW n \in Nodes, NEW b \in Batches,
         Route(n, b), UNCHANGED <<at, serverVars, clientVars>>,
         Applies(store[n], b) => store' = [store EXCEPT ![n] = Apply(@, b)],
         ~ Applies(store[n], b) => store' = store,
         intact'[s]
  PROVE  OnCourse(s)'
  <1>1. at' = at /\ reg' = reg /\ serving' = serving /\ sub' = sub /\ waiting' = waiting /\ map' = map /\ pending' = pending
    BY DEF serverVars, clientVars
  <1>2. at \in Nodes /\ (s \in reg \/ Rejected(s))
    BY DEF TypeOK, OnCourse, Reading, HasRead, Sent, Rejected, Held, OfflineIsEmpty
  <1>3. CASE ~ (at = n /\ Applies(store[n], b))
    <2>1. wire' = wire
      BY <1>3 DEF Route
    <2>2. store'[at] = store[at]
      BY <1>2, <1>3 DEF TypeOK, RelayTypeOK
    <2> QED
      BY <1>1, <2>1, <2>2, OthersKeepCourse DEF Due
  <1>4. CASE Rejected(s)
    <2>1. wire' = wire \/ \E f \in Frame : wire' = Append(wire, f)
      BY RouteSends
    <2> QED
      BY <1>1, <1>4, <2>1, RejectedStays DEF OnCourse
  <1>5. CASE at = n /\ Applies(store[n], b) /\ s \in reg
    <2>1. PICK known \in PrevKnown :
            /\ wire' = IF DOMAIN Told(store[n], b, known) = {} THEN wire
                       ELSE Append(wire, [t |-> "cchg", d |-> Told(store[n], b, known)])
            /\ intact' = [t \in Subs |-> intact[t] /\ ~ Loses(t, Told(store[n], b, known))]
      BY <1>5 DEF Route
    <2> PICK d : d = Told(store[n], b, known)
      OBVIOUS
    <2>2. known \in BOOLEAN /\ d \in Change /\ ~ Loses(s, d)
      BY <2>1, FeedConstants, ToldIsChange
    <2>3. /\ ~ \E x \in DOMAIN d : d[x] \in Filter[s] \ Readable
          /\ ~ (serving[s].pc = "read" /\ sub[s] # "opening" /\ DOMAIN d # {})
      BY <2>2 DEF Loses
    <2>4. store'[at'] = Apply(store[n], b)
      BY <1>1, <1>5 DEF TypeOK, RelayTypeOK
    <2>5. \A r \in Rows : Admitted(s, store'[at'])[r] = IF r \in DOMAIN d THEN View(s, d[r]) ELSE Due(s)[r]
      BY <1>5, <2>2, <2>3, <2>4, RoutedIsDue DEF Due
    <2>6. CASE DOMAIN d = {}
      <3>1. Admitted(s, store'[at']) = Due(s)
        BY <2>5, <2>6 DEF Admitted, Due
      <3>2. wire' = wire
        BY <2>1, <2>6
      <3> QED
        BY <1>1, <3>1, <3>2, OthersKeepCourse
    <2>7. CASE DOMAIN d # {}
      <3>1. PICK f \in Frame : f = [t |-> "cchg", d |-> d]
        BY <2>2, FrameTypes
      <3>2. f.t = "cchg" /\ f.d = d /\ wire' = Append(wire, f)
        BY <2>1, <2>7, <3>1
      <3>3. ~ (serving[s].pc = "read" /\ sub[s] # "opening")
        BY <2>3, <2>7
      <3>4. \A r \in Rows : IF r \in DOMAIN f.d THEN Admitted(s, store'[at'])[r] = View(s, f.d[r])
                            ELSE Admitted(s, store'[at'])[r] = Due(s)[r]
        BY <2>5, <3>2
      <3> QED
        BY <1>1, <3>2, <3>3, <3>4, ToldKeepsCourse
    <2> QED
      BY <2>6, <2>7
  <1> QED
    BY <1>2, <1>3, <1>4, <1>5

\* The rows arrive that the subscription waits for.
LEMMA SnapshotKeepsCourse ==
  ASSUME TypeOK, NewIsUnknown, OneAnswer, NEW s \in Subs, s \in waiting, OnCourse(s), sub[s] # "closed",
         ReceiveSnapshot(s)
  PROVE  OnCourse(s)'
  <1> PICK q : q = wire
    OBVIOUS
  <1> PICK due : due = Due(s)
    OBVIOUS
  <1>1. /\ q \in Seq(Frame) /\ q # <<>> /\ 1 \in 1..Len(q) /\ Head(q) = q[1] /\ wire' = Tail(q)
        /\ Head(q).t = "res" /\ Head(q).s = s
    BY EmptySeq DEF TypeOK, ReceiveSnapshot
  <1>2. IsAnswer(q[1], s) /\ AnsweredOnce(q, s) /\ Answered(q, s)
    BY <1>1 DEF IsAnswer, OneAnswer, Answered
  <1>3. serving[s].pc = "none"
    BY <1>2 DEF OneAnswer
  <1>4. \A i \in 1..Len(q) : IsAnswer(q[i], s) => i = 1
    BY <1>1, <1>2 DEF AnsweredOnce
  <1>5. Sent(s)
    BY <1>1, <1>3, <1>4 DEF OnCourse, Reading, HasRead, Rejected, Held, IsAnswer
  <1>6. /\ sub[s] = "opening" => Leads(s, pending[s], q, Head(q).rows, due)
        /\ sub[s] # "opening" => Leads(s, <<>>, Beyond(q, 1), Head(q).rows, due)
    BY <1>1, <1>4, <1>5 DEF Sent, IsAnswer
  <1>7. sub[s] \in {"opening", "live", "failed"}
    BY DEF TypeOK, NewIsUnknown
  <1>8. /\ sub'[s] = "live" /\ s \notin waiting' /\ serving' = serving /\ reg' = reg
        /\ map'[s] = IF Settling(s) THEN Head(q).rows ELSE Replay(s, pending[s], Head(q).rows)
        /\ Admitted(s, store'[at']) = due
    BY <1>7 DEF ReceiveSnapshot, TypeOK, serverVars, relayVars, Due
  <1>9. Leads(s, <<>>, Tail(q), map'[s], due)
    <2>1. CASE sub[s] = "opening"
      <3>1. Leads(s, <<>>, q, Replay(s, pending[s], Head(q).rows), due)
        BY <1>1, <1>6, <2>1, LeadsReplayed
      <3>2. Leads(s, <<>>, Tail(q), Replay(s, pending[s], Head(q).rows), due)
        BY <1>1, <3>1, LeadsAhead
      <3> QED
        BY <1>8, <2>1, <3>2 DEF Settling
    <2>2. CASE sub[s] # "opening"
      <3>1. Beyond(q, 1) = Tail(q)
        BY <1>1, BeyondTail
      <3>2. map'[s] = Head(q).rows
        BY <1>7, <1>8, <2>2 DEF Settling
      <3> QED
        BY <1>6, <2>2, <3>1, <3>2
    <2> QED
      BY <2>1, <2>2
  <1>10. Held(s)'
    BY <1>1, <1>3, <1>5, <1>8, <1>9 DEF Held, Sent, Due
  <1> QED
    BY <1>10 DEF OnCourse

LEMMA FollowedStep == FeedInv /\ [Next]_vars => Followed'
  <1> SUFFICES ASSUME TypeOK, OfflineIsEmpty, NewIsUnknown, OneAnswer, LeavingIsClosed, Followed,
                      [Next]_vars, NEW s \in Subs, intact'[s], sub'[s] # "closed"
               PROVE  OnCourse(s)'
    BY DEF FeedInv, Protocol, Followed
  <1>1. /\ intact \in [Subs -> BOOLEAN] /\ wire \in Seq(Frame) /\ reg \subseteq Subs /\ waiting \subseteq Subs
        /\ serving \in [Subs -> [pc : {"none", "asked", "reading"}] \cup [pc : {"read"}, rows : Snapshot]]
        /\ sub \in [Subs -> {"new", "opening", "live", "failed", "closed"}]
        /\ map \in [Subs -> Snapshot] /\ pending \in [Subs -> Seq(Frame)]
    BY DEF TypeOK
  <1>2. intact[s] /\ sub[s] # "closed" => OnCourse(s)
    BY DEF Followed
  <1>3. OnCourse(s) => /\ serving[s].pc # "asked" /\ sub[s] # "new" /\ at # Offline
                       /\ serving[s].pc = "reading" => Reading(s)
                       /\ serving[s].pc = "read" => HasRead(s)
    <2> SUFFICES ASSUME OnCourse(s)
                 PROVE  /\ serving[s].pc # "asked" /\ sub[s] # "new" /\ at # Offline
                        /\ serving[s].pc = "reading" => Reading(s)
                        /\ serving[s].pc = "read" => HasRead(s)
      OBVIOUS
    <2>1. s \in waiting \/ (s \in reg /\ sub[s] = "live")
      BY DEF OnCourse, Reading, HasRead, Sent, Rejected, Held
    <2>2. serving[s].pc \in {"none", "reading", "read"}
      BY DEF OnCourse, Reading, HasRead, Sent, Rejected, Held
    <2>3. serving[s].pc = "reading" => Reading(s)
      BY DEF OnCourse, HasRead, Sent, Rejected, Held
    <2>4. serving[s].pc = "read" => HasRead(s)
      BY DEF OnCourse, Reading, Sent, Rejected, Held
    <2> QED
      BY <2>1, <2>2, <2>3, <2>4 DEF NewIsUnknown, OfflineIsEmpty
  <1>4. UNCHANGED <<store, at>> => Admitted(s, store'[at']) = Due(s)
    BY DEF Due
  <1>5. ASSUME NEW n \in Nodes, NEW b \in Batches, Write(n, b)
        PROVE  OnCourse(s)'
    <2>1. sub'[s] = sub[s] /\ intact[s]
      BY <1>1, <1>5 DEF Write, Route, clientVars
    <2> QED
      BY <1>2, <1>5, <2>1, RouteKeepsCourse DEF Write, Commit
  <1>6. ASSUME NEW m \in Nodes, NEW n \in Nodes, NEW b \in Batches, Ingest(m, n, b)
        PROVE  OnCourse(s)'
    <2>1. sub'[s] = sub[s] /\ intact[s]
      BY <1>1, <1>6 DEF Ingest, Route, clientVars
    <2>2. /\ Applies(store[n], b) => store' = [store EXCEPT ![n] = Apply(@, b)]
          /\ ~ Applies(store[n], b) => store' = store
      BY <1>6 DEF Ingest, OnRelay, TypeOK, RelayTypeOK
    <2> QED
      BY <1>2, <1>6, <2>1, <2>2, RouteKeepsCourse DEF Ingest
  <1>7. CASE ReceiveChange
    BY <1>2, <1>7, ChangeKeepsCourse DEF ReceiveChange
  <1>8. ASSUME NEW t \in Subs, ReceiveSnapshot(t)
        PROVE  OnCourse(s)'
    <2>1. /\ wire # <<>> /\ wire' = Tail(wire) /\ Head(wire).t = "res" /\ Head(wire).s = t
          /\ UNCHANGED <<store, at, serving, reg, intact>>
      BY <1>8 DEF ReceiveSnapshot, serverVars, relayVars
    <2>2. CASE t = s /\ s \in waiting
      <3>1. sub[s] # "closed"
        BY <1>8, <2>2 DEF ReceiveSnapshot
      <3> QED
        BY <1>2, <1>8, <2>1, <2>2, <3>1, SnapshotKeepsCourse
    <2>3. CASE ~ (t = s /\ s \in waiting)
      <3>1. sub'[s] = sub[s] /\ pending'[s] = pending[s] /\ map'[s] = map[s] /\ (s \in waiting' <=> s \in waiting)
        BY <1>1, <1>8, <2>3 DEF ReceiveSnapshot
      <3>2. s \in waiting => ~ IsAnswer(Head(wire), s)
        BY <2>1, <2>3 DEF IsAnswer
      <3> QED
        BY <1>2, <1>4, <2>1, <3>1, <3>2, OthersKeepCourse
    <2> QED
      BY <2>2, <2>3
  <1>9. ASSUME NEW t \in Subs, Failed(t)
        PROVE  t # s /\ intact[s] /\ sub'[s] = sub[s] /\ (s \in waiting' <=> s \in waiting)
    BY <1>1, <1>9 DEF Failed
  <1>10. ASSUME NEW t \in Subs, ReceiveError(t)
         PROVE  OnCourse(s)'
    <2>1. /\ wire # <<>> /\ wire' = Tail(wire) /\ Head(wire).t = "err" /\ Head(wire).s = t
          /\ UNCHANGED <<store, at, serving, reg, map, pending>>
      BY <1>10 DEF ReceiveError, serverVars, relayVars
    <2>2. CASE t \in waiting
      <3>1. t # s /\ intact[s] /\ sub'[s] = sub[s] /\ (s \in waiting' <=> s \in waiting)
        BY <1>9, <1>10, <2>2 DEF ReceiveError
      <3>2. ~ IsAnswer(Head(wire), s)
        BY <2>1, <3>1 DEF IsAnswer
      <3> QED
        BY <1>2, <1>4, <2>1, <3>1, <3>2, OthersKeepCourse
    <2>3. CASE t \notin waiting
      <3>1. UNCHANGED <<waiting, sub, intact>>
        BY <1>10, <2>3 DEF ReceiveError
      <3>2. s \in waiting => ~ IsAnswer(Head(wire), s)
        BY <2>1, <2>3 DEF IsAnswer
      <3> QED
        BY <1>2, <1>4, <2>1, <3>1, <3>2, OthersKeepCourse
    <2> QED
      BY <2>2, <2>3
  <1>11. ASSUME NEW t \in Subs, TimeOut(t)
         PROVE  OnCourse(s)'
    <2>1. t # s /\ intact[s] /\ sub'[s] = sub[s] /\ (s \in waiting' <=> s \in waiting)
      BY <1>9, <1>11 DEF TimeOut
    <2>2. UNCHANGED <<store, at, serving, reg, map, pending, wire>>
      BY <1>11 DEF TimeOut, serverVars, relayVars
    <2> QED
      BY <1>2, <1>4, <2>1, <2>2, OthersKeepCourse
  <1>12. CASE OnClose
    BY <1>12 DEF OnClose
  <1>13. ASSUME NEW n \in Nodes, OnOpen(n)
         PROVE  OnCourse(s)'
    BY <1>2, <1>3, <1>13 DEF OnOpen
  <1>14. ASSUME NEW t \in Subs, Subscribe(t)
         PROVE  OnCourse(s)'
    <2>1. UNCHANGED <<store, at, reg, map, pending, wire, intact>> /\ sub[t] = "new"
      BY <1>14 DEF Subscribe, relayVars
    <2>2. CASE t = s
      BY <1>2, <1>3, <2>1, <2>2
    <2>3. CASE t # s
      <3>1. sub'[s] = sub[s] /\ serving'[s] = serving[s] /\ (s \in waiting' <=> s \in waiting)
        BY <1>1, <1>14, <2>3 DEF Subscribe
      <3> QED
        BY <1>2, <1>4, <2>1, <3>1, OthersKeepCourse
    <2> QED
      BY <2>2, <2>3
  <1>15. ASSUME NEW t \in Subs, Close(t)
         PROVE  OnCourse(s)'
    <2>1. /\ UNCHANGED <<store, at, reg, serving, waiting, map, pending, wire, intact>>
          /\ sub'[s] = sub[s]
      BY <1>1, <1>15 DEF Close, relayVars
    <2> QED
      BY <1>2, <1>4, <2>1, OthersKeepCourse
  <1>16. ASSUME NEW t \in Subs, Register(t)
         PROVE  OnCourse(s)'
    <2>1. UNCHANGED <<store, at, sub, waiting, map, pending, wire>>
      BY <1>16 DEF Register, clientVars, relayVars
    <2>2. CASE t = s
      <3>1. s \in waiting /\ ~ Buffered(s) /\ s \in reg' /\ serving'[s].pc = "reading"
        BY <1>1, <1>16, <2>2 DEF Register
      <3>2. ASSUME sub[s] = "opening"
            PROVE  Leads(s, pending[s], wire, Admitted(s, store[at]), Admitted(s, store[at]))
        <4>1. pending[s] = <<>> /\ \A i \in 1..Len(wire) : wire[i].t # "cchg"
          BY <3>1, <3>2 DEF Buffered
        <4> QED
          BY <4>1, LeadsRead
      <3>3. Reading(s)'
        BY <2>1, <3>1, <3>2 DEF Reading, Due
      <3> QED
        BY <3>3 DEF OnCourse
    <2>3. CASE t # s
      <3>1. serving'[s] = serving[s] /\ (s \in reg' <=> s \in reg) /\ intact[s]
        BY <1>1, <1>16, <2>3 DEF Register
      <3> QED
        BY <1>2, <1>4, <2>1, <3>1, OthersKeepCourse
    <2> QED
      BY <2>2, <2>3
  <1>17. ASSUME NEW t \in Subs, ReadSnapshot(t)
         PROVE  OnCourse(s)'
    <2>1. UNCHANGED <<store, at, reg, sub, waiting, map, pending, wire, intact>>
      BY <1>17 DEF ReadSnapshot, clientVars, relayVars
    <2>2. CASE t = s
      <3>1. Reading(s)
        BY <1>2, <1>3, <1>17, <2>1, <2>2 DEF ReadSnapshot
      <3>2. serving'[s].pc = "read" /\ serving'[s].rows = Admitted(s, store[at])
        BY <1>1, <1>17, <2>2 DEF ReadSnapshot
      <3>3. Leads(s, <<>>, <<>>, Admitted(s, store[at]), Admitted(s, store[at]))
        <4>1. Len(<<>>) = 0
          BY EmptySeq
        <4> QED
          BY <4>1, LeadsRead
      <3>4. HasRead(s)'
        BY <2>1, <3>1, <3>2, <3>3 DEF Reading, HasRead, Due
      <3> QED
        BY <3>4 DEF OnCourse
    <2>3. CASE t # s
      <3>1. serving'[s] = serving[s]
        BY <1>1, <1>17, <2>3 DEF ReadSnapshot
      <3> QED
        BY <1>2, <1>4, <2>1, <3>1, OthersKeepCourse
    <2> QED
      BY <2>2, <2>3
  <1>18. ASSUME NEW t \in Subs, NEW f \in Frame, f.t # "cchg", wire' = Append(wire, f), t # s,
                serving' = [serving EXCEPT ![t] = Quiet], s \in reg' <=> s \in reg,
                UNCHANGED <<store, at, sub, waiting, map, pending, intact>>
         PROVE  OnCourse(s)'
    <2>1. serving'[s] = serving[s]
      BY <1>1, <1>18
    <2> QED
      BY <1>2, <1>4, <1>18, <2>1, OthersKeepCourse
  <1>19. ASSUME NEW f \in Frame, wire' = Append(wire, f), serving' = [serving EXCEPT ![s] = Quiet]
         PROVE  Len(wire) + 1 \in 1..Len(wire') /\ wire'[Len(wire) + 1] = f /\ serving'[s].pc = "none"
    <2>1. /\ Len(Append(wire, f)) = Len(wire) + 1 /\ Append(wire, f)[Len(wire) + 1] = f /\ Len(wire) \in Nat
      BY <1>1, AppendProperties
    <2>2. serving'[s].pc = "none"
      BY <1>1, <1>19 DEF Quiet
    <2> QED
      BY <1>19, <2>1, <2>2
  <1>20. ASSUME NEW t \in Subs, Answer(t)
         PROVE  OnCourse(s)'
    <2>1. /\ UNCHANGED <<store, at, reg, sub, waiting, map, pending, intact>>
          /\ serving[t].pc = "read" /\ serving' = [serving EXCEPT ![t] = Quiet]
      BY <1>20 DEF Answer, clientVars, relayVars
    <2>2. PICK f \in Frame : f = [t |-> "res", s |-> t, rows |-> serving[t].rows]
      <3>1. serving[t].rows \in Snapshot
        BY <1>1, <2>1
      <3> QED
        BY <3>1, FrameTypes
    <2>3. f.t = "res" /\ f.s = t /\ f.rows = serving[t].rows /\ wire' = Append(wire, f)
      BY <1>20, <2>2 DEF Answer
    <2>4. CASE t = s
      <3>1. HasRead(s)
        BY <1>2, <1>3, <2>1, <2>4
      <3>2. Len(wire) + 1 \in 1..Len(wire') /\ wire'[Len(wire) + 1] = f /\ serving'[s].pc = "none"
        BY <1>19, <2>1, <2>3, <2>4
      <3>3. sub[s] = "opening" => Leads(s, pending[s], Append(wire, f), f.rows, Due(s))
        BY <1>1, <2>3, <2>4, <3>1, LeadsBehind DEF HasRead
      <3>4. sub[s] # "opening" => Leads(s, <<>>, Beyond(Append(wire, f), Len(wire) + 1), f.rows, Due(s))
        BY <1>1, <2>3, <2>4, <3>1, BeyondLast DEF HasRead
      <3>5. Sent(s)'
        BY <2>1, <2>3, <2>4, <3>1, <3>2, <3>3, <3>4 DEF HasRead, Sent, Due
      <3> QED
        BY <3>5 DEF OnCourse
    <2>5. CASE t # s
      BY <1>18, <2>1, <2>3, <2>5
    <2> QED
      BY <2>4, <2>5
  <1>21. ASSUME NEW t \in Subs, Refuse(t)
         PROVE  OnCourse(s)'
    <2>1. /\ UNCHANGED <<store, at, reg, sub, waiting, map, pending, intact>>
          /\ serving[t].pc = "asked" /\ serving' = [serving EXCEPT ![t] = Quiet]
          /\ wire' = Append(wire, [t |-> "err", s |-> t])
      BY <1>21 DEF Refuse, Failing, clientVars, relayVars
    <2>2. PICK f \in Frame : f = [t |-> "err", s |-> t]
      BY FrameTypes
    <2>3. t # s
      BY <1>2, <1>3, <2>1
    <2> QED
      BY <1>18, <2>1, <2>2, <2>3
  <1>22. ASSUME NEW t \in Subs, SnapshotFails(t)
         PROVE  OnCourse(s)'
    <2>1. /\ UNCHANGED <<store, at, sub, waiting, map, pending, intact>> /\ reg' = reg \ {t}
          /\ serving[t].pc = "reading" /\ serving' = [serving EXCEPT ![t] = Quiet]
          /\ wire' = Append(wire, [t |-> "err", s |-> t])
      BY <1>22 DEF SnapshotFails, Failing, clientVars, relayVars
    <2>2. PICK f \in Frame : f = [t |-> "err", s |-> t]
      BY FrameTypes
    <2>3. f.t = "err" /\ f.s = t /\ wire' = Append(wire, f)
      BY <2>1, <2>2
    <2>4. CASE t = s
      <3>1. Reading(s)
        BY <1>2, <1>3, <2>1, <2>4
      <3>2. Len(wire) + 1 \in 1..Len(wire') /\ wire'[Len(wire) + 1] = f /\ serving'[s].pc = "none"
        BY <1>19, <2>1, <2>3, <2>4
      <3>3. Rejected(s)'
        BY <2>1, <2>3, <2>4, <3>1, <3>2 DEF Reading, Rejected
      <3> QED
        BY <3>3 DEF OnCourse
    <2>5. CASE t # s
      BY <1>18, <2>1, <2>3, <2>5
    <2> QED
      BY <2>4, <2>5
  <1>23. ASSUME NEW t \in Subs, OnUnsub(t)
         PROVE  OnCourse(s)'
    <2>1. UNCHANGED <<store, at, serving, sub, waiting, map, pending, wire, intact>> /\ reg' = reg \ {t} /\ t \in leaving
      BY <1>23 DEF OnUnsub, clientVars, relayVars
    <2>2. t # s
      BY <2>1 DEF LeavingIsClosed
    <2> QED
      BY <1>2, <1>4, <2>1, <2>2, OthersKeepCourse
  <1>24. CASE UNCHANGED vars
    <2>1. UNCHANGED <<store, at, serving, reg, sub, waiting, map, pending, wire, intact>>
      BY <1>24 DEF vars, serverVars, clientVars, relayVars
    <2> QED
      BY <1>2, <1>4, <2>1, OthersKeepCourse
  <1> QED
    BY <1>5, <1>6, <1>7, <1>8, <1>10, <1>11, <1>12, <1>13, <1>14, <1>15, <1>16, <1>17, <1>20,
       <1>21, <1>22, <1>23, <1>24 DEF Next, Receive, Serve

LEMMA FeedInitially == Init => FeedInv
  <1> SUFFICES ASSUME Init PROVE FeedInv
    OBVIOUS
  <1>1. RelayTypeOK
    BY RelayInitially DEF Init, RelayInv
  <1>2. <<>> \in Seq(Frame) /\ Len(<<>>) = 0
    BY EmptySeq
  <1>3. NoRows \in Snapshot
    BY DEF NoRows, Snapshot
  <1>4. TypeOK
    BY <1>1, <1>2, <1>3, FeedConstants DEF Init, TypeOK, Quiet
  <1>5. \A s : AnsweredOnce(<<>>, s) /\ ~ Answered(<<>>, s)
    BY <1>2 DEF AnsweredOnce, Answered
  <1>6. Protocol
    BY <1>5 DEF Init, Quiet, Protocol, OfflineIsEmpty, NewIsUnknown, OneAnswer, LeavingIsClosed
  <1>7. Followed
    BY DEF Init, Followed
  <1> QED
    BY <1>4, <1>6, <1>7 DEF FeedInv

LEMMA FeedInductive == Spec => []FeedInv
  <1>1. FeedInv /\ [Next]_vars => FeedInv'
    BY FeedTypes, ProtocolStep, FollowedStep DEF FeedInv
  <1> QED
    BY <1>1, FeedInitially, PTL DEF Spec

-----------------------------------------------------------------------------
(* What holds of every run of the feed.                                    *)

\* The feed implements the relay: its handlers and the client's write to the stores and to the
\* queues between them what RowRelay lets them, and nothing else.
THEOREM FeedImplementsRelay == Spec => RelaySpec
  <1>1. Init => RelayInit
    BY DEF Init
  <1>2. [Next]_vars => [RelayNext]_relayVars
    <2> SUFFICES ASSUME [Next]_vars PROVE [RelayNext]_relayVars
      OBVIOUS
    <2>1. ASSUME NEW n \in Nodes, NEW b \in Batches, Write(n, b)
          PROVE  RelayNext
      BY <2>1 DEF Write, RelayNext
    <2>2. ASSUME NEW m \in Nodes, NEW n \in Nodes, NEW b \in Batches, Ingest(m, n, b)
          PROVE  RelayNext
      BY <2>2 DEF Ingest, RelayNext
    <2>3. CASE Receive \/ OnClose \/ \E n \in Nodes : OnOpen(n)
      BY <2>3 DEF Receive, ReceiveChange, ReceiveSnapshot, ReceiveError, OnClose, OnOpen
    <2>4. CASE \E s \in Subs : Subscribe(s) \/ Close(s) \/ TimeOut(s)
      BY <2>4 DEF Subscribe, Close, TimeOut
    <2>5. CASE \E s \in Subs : Serve(s) \/ Refuse(s) \/ SnapshotFails(s) \/ OnUnsub(s)
      BY <2>5 DEF Serve, Register, ReadSnapshot, Answer, Refuse, SnapshotFails, OnUnsub
    <2>6. CASE UNCHANGED vars
      BY <2>6 DEF vars
    <2> QED
      BY <2>1, <2>2, <2>3, <2>4, <2>5, <2>6 DEF Next
  <1> QED
    BY <1>1, <1>2, PTL DEF Spec, RelaySpec

\* The handlers of the server and of the client keep the types of their state and of the frames
\* between them.
THEOREM FeedTypeCorrect == Spec => []TypeOK
  <1>1. FeedInv => TypeOK
    BY DEF FeedInv
  <1> QED
    BY <1>1, FeedInductive, PTL

\* With subscriptions and a client over them, whose writes and reads interleave as they may,
\* the replicas of a row that was not raced still agree once they have received everything.
THEOREM FeedReplicasConverge == Spec => []ReplicasAgree
  BY FeedImplementsRelay, ReplicasConverge, PTL

\* Whatever is written while a subscription is set up, answered, lost with its connection and
\* asked for again: as long as none of the named losses has hit it, a live subscription is
\* registered, and its rows with the changes under way to it are the store's.
THEOREM LiveFeedIsComplete == Spec => []FeedIsComplete
  <1>1. FeedInv => FeedIsComplete
    <2> SUFFICES ASSUME FeedInv, NEW s \in Subs,
                        Online, sub[s] = "live", s \notin waiting, intact[s]
                 PROVE  s \in reg /\ Current(s)
      BY DEF FeedIsComplete
    <2>1. Held(s)
      BY DEF FeedInv, Followed, OnCourse, Reading, HasRead, Sent, Rejected
    <2>2. s \in reg /\ Leads(s, <<>>, wire, map[s], Due(s))
      BY <2>1 DEF Held
    <2>3. \A r, v : After(<<>>, r, v) = v
      BY AfterNothing
    <2>4. \A r \in Rows : View(s, Admitted(s, store[at])[r]) = Admitted(s, store[at])[r]
      BY DEF View, Admitted
    <2>5. Current(s)
      BY <2>2, <2>3, <2>4 DEF Current, Leads, Due
    <2> QED
      BY <2>2, <2>5
  <1> QED
    BY <1>1, FeedInductive, PTL
=============================================================================
