--------------------------- MODULE RowRelayProofs ---------------------------
(***************************************************************************)
(* The stores of a relayed row collection, for every set of nodes, rows    *)
(* and batches: the types, and that the replicas of a row that was never   *)
(* written on two nodes at once agree once they have received everything.  *)
(***************************************************************************)
EXTENDS RowRelay, SequenceTheorems, TLAPS

\* What a store demands of one operation: insert where nothing is, update where something is.
Accepts(value, op) ==
  /\ op.k = "insert" => value = Absent
  /\ op.k = "update" => value # Absent

\* No batch of q at these places touches the row.
Skips(q, r, first, last) == \A h \in first..last : r \notin DOMAIN q[h]

\* Batch i of q is the last one that touches the row.
Latest(q, r, i) == i \in 1..Len(q) /\ r \in DOMAIN q[i] /\ Skips(q, r, i + 1, Len(q))

\* A store that has this value in the row accepts what the batches of q do to it, in order.
Fits(q, r, value) ==
  \A i \in 1..Len(q) : r \in DOMAIN q[i] =>
    /\ Skips(q, r, 1, i - 1) => Accepts(value, q[i][r])
    /\ \A j \in 1..(i - 1) :
         r \in DOMAIN q[j] /\ Skips(q, r, j + 1, i - 1) => Accepts(q[j][r].row, q[i][r])

\* Our own broadcasts are dropped when they come back.
NoEcho == \A n \in Nodes : relay[n][n] = <<>>

\* The batches under way that touch a row that was not raced have one publisher.
OneWriter ==
  \A r \in Rows \ raced, m, l, n, k \in Nodes :
    Touches(relay[m][n], r) /\ Touches(relay[l][k], r) => m = l

\* ... whose own store is where the last of them leads.
Carried ==
  \A r \in Rows \ raced, m, n \in Nodes : \A i \in 1..Len(relay[m][n]) :
    Latest(relay[m][n], r, i) => relay[m][n][i][r].row = store[m][r]

\* ... and their receiver will accept each of them.
Fitting ==
  \A r \in Rows \ raced, m, n \in Nodes : Fits(relay[m][n], r, store[n][r])

RelayInv == RelayTypeOK /\ NoEcho /\ OneWriter /\ Carried /\ Fitting /\ ReplicasAgree
-----------------------------------------------------------------------------
(* Batches that join a queue at its end or leave it at its head.           *)

LEMMA AppendBatch ==
  ASSUME NEW q \in Seq(Batches), NEW b \in Batches
  PROVE  /\ Append(q, b) \in Seq(Batches) /\ Len(q) \in Nat
         /\ Len(Append(q, b)) = Len(q) + 1 /\ Append(q, b)[Len(q) + 1] = b
         /\ \A i \in 1..Len(q) : Append(q, b)[i] = q[i]
  OBVIOUS

LEMMA TailBatch ==
  ASSUME NEW q \in Seq(Batches), q # <<>>
  PROVE  /\ Tail(q) \in Seq(Batches) /\ Len(q) \in Nat /\ Len(Tail(q)) = Len(q) - 1
         /\ 1 \in 1..Len(q) /\ Head(q) = q[1] /\ Head(q) \in Batches
         /\ \A i \in 1..Len(Tail(q)) : i + 1 \in 1..Len(q) /\ Tail(q)[i] = q[i + 1]
  BY HeadTailProperties, EmptySeq

LEMMA AppendTouches ==
  ASSUME NEW q \in Seq(Batches), NEW b \in Batches, NEW r
  PROVE  Touches(Append(q, b), r) <=> Touches(q, r) \/ r \in DOMAIN b
  <1>1. Touches(Append(q, b), r) => Touches(q, r) \/ r \in DOMAIN b
    BY AppendBatch DEF Touches
  <1>2. Touches(q, r) => Touches(Append(q, b), r)
    BY AppendBatch DEF Touches
  <1>3. r \in DOMAIN b => Touches(Append(q, b), r)
    <2>1. Len(q) + 1 \in 1..Len(Append(q, b))
      BY AppendBatch
    <2> QED
      BY <2>1, AppendBatch DEF Touches
  <1> QED
    BY <1>1, <1>2, <1>3

LEMMA TailTouches ==
  ASSUME NEW q \in Seq(Batches), q # <<>>, NEW r
  PROVE  Touches(q, r) <=> Touches(Tail(q), r) \/ r \in DOMAIN Head(q)
  <1>1. Touches(Tail(q), r) => Touches(q, r)
    BY TailBatch DEF Touches
  <1>2. r \in DOMAIN Head(q) => Touches(q, r)
    BY TailBatch DEF Touches
  <1>3. ASSUME Touches(q, r), r \notin DOMAIN Head(q) PROVE Touches(Tail(q), r)
    <2>1. PICK i \in 1..Len(q) : r \in DOMAIN q[i]
      BY <1>3 DEF Touches
    <2>2. i # 1
      BY <1>3, <2>1, TailBatch
    <2>3. i - 1 \in 1..Len(Tail(q)) /\ (i - 1) + 1 = i
      BY <2>2, TailBatch
    <2>4. Tail(q)[i - 1] = q[i]
      BY <2>3, TailBatch
    <2> QED
      BY <2>1, <2>3, <2>4 DEF Touches
  <1> QED
    BY <1>1, <1>2, <1>3

\* A batch that touches the row becomes the last one that does; any other changes nothing.
LEMMA AppendLatest ==
  ASSUME NEW q \in Seq(Batches), NEW b \in Batches, NEW r, NEW i,
         Latest(Append(q, b), r, i)
  PROVE  /\ r \in DOMAIN b => Append(q, b)[i] = b
         /\ r \notin DOMAIN b => Latest(q, r, i) /\ Append(q, b)[i] = q[i]
  <1>1. /\ i \in 1..(Len(q) + 1) /\ r \in DOMAIN Append(q, b)[i]
        /\ \A h \in (i + 1)..(Len(q) + 1) : r \notin DOMAIN Append(q, b)[h]
    BY AppendBatch DEF Latest, Skips
  <1>2. CASE i = Len(q) + 1
    BY <1>1, <1>2, AppendBatch
  <1>3. CASE i # Len(q) + 1
    <2>1. Len(q) \in Nat /\ i \in 1..Len(q)
      BY <1>1, <1>3, AppendBatch
    <2>2. Len(q) + 1 \in (i + 1)..(Len(q) + 1)
      BY <2>1
    <2>3. r \notin DOMAIN b
      BY <1>1, <2>2, AppendBatch
    <2>4. \A h \in (i + 1)..Len(q) : h \in (i + 1)..(Len(q) + 1) /\ h \in 1..Len(q)
      BY <2>1
    <2>5. \A h \in (i + 1)..Len(q) : r \notin DOMAIN q[h]
      BY <1>1, <2>4, AppendBatch
    <2> QED
      BY <1>1, <2>1, <2>3, <2>5, AppendBatch DEF Latest, Skips
  <1> QED
    BY <1>2, <1>3

LEMMA TailLatest ==
  ASSUME NEW q \in Seq(Batches), q # <<>>, NEW r, NEW i \in 1..Len(Tail(q)),
         Latest(Tail(q), r, i)
  PROVE  Latest(q, r, i + 1) /\ Tail(q)[i] = q[i + 1]
  <1>1. i + 1 \in 1..Len(q) /\ Tail(q)[i] = q[i + 1]
    BY TailBatch
  <1>2. ASSUME NEW h \in (i + 1 + 1)..Len(q) PROVE r \notin DOMAIN q[h]
    <2>1. h - 1 \in (i + 1)..Len(Tail(q)) /\ h - 1 \in 1..Len(Tail(q)) /\ (h - 1) + 1 = h
      BY TailBatch
    <2>2. r \notin DOMAIN Tail(q)[h - 1]
      BY <2>1 DEF Latest, Skips
    <2> QED
      BY <2>1, <2>2, TailBatch
  <1> QED
    BY <1>1, <1>2 DEF Latest, Skips

LEMMA HeadLatest ==
  ASSUME NEW q \in Seq(Batches), q # <<>>, NEW r,
         r \in DOMAIN Head(q), ~ Touches(Tail(q), r)
  PROVE  Latest(q, r, 1) /\ q[1] = Head(q) /\ 1 \in 1..Len(q)
  <1>1. ASSUME NEW h \in (1 + 1)..Len(q) PROVE r \notin DOMAIN q[h]
    <2>1. h - 1 \in 1..Len(Tail(q)) /\ (h - 1) + 1 = h
      BY TailBatch
    <2>2. r \notin DOMAIN Tail(q)[h - 1]
      BY <2>1 DEF Touches
    <2> QED
      BY <2>1, <2>2, TailBatch
  <1> QED
    BY <1>1, TailBatch DEF Latest, Skips

\* A batch that suits the row as the queue leaves it can join the queue.
LEMMA AppendFits ==
  ASSUME NEW q \in Seq(Batches), NEW b \in Batches, NEW r, NEW value,
         Fits(q, r, value),
         r \in DOMAIN b /\ ~ Touches(q, r) => Accepts(value, b[r]),
         \A j \in 1..Len(q) : r \in DOMAIN b /\ Latest(q, r, j) => Accepts(q[j][r].row, b[r])
  PROVE  Fits(Append(q, b), r, value)
  <1> PICK p : p = Append(q, b)
    OBVIOUS
  <1>1. /\ Len(q) \in Nat /\ Len(p) = Len(q) + 1 /\ p[Len(q) + 1] = b
        /\ \A i \in 1..Len(q) : p[i] = q[i]
    BY AppendBatch
  <1> SUFFICES ASSUME NEW i \in 1..Len(p), r \in DOMAIN p[i]
               PROVE  /\ Skips(p, r, 1, i - 1) => Accepts(value, p[i][r])
                      /\ \A j \in 1..(i - 1) :
                           r \in DOMAIN p[j] /\ Skips(p, r, j + 1, i - 1) => Accepts(p[j][r].row, p[i][r])
    BY DEF Fits
  <1>2. CASE i \in 1..Len(q)
    <2>1. p[i] = q[i]
      BY <1>1, <1>2
    <2>2. \A f \in 1..i : \A h \in f..(i - 1) : h \in 1..Len(q) /\ p[h] = q[h]
      BY <1>1, <1>2
    <2>3. \A f \in 1..i : Skips(p, r, f, i - 1) => Skips(q, r, f, i - 1)
      BY <2>2 DEF Skips
    <2>4. Skips(p, r, 1, i - 1) => Accepts(value, p[i][r])
      <3>1. 1 \in 1..i
        BY <1>2
      <3> QED
        BY <1>2, <2>1, <2>3, <3>1 DEF Fits
    <2>5. ASSUME NEW j \in 1..(i - 1), r \in DOMAIN p[j], Skips(p, r, j + 1, i - 1)
          PROVE  Accepts(p[j][r].row, p[i][r])
      <3>1. j \in 1..Len(q) /\ j + 1 \in 1..i
        BY <1>1, <1>2
      <3>2. p[j] = q[j]
        BY <1>1, <3>1
      <3> QED
        BY <1>2, <2>1, <2>3, <2>5, <3>1, <3>2 DEF Fits
    <2> QED
      BY <2>4, <2>5
  <1>3. CASE i = Len(q) + 1
    <2>1. p[i] = b /\ i - 1 = Len(q) /\ r \in DOMAIN b
      BY <1>1, <1>3
    <2>2. Skips(p, r, 1, i - 1) => ~ Touches(q, r)
      BY <1>1, <2>1 DEF Skips, Touches
    <2>3. ASSUME NEW j \in 1..(i - 1), r \in DOMAIN p[j], Skips(p, r, j + 1, i - 1)
          PROVE  Accepts(p[j][r].row, p[i][r])
      <3>1. j \in 1..Len(q) /\ p[j] = q[j]
        BY <1>1, <2>1
      <3>2. \A h \in (j + 1)..Len(q) : h \in 1..Len(q)
        BY <1>1, <3>1
      <3>3. Latest(q, r, j)
        BY <1>1, <2>1, <2>3, <3>1, <3>2 DEF Latest, Skips
      <3> QED
        BY <2>1, <3>1, <3>3
    <2> QED
      BY <2>1, <2>2, <2>3
  <1> QED
    BY <1>1, <1>2, <1>3

\* What a queue leads to starts from what its head leaves.
LEMMA TailFits ==
  ASSUME NEW q \in Seq(Batches), q # <<>>, NEW r, NEW value, NEW after, Fits(q, r, value),
         after = IF r \in DOMAIN Head(q) THEN Head(q)[r].row ELSE value
  PROVE  /\ Fits(Tail(q), r, after)
         /\ r \in DOMAIN Head(q) => Accepts(value, Head(q)[r])
  <1> PICK p : p = Tail(q)
    OBVIOUS
  <1>1. /\ Len(q) \in Nat /\ Len(p) = Len(q) - 1 /\ 1 \in 1..Len(q) /\ Head(q) = q[1]
        /\ \A i \in 1..Len(p) : i + 1 \in 1..Len(q) /\ p[i] = q[i + 1]
    BY TailBatch
  <1>2. \A f, l \in 1..Len(q) : Skips(p, r, f, l - 1) => Skips(q, r, f + 1, l)
    <2> SUFFICES ASSUME NEW f \in 1..Len(q), NEW l \in 1..Len(q), Skips(p, r, f, l - 1),
                        NEW h \in (f + 1)..l
                 PROVE  r \notin DOMAIN q[h]
      BY DEF Skips
    <2>1. h - 1 \in f..(l - 1) /\ h - 1 \in 1..Len(p) /\ (h - 1) + 1 = h
      BY <1>1
    <2> QED
      BY <1>1, <2>1 DEF Skips
  <1>3. r \in DOMAIN Head(q) => Accepts(value, Head(q)[r])
    <2>1. Skips(q, r, 1, 1 - 1)
      BY DEF Skips
    <2> QED
      BY <1>1, <2>1 DEF Fits
  <1>4. ASSUME NEW i \in 1..Len(p), r \in DOMAIN p[i], Skips(p, r, 1, i - 1)
        PROVE  Accepts(after, p[i][r])
    <2>1. i + 1 \in 1..Len(q) /\ i \in 1..Len(q) /\ p[i] = q[i + 1] /\ (i + 1) - 1 = i
      BY <1>1
    <2>2. Skips(q, r, 1 + 1, i)
      BY <1>1, <1>2, <1>4, <2>1
    <2>3. CASE r \in DOMAIN Head(q)
      <3>1. 1 \in 1..((i + 1) - 1)
        BY <2>1
      <3> QED
        BY <1>1, <1>4, <2>1, <2>2, <2>3, <3>1 DEF Fits
    <2>4. CASE r \notin DOMAIN Head(q)
      <3>1. Skips(q, r, 1, i)
        <4>1. \A h \in 1..i : h = 1 \/ h \in (1 + 1)..i
          OBVIOUS
        <4> QED
          BY <1>1, <2>2, <2>4, <4>1 DEF Skips
      <3> QED
        BY <1>1, <1>4, <2>1, <2>4, <3>1 DEF Fits
    <2> QED
      BY <2>3, <2>4
  <1>5. ASSUME NEW i \in 1..Len(p), r \in DOMAIN p[i],
               NEW j \in 1..(i - 1), r \in DOMAIN p[j], Skips(p, r, j + 1, i - 1)
        PROVE  Accepts(p[j][r].row, p[i][r])
    <2>1. /\ i + 1 \in 1..Len(q) /\ i \in 1..Len(q) /\ p[i] = q[i + 1] /\ (i + 1) - 1 = i
          /\ j \in 1..Len(p) /\ j + 1 \in 1..Len(q) /\ p[j] = q[j + 1] /\ j + 1 \in 1..i
      BY <1>1
    <2>2. Skips(q, r, (j + 1) + 1, i)
      BY <1>2, <1>5, <2>1
    <2> QED
      BY <1>5, <2>1, <2>2 DEF Fits
  <1> QED
    BY <1>3, <1>4, <1>5 DEF Fits

-----------------------------------------------------------------------------
(* What the two steps change, row by row and queue by queue.               *)

LEMMA BatchOps ==
  ASSUME NEW b \in Batches, NEW r \in DOMAIN b
  PROVE  r \in Rows /\ b[r] \in Op /\ b[r].row \in Values \cup {Absent}
  <1>1. r \in Rows /\ b[r] \in Op
    BY RowConstants
  <1> QED
    BY <1>1 DEF Op

LEMMA CommitChanges ==
  ASSUME RelayTypeOK, NEW n \in Nodes, NEW b \in Batches, Commit(n, b)
  PROVE  /\ \A m \in Nodes, r \in Rows :
              store'[m][r] = IF m = n /\ r \in DOMAIN b THEN b[r].row ELSE store[m][r]
         /\ \A m, k \in Nodes :
              relay'[m][k] = IF m = n /\ k # n THEN Append(relay[m][k], b) ELSE relay[m][k]
         /\ \A r \in Rows : r \notin raced' =>
              r \notin raced /\ (r \in DOMAIN b => ~ Racing(n, r))
         /\ \A r \in DOMAIN b : Accepts(store[n][r], b[r])
         /\ RelayTypeOK'
  <1>1. \A m \in Nodes, r \in Rows :
          store'[m][r] = IF m = n /\ r \in DOMAIN b THEN b[r].row ELSE store[m][r]
    BY DEF Commit, RelayTypeOK, Apply
  <1>2. \A m, k \in Nodes :
          relay'[m][k] = IF m = n /\ k # n THEN Append(relay[m][k], b) ELSE relay[m][k]
    BY DEF Commit, RelayTypeOK
  <1>3. \A r \in Rows : r \notin raced' => r \notin raced /\ (r \in DOMAIN b => ~ Racing(n, r))
    BY DEF Commit
  <1>4. \A r \in DOMAIN b : Accepts(store[n][r], b[r])
    BY DEF Commit, Applies, Accepts
  <1>5. Apply(store[n], b) \in [Rows -> Values \cup {Absent}]
    BY BatchOps DEF Apply, RelayTypeOK
  <1>6. store' \in [Nodes -> [Rows -> Values \cup {Absent}]]
    BY <1>5 DEF Commit, RelayTypeOK
  <1>7. relay' \in [Nodes -> [Nodes -> Seq(Batches)]]
    <2>1. \A k \in Nodes : Append(relay[n][k], b) \in Seq(Batches)
      BY AppendBatch DEF RelayTypeOK
    <2> QED
      BY <2>1 DEF Commit, RelayTypeOK
  <1>8. raced' \subseteq Rows
    BY RowConstants DEF Commit, RelayTypeOK
  <1>9. writes' \in 0..MaxWrites
    BY RowConstants DEF Commit, RelayTypeOK
  <1> QED
    BY <1>1, <1>2, <1>3, <1>4, <1>6, <1>7, <1>8, <1>9 DEF RelayTypeOK

LEMMA OnRelayChanges ==
  ASSUME RelayTypeOK, NEW m \in Nodes, NEW n \in Nodes, NEW b \in Batches, OnRelay(m, n, b)
  PROVE  /\ relay[m][n] # <<>> /\ b = Head(relay[m][n])
         /\ \A l \in Nodes, r \in Rows :
              store'[l][r] = IF l = n /\ Applies(store[n], b) /\ r \in DOMAIN b
                               THEN b[r].row ELSE store[l][r]
         /\ \A l, k \in Nodes :
              relay'[l][k] = IF l = m /\ k = n THEN Tail(relay[m][n]) ELSE relay[l][k]
         /\ raced \subseteq raced'
         /\ ~ Applies(store[n], b) => DOMAIN b \cap raced = {} \/ DOMAIN b \subseteq raced'
         /\ RelayTypeOK'
  <1>1. relay[m][n] # <<>> /\ b = Head(relay[m][n])
    BY DEF OnRelay
  <1>2. \A l \in Nodes, r \in Rows :
          store'[l][r] = IF l = n /\ Applies(store[n], b) /\ r \in DOMAIN b
                           THEN b[r].row ELSE store[l][r]
    BY DEF OnRelay, RelayTypeOK, Apply
  <1>3. \A l, k \in Nodes :
          relay'[l][k] = IF l = m /\ k = n THEN Tail(relay[m][n]) ELSE relay[l][k]
    BY DEF OnRelay, RelayTypeOK
  <1>4. /\ raced \subseteq raced'
        /\ ~ Applies(store[n], b) => DOMAIN b \cap raced = {} \/ DOMAIN b \subseteq raced'
    BY DEF OnRelay
  <1>5. Apply(store[n], b) \in [Rows -> Values \cup {Absent}]
    BY BatchOps DEF Apply, RelayTypeOK
  <1>6. store' \in [Nodes -> [Rows -> Values \cup {Absent}]]
    BY <1>5 DEF OnRelay, RelayTypeOK
  <1>7. relay' \in [Nodes -> [Nodes -> Seq(Batches)]]
    <2>1. Tail(relay[m][n]) \in Seq(Batches)
      BY <1>1, TailBatch DEF RelayTypeOK
    <2> QED
      BY <2>1 DEF OnRelay, RelayTypeOK
  <1>8. raced' \subseteq Rows /\ writes' \in 0..MaxWrites
    BY RowConstants DEF OnRelay, RelayTypeOK
  <1> QED
    BY <1>1, <1>2, <1>3, <1>4, <1>6, <1>7, <1>8 DEF RelayTypeOK

-----------------------------------------------------------------------------
(* Every step keeps the invariant.                                         *)

LEMMA CommitKeeps ==
  ASSUME RelayInv, NEW n \in Nodes, NEW b \in Batches, Commit(n, b)
  PROVE  RelayInv'
  <1>1. RelayTypeOK
    BY DEF RelayInv
  <1>2. /\ \A m \in Nodes, r \in Rows :
             store'[m][r] = IF m = n /\ r \in DOMAIN b THEN b[r].row ELSE store[m][r]
        /\ \A m, k \in Nodes :
             relay'[m][k] = IF m = n /\ k # n THEN Append(relay[m][k], b) ELSE relay[m][k]
        /\ \A r \in Rows : r \notin raced' =>
             r \notin raced /\ (r \in DOMAIN b => ~ Racing(n, r))
        /\ \A r \in DOMAIN b : Accepts(store[n][r], b[r])
        /\ RelayTypeOK'
    BY <1>1, CommitChanges
  <1>3. \A m, k \in Nodes : relay[m][k] \in Seq(Batches)
    BY <1>1 DEF RelayTypeOK
  <1>4. NoEcho'
    BY <1>2 DEF RelayInv, NoEcho
  <1>5. \A m, k \in Nodes, r \in Rows :
          Touches(relay'[m][k], r) <=> Touches(relay[m][k], r) \/ (m = n /\ k # n /\ r \in DOMAIN b)
    BY <1>2, <1>3, AppendTouches
  \* Whoever else publishes a row of this batch would be racing us.
  <1>6. \A m, k \in Nodes, r \in Rows \ raced' :
          r \in DOMAIN b /\ Touches(relay[m][k], r) => m = n /\ k # n
    <2> SUFFICES ASSUME NEW m \in Nodes, NEW k \in Nodes, NEW r \in Rows \ raced',
                        r \in DOMAIN b, Touches(relay[m][k], r)
                 PROVE  m = n /\ k # n
      OBVIOUS
    <2>1. m = n
      BY <1>2 DEF Racing
    <2>2. relay[n][n] = <<>> /\ Len(<<>>) = 0
      BY EmptySeq DEF RelayInv, NoEcho
    <2>3. relay[m][k] # <<>>
      BY <2>2 DEF Touches
    <2> QED
      BY <2>1, <2>2, <2>3
  <1>7. OneWriter'
    BY <1>2, <1>5, <1>6, SMTT(30) DEF RelayInv, OneWriter
  <1>8. Carried'
    <2> SUFFICES ASSUME NEW r \in Rows, r \notin raced', NEW m \in Nodes, NEW k \in Nodes,
                        NEW i \in 1..Len(relay'[m][k]), Latest(relay'[m][k], r, i)
                 PROVE  relay'[m][k][i][r].row = store'[m][r]
      BY DEF Carried
    <2>0. r \notin raced
      BY <1>2
    <2>1. CASE m = n /\ k # n
      <3>1. relay'[m][k] = Append(relay[m][k], b)
        BY <1>2, <2>1
      <3>2. CASE r \in DOMAIN b
        <4>1. relay'[m][k][i] = b
          BY <1>3, <3>1, <3>2, AppendLatest
        <4> QED
          BY <1>2, <2>1, <3>2, <4>1
      <3>3. CASE r \notin DOMAIN b
        <4>1. Latest(relay[m][k], r, i) /\ relay'[m][k][i] = relay[m][k][i]
          BY <1>3, <3>1, <3>3, AppendLatest
        <4>2. relay[m][k][i][r].row = store[m][r]
          BY <2>0, <4>1 DEF RelayInv, Carried, Latest
        <4> QED
          BY <1>2, <3>3, <4>1, <4>2
      <3> QED
        BY <3>2, <3>3
    <2>2. CASE ~ (m = n /\ k # n)
      <3>1. relay'[m][k] = relay[m][k]
        BY <1>2, <2>2
      <3>2. relay[m][k][i][r].row = store[m][r]
        BY <2>0, <3>1 DEF RelayInv, Carried
      <3>3. Touches(relay[m][k], r)
        BY <3>1 DEF Latest, Touches
      <3>4. ~ (m = n /\ r \in DOMAIN b)
        BY <1>6, <2>2, <3>3
      <3> QED
        BY <1>2, <3>1, <3>2, <3>4
    <2> QED
      BY <2>1, <2>2
  <1>9. Fitting'
    <2> SUFFICES ASSUME NEW r \in Rows, r \notin raced', NEW m \in Nodes, NEW k \in Nodes
                 PROVE  Fits(relay'[m][k], r, store'[k][r])
      BY DEF Fitting
    <2>0. r \notin raced /\ Fits(relay[m][k], r, store[k][r])
      BY <1>2 DEF RelayInv, Fitting
    <2>1. CASE m = n /\ k # n
      <3>1. relay'[m][k] = Append(relay[m][k], b) /\ store'[k][r] = store[k][r]
        BY <1>2, <2>1
      <3>2. r \in DOMAIN b /\ ~ Touches(relay[m][k], r) => Accepts(store[k][r], b[r])
        <4> SUFFICES ASSUME r \in DOMAIN b, ~ Touches(relay[m][k], r)
                     PROVE  Accepts(store[k][r], b[r])
          OBVIOUS
        <4>1. Settled(n, r) /\ Settled(k, r)
          BY <1>6, <2>1 DEF Settled
        <4>2. store[n][r] = store[k][r]
          BY <2>0, <4>1 DEF RelayInv, ReplicasAgree
        <4> QED
          BY <1>2, <4>2
      <3>3. ASSUME NEW j \in 1..Len(relay[m][k]), r \in DOMAIN b, Latest(relay[m][k], r, j)
            PROVE  Accepts(relay[m][k][j][r].row, b[r])
        <4>1. relay[m][k][j][r].row = store[n][r]
          BY <2>0, <2>1, <3>3 DEF RelayInv, Carried
        <4> QED
          BY <1>2, <3>3, <4>1
      <3> QED
        BY <1>3, <2>0, <3>1, <3>2, <3>3, AppendFits
    <2>2. CASE ~ (m = n /\ k # n)
      <3>1. relay'[m][k] = relay[m][k]
        BY <1>2, <2>2
      <3>2. CASE store'[k][r] = store[k][r]
        BY <2>0, <3>1, <3>2
      <3>3. CASE k = n /\ r \in DOMAIN b
        <4>1. ~ Touches(relay[m][k], r)
          BY <1>6, <3>3
        <4> QED
          BY <3>1, <4>1 DEF Fits, Touches
      <3> QED
        BY <1>2, <3>2, <3>3
    <2> QED
      BY <2>1, <2>2
  <1>10. ReplicasAgree'
    <2> SUFFICES ASSUME NEW r \in Rows, r \notin raced', NEW k \in Nodes, NEW l \in Nodes,
                        Settled(k, r)', Settled(l, r)'
                 PROVE  store'[k][r] = store'[l][r]
      BY DEF ReplicasAgree
    <2>1. CASE r \in DOMAIN b
      <3>1. \A j \in Nodes : Settled(j, r)' => j = n
        BY <1>5, <2>1 DEF Settled
      <3> QED
        BY <3>1
    <2>2. CASE r \notin DOMAIN b
      <3>1. Settled(k, r) /\ Settled(l, r)
        BY <1>5, <2>2 DEF Settled
      <3> QED
        BY <1>2, <2>2, <3>1 DEF RelayInv, ReplicasAgree
    <2> QED
      BY <2>1, <2>2
  <1> QED
    BY <1>2, <1>4, <1>7, <1>8, <1>9, <1>10 DEF RelayInv

LEMMA OnRelayKeeps ==
  ASSUME RelayInv, NEW m \in Nodes, NEW n \in Nodes, NEW b \in Batches, OnRelay(m, n, b)
  PROVE  RelayInv'
  <1>1. RelayTypeOK
    BY DEF RelayInv
  <1> PICK q : q = relay[m][n]
    OBVIOUS
  <1>2. /\ q # <<>> /\ b = Head(q) /\ q \in Seq(Batches)
        /\ \A l \in Nodes, r \in Rows :
             store'[l][r] = IF l = n /\ Applies(store[n], b) /\ r \in DOMAIN b
                              THEN b[r].row ELSE store[l][r]
        /\ \A l, k \in Nodes : relay'[l][k] = IF l = m /\ k = n THEN Tail(q) ELSE relay[l][k]
        /\ raced \subseteq raced'
        /\ ~ Applies(store[n], b) => DOMAIN b \cap raced = {} \/ DOMAIN b \subseteq raced'
        /\ RelayTypeOK'
    <2>1. q \in Seq(Batches)
      BY <1>1 DEF RelayTypeOK
    <2> QED
      BY <1>1, <2>1, OnRelayChanges
  <1>3. m # n
    BY <1>2 DEF RelayInv, NoEcho
  <1>4. NoEcho'
    BY <1>2, <1>3 DEF RelayInv, NoEcho
  <1>5. \A l, k \in Nodes, r \in Rows : Touches(relay'[l][k], r) => Touches(relay[l][k], r)
    BY <1>2, TailTouches
  <1>6. OneWriter'
    BY <1>2, <1>5 DEF RelayInv, OneWriter
  \* A batch is not refused on account of a row that was never raced.
  <1>7. \A r \in Rows \ raced : r \in DOMAIN b => Accepts(store[n][r], b[r])
    <2> SUFFICES ASSUME NEW r \in Rows, r \notin raced, r \in DOMAIN b
                 PROVE  Accepts(store[n][r], b[r])
      OBVIOUS
    <2>1. Fits(q, r, store[n][r])
      BY DEF RelayInv, Fitting
    <2> QED
      BY <1>2, <2>1, TailFits
  <1>8. \A r \in Rows \ raced' : r \in DOMAIN b => Applies(store[n], b)
    <2> SUFFICES ASSUME NEW r \in Rows, r \notin raced', r \in DOMAIN b, ~ Applies(store[n], b)
                 PROVE  FALSE
      OBVIOUS
    <2>1. DOMAIN b \cap raced = {} /\ DOMAIN b \subseteq Rows
      BY <1>2, RowConstants
    <2>2. \A x \in DOMAIN b : Accepts(store[n][x], b[x])
      BY <1>7, <2>1
    <2> QED
      BY <2>2 DEF Accepts, Applies
  <1>9. \A l \in Nodes, r \in Rows \ raced' :
          store'[l][r] = IF l = n /\ r \in DOMAIN b THEN b[r].row ELSE store[l][r]
    BY <1>2, <1>8
  \* Nobody else publishes the rows of this batch, the receiver least of all.
  <1>10. \A l, k \in Nodes, r \in Rows \ raced' :
           r \in DOMAIN b /\ Touches(relay[l][k], r) => l = m /\ k # m
    <2> SUFFICES ASSUME NEW l \in Nodes, NEW k \in Nodes, NEW r \in Rows, r \notin raced',
                        r \in DOMAIN b, Touches(relay[l][k], r)
                 PROVE  l = m /\ k # m
      OBVIOUS
    <2>1. Touches(q, r) /\ r \notin raced
      BY <1>2, TailTouches
    <2>2. l = m
      BY <2>1 DEF RelayInv, OneWriter
    <2>3. relay[m][m] = <<>> /\ Len(<<>>) = 0
      BY EmptySeq DEF RelayInv, NoEcho
    <2>4. relay[l][k] # <<>>
      BY <2>3 DEF Touches
    <2> QED
      BY <2>2, <2>3, <2>4
  <1>11. Carried'
    <2> SUFFICES ASSUME NEW r \in Rows, r \notin raced', NEW l \in Nodes, NEW k \in Nodes,
                        NEW i \in 1..Len(relay'[l][k]), Latest(relay'[l][k], r, i)
                 PROVE  relay'[l][k][i][r].row = store'[l][r]
      BY DEF Carried
    <2>0. r \notin raced
      BY <1>2
    <2>1. Touches(relay[l][k], r)
      <3>1. Touches(relay'[l][k], r)
        BY DEF Latest, Touches
      <3> QED
        BY <1>5, <3>1
    <2>2. store'[l][r] = store[l][r]
      BY <1>3, <1>9, <1>10, <2>1
    <2>3. CASE l = m /\ k = n
      <3>1. Latest(q, r, i + 1) /\ Tail(q)[i] = q[i + 1]
        <4>1. relay'[l][k] = Tail(q)
          BY <1>2, <2>3
        <4>2. i \in 1..Len(Tail(q)) /\ Latest(Tail(q), r, i)
          BY <4>1
        <4> QED
          BY <1>2, <4>2, TailLatest
      <3>2. q[i + 1][r].row = store[m][r]
        BY <2>0, <3>1 DEF RelayInv, Carried, Latest
      <3> QED
        BY <1>2, <2>2, <2>3, <3>1, <3>2
    <2>4. CASE ~ (l = m /\ k = n)
      <3>1. relay'[l][k] = relay[l][k]
        BY <1>2, <2>4
      <3> QED
        BY <2>0, <2>2, <3>1 DEF RelayInv, Carried
    <2> QED
      BY <2>3, <2>4
  <1>12. Fitting'
    <2> SUFFICES ASSUME NEW r \in Rows, r \notin raced', NEW l \in Nodes, NEW k \in Nodes
                 PROVE  Fits(relay'[l][k], r, store'[k][r])
      BY DEF Fitting
    <2>0. r \notin raced /\ Fits(relay[l][k], r, store[k][r])
      BY <1>2 DEF RelayInv, Fitting
    <2>1. CASE l = m /\ k = n
      <3>1. store'[n][r] = IF r \in DOMAIN Head(q) THEN Head(q)[r].row ELSE store[n][r]
        BY <1>2, <1>9
      <3>2. Fits(Tail(q), r, store'[n][r])
        BY <1>2, <2>0, <2>1, <3>1, TailFits
      <3> QED
        BY <1>2, <2>1, <3>2
    <2>2. CASE ~ (l = m /\ k = n)
      <3>1. relay'[l][k] = relay[l][k]
        BY <1>2, <2>2
      <3>2. CASE store'[k][r] = store[k][r]
        BY <2>0, <3>1, <3>2
      <3>3. CASE k = n /\ r \in DOMAIN b
        <4>1. ~ Touches(relay[l][k], r)
          BY <1>10, <2>2, <3>3
        <4> QED
          BY <3>1, <4>1 DEF Fits, Touches
      <3> QED
        BY <1>9, <3>2, <3>3
    <2> QED
      BY <2>1, <2>2
  <1>13. ReplicasAgree'
    <2> SUFFICES ASSUME NEW r \in Rows, r \notin raced', NEW k \in Nodes, NEW l \in Nodes,
                        Settled(k, r)', Settled(l, r)'
                 PROVE  store'[k][r] = store'[l][r]
      BY DEF ReplicasAgree
    <2>0. r \notin raced
      BY <1>2
    <2>1. CASE r \in DOMAIN b
      \* Everybody who is settled has what the publisher has.
      <3>1. \A j \in Nodes : Settled(j, r)' => store'[j][r] = store[m][r]
        <4> SUFFICES ASSUME NEW j \in Nodes, Settled(j, r)' PROVE store'[j][r] = store[m][r]
          OBVIOUS
        <4>1. CASE j = n
          <5>1. ~ Touches(Tail(q), r)
            BY <1>2, <4>1 DEF Settled
          <5>2. Latest(q, r, 1) /\ q[1] = b /\ 1 \in 1..Len(q)
            BY <1>2, <2>1, <5>1, HeadLatest
          <5>3. b[r].row = store[m][r]
            BY <2>0, <5>2 DEF RelayInv, Carried
          <5> QED
            BY <1>9, <2>1, <4>1, <5>3
        <4>2. CASE j # n
          <5>1. Settled(j, r)
            BY <1>2, <4>2 DEF Settled
          <5>2. Settled(m, r)
            BY <1>10, <2>1 DEF Settled
          <5>3. store[j][r] = store[m][r]
            BY <2>0, <5>1, <5>2 DEF RelayInv, ReplicasAgree
          <5> QED
            BY <1>9, <4>2, <5>3
        <4> QED
          BY <4>1, <4>2
      <3> QED
        BY <3>1
    <2>2. CASE r \notin DOMAIN b
      <3>1. \A j \in Nodes : Settled(j, r)' => Settled(j, r)
        BY <1>2, <2>2, TailTouches DEF Settled
      <3> QED
        BY <1>9, <2>0, <2>2, <3>1 DEF RelayInv, ReplicasAgree
    <2> QED
      BY <2>1, <2>2
  <1> QED
    BY <1>2, <1>4, <1>6, <1>11, <1>12, <1>13 DEF RelayInv

LEMMA RelayInitially == RelayInit => RelayInv
  <1> SUFFICES ASSUME RelayInit PROVE RelayInv
    OBVIOUS
  <1>1. RelayTypeOK
    BY RowConstants, EmptySeq DEF RelayInit, RelayTypeOK
  <1>2. \A m, n \in Nodes : relay[m][n] = <<>> /\ Len(relay[m][n]) = 0
    BY EmptySeq DEF RelayInit
  <1>3. \A m, n \in Nodes, r \in Rows : ~ Touches(relay[m][n], r)
    BY <1>2 DEF Touches
  <1>4. NoEcho /\ OneWriter
    BY <1>2, <1>3 DEF NoEcho, OneWriter
  <1>5. Carried /\ Fitting
    BY <1>2 DEF Carried, Fitting, Fits
  <1>6. ReplicasAgree
    BY DEF RelayInit, ReplicasAgree
  <1> QED
    BY <1>1, <1>4, <1>5, <1>6 DEF RelayInv

LEMMA RelayStep == RelayInv /\ [RelayNext]_relayVars => RelayInv'
  <1> SUFFICES ASSUME RelayInv, [RelayNext]_relayVars PROVE RelayInv'
    OBVIOUS
  <1>1. CASE UNCHANGED relayVars
    BY <1>1 DEF relayVars, RelayInv, RelayTypeOK, NoEcho, OneWriter, Carried, Fitting,
                ReplicasAgree, Settled
  <1> QED
    BY <1>1, CommitKeeps, OnRelayKeeps DEF RelayNext

LEMMA RelayInductive == RelaySpec => []RelayInv
  BY RelayInitially, RelayStep, PTL DEF RelaySpec

\* The stores and the queues between them keep their types.
THEOREM RelayTypeCorrect == RelaySpec => []RelayTypeOK
  <1>1. RelayInv => RelayTypeOK
    BY DEF RelayInv
  <1> QED
    BY <1>1, RelayInductive, PTL

\* However many nodes there are and however their broadcasts are interleaved: two nodes that
\* have received everything about a row hold the same, unless the row was written on one node
\* while a batch of another with it was under way.
THEOREM ReplicasConverge == RelaySpec => []ReplicasAgree
  <1>1. RelayInv => ReplicasAgree
    BY DEF RelayInv
  <1> QED
    BY <1>1, RelayInductive, PTL
=============================================================================
