------------------------------ MODULE RowRelay ------------------------------
(***************************************************************************)
(* Typed row collections on a `relay` backend: every node has a store of   *)
(* its own (packages/collections-memory), a batch that a node has applied  *)
(* is broadcast to the others over the adapter (commit and onRelay of      *)
(* packages/server/src/collections/rows.ts), and they apply it in the      *)
(* order it arrives.  The adapter keeps the order of one publisher.        *)
(*                                                                         *)
(* A batch is a function from the rows it touches to one operation each.   *)
(* What the schema, the references and the write policy refuse never gets  *)
(* to `commit`; a batch that a store refuses changes nothing.              *)
(***************************************************************************)
EXTENDS Naturals, Sequences

CONSTANTS
  Nodes,      \* servers, one store each
  Rows,       \* row ids of one collection
  Values,     \* what a row may contain
  Absent,     \* no row
  Batches,    \* batches the application may write
  MaxWrites   \* bound: batches written

Op == [k : {"insert", "update"}, row : Values] \cup [k : {"delete"}, row : {Absent}]

ASSUME RowConstants ==
  /\ Absent \notin Values
  /\ MaxWrites \in Nat
  /\ \A b \in Batches : DOMAIN b \subseteq Rows /\ b \in [DOMAIN b -> Op]

VARIABLES
  store,   \* the rows of each node
  relay,   \* batches under way, per publisher and receiver
  raced,   \* history: rows written while another node's batch with them was under way
  writes   \* bound: batches written so far

relayVars == <<store, relay, raced, writes>>

RelayTypeOK ==
  /\ store \in [Nodes -> [Rows -> Values \cup {Absent}]]
  /\ relay \in [Nodes -> [Nodes -> Seq(Batches)]]
  /\ raced \subseteq Rows
  /\ writes \in 0..MaxWrites

RelayInit ==
  /\ store = [n \in Nodes |-> [r \in Rows |-> Absent]]
  /\ relay = [m \in Nodes |-> [n \in Nodes |-> <<>>]]
  /\ raced = {}
  /\ writes = 0

\* apply throws on an insert of a row that is there and on an update of one that is not.
Applies(rows, b) ==
  \A r \in DOMAIN b :
    /\ b[r].k = "insert" => rows[r] = Absent
    /\ b[r].k = "update" => rows[r] # Absent

\* Faulty: what is stored is the operation, not its row.
ApplyOp(rows, b) == [r \in Rows |-> IF r \in DOMAIN b THEN b[r] ELSE rows[r]]

\* ... and otherwise every operation takes effect; a delete of no row is none.
Apply(rows, b) == [r \in Rows |-> IF r \in DOMAIN b THEN b[r].row ELSE rows[r]]

Touches(q, r) == \E i \in 1..Len(q) : r \in DOMAIN q[i]

\* A batch of another node that touches the row has not arrived everywhere.
Racing(n, r) == \E m \in Nodes \ {n}, k \in Nodes : Touches(relay[m][k], r)

\* commit: apply, then broadcast to the other nodes (our own copy comes back and is dropped).
Commit(n, b) ==
  /\ writes < MaxWrites /\ writes' = writes + 1
  /\ Applies(store[n], b)
  /\ store' = [store EXCEPT ![n] = Apply(@, b)]
  /\ relay' = [relay EXCEPT ![n] = [k \in Nodes |-> IF k = n THEN @[k] ELSE Append(@[k], b)]]
  /\ raced' = raced \cup {r \in DOMAIN b : Racing(n, r)}

\* Faulty: the batches of one publisher overtake each other.
OnRelayUnordered(m, n, b) ==
  \E i \in 1..Len(relay[m][n]) :
    /\ b = relay[m][n][i]
    /\ relay' = [relay EXCEPT ![m][n] = SubSeq(@, 1, i - 1) \o SubSeq(@, i + 1, Len(@))]
    /\ store' = [store EXCEPT ![n] = IF Applies(@, b) THEN Apply(@, b) ELSE @]
    /\ raced' = IF Applies(store[n], b) \/ DOMAIN b \cap raced = {} THEN raced ELSE raced \cup DOMAIN b
    /\ UNCHANGED writes

\* onRelay: the store applies the batch, or refuses it as a whole and it is dropped.  The rows
\* of a dropped batch share the fate of the raced row that it was refused for.
OnRelay(m, n, b) ==
  /\ relay[m][n] # <<>> /\ b = Head(relay[m][n])
  /\ relay' = [relay EXCEPT ![m][n] = Tail(@)]
  /\ store' = [store EXCEPT ![n] = IF Applies(@, b) THEN Apply(@, b) ELSE @]
  /\ raced' = IF Applies(store[n], b) \/ DOMAIN b \cap raced = {} THEN raced ELSE raced \cup DOMAIN b
  /\ UNCHANGED writes

RelayNext ==
  \/ \E n \in Nodes, b \in Batches : Commit(n, b)
  \/ \E m, n \in Nodes, b \in Batches : OnRelay(m, n, b)

RelaySpec == RelayInit /\ [][RelayNext]_relayVars

-----------------------------------------------------------------------------
Settled(n, r) == \A m \in Nodes : ~ Touches(relay[m][n], r)

\* Two nodes that have received everything about a row agree on it, unless it was written on
\* two nodes at once: the order of the broadcasts is then the order of the writes, everywhere.
ReplicasAgree ==
  \A r \in Rows \ raced, n, k \in Nodes :
    Settled(n, r) /\ Settled(k, r) => store[n][r] = store[k][r]
=============================================================================
