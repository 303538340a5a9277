------------------------------ MODULE MCRowFeed ------------------------------
(* One client and the stores of up to two nodes.  A row is open, done or   *)
(* hidden; the policy admits open and done rows.                           *)
EXTENDS RowFeed, TLC

CONSTANTS r1, r2, open, done, hidden, s1, s2

Insert(v) == [k |-> "insert", row |-> v]
Update(v) == [k |-> "update", row |-> v]
Delete == [k |-> "delete", row |-> Absent]

\* Every operation on one row.
Ops(r) == {r :> op : op \in {Insert(v) : v \in Values} \cup {Update(v) : v \in Values} \cup {Delete}}
MCOneRow == Ops(r1)

\* ... and a row that is only written together with another one.
MCTwoRows == Ops(r1) \cup {r1 :> Insert(open) @@ r2 :> Insert(open), r2 :> Delete}

MCFilter == [s \in Subs |-> IF s = s1 THEN {open, hidden} \cap Values ELSE Values]
MCReadable == {open, done} \cap Values
=============================================================================
