------------------------------- MODULE RowFeed -------------------------------
(***************************************************************************)
(* Live subscriptions to a row collection: the handlers of one connection  *)
(* on the server (packages/server/src/collections/rows.ts) and the client  *)
(* that holds the rows (packages/client/src/index.ts), over the stores of  *)
(* RowRelay.  The client reconnects to any node.                           *)
(*                                                                         *)
(* Frames reach the client in order.  The `cchg` frames of one batch are   *)
(* sent in one go and are one message here.  On the server the handler of  *)
(* a `csub` waits twice, for the policy and for the store, while changes   *)
(* are routed and other frames are handled.  A handler that outlives its   *)
(* connection only touches what belonged to that connection, and goes with *)
(* it.  Sorting, limit and offset are left out.                            *)
(***************************************************************************)
EXTENDS RowRelay, FiniteSets

CONSTANTS
  Subs,         \* subscriptions the client makes (subId)
  Filter,       \* the values that match the filter of a subscription
  Readable,     \* the values that the read policy admits
  PrevKnown,    \* whether a change carries the row before it: {TRUE} for a relay backend
  Offline,      \* the client is not connected
  MaxDrops,     \* bound: connections lost
  MaxFailures   \* bound: subscribes refused, failed or timed out

ASSUME FeedConstants ==
  /\ Filter \in [Subs -> SUBSET Values] /\ Readable \subseteq Values
  /\ PrevKnown \subseteq BOOLEAN /\ Offline \notin Nodes
  /\ MaxDrops \in Nat /\ MaxFailures \in Nat

Snapshot == [Rows -> Values \cup {Absent}]
Change == UNION {[R -> Values \cup {Absent}] : R \in SUBSET Rows}
Frame == [t : {"cchg"}, d : Change] \cup [t : {"res"}, s : Subs, rows : Snapshot]
         \cup [t : {"err"}, s : Subs]

VARIABLES
  at,        \* the node the client is connected to
  reg,       \* connState: the subscriptions registered for the connection
  serving,   \* where the handler of each `csub` is
  leaving,   \* `cuns` frames under way
  wire,      \* frames under way to the client
  sub,       \* the client's subscriptions; `live` and `failed` are settled
  waiting,   \* ... whose `csub` has not been answered
  map,       \* LiveSub.map: the rows the client holds
  pending,   \* LiveSub.pending: changes that arrived before the first snapshot
  intact,    \* history: nothing has been lost of the subscription since it was registered
  drops, failures

clientVars == <<sub, waiting, map, pending>>
serverVars == <<reg, serving, leaving>>
vars == <<relayVars, at, serverVars, wire, clientVars, intact, drops, failures>>

TypeOK ==
  /\ RelayTypeOK
  /\ at \in Nodes \cup {Offline}
  /\ reg \subseteq Subs /\ leaving \subseteq Subs /\ waiting \subseteq Subs
  /\ serving \in [Subs -> [pc : {"none", "asked", "reading"}] \cup [pc : {"read"}, rows : Snapshot]]
  /\ wire \in Seq(Frame)
  /\ sub \in [Subs -> {"new", "opening", "live", "failed", "closed"}]
  /\ map \in [Subs -> Snapshot]
  /\ pending \in [Subs -> Seq(Frame)]
  /\ intact \in [Subs -> BOOLEAN]
  /\ drops \in 0..MaxDrops /\ failures \in 0..MaxFailures

Quiet == [pc |-> "none"]
NoRows == [r \in Rows |-> Absent]

Init ==
  /\ RelayInit
  /\ at = Offline
  /\ reg = {} /\ leaving = {} /\ waiting = {}
  /\ serving = [s \in Subs |-> Quiet]
  /\ wire = <<>>
  /\ sub = [s \in Subs |-> "new"]
  /\ map = [s \in Subs |-> NoRows]
  /\ pending = [s \in Subs |-> <<>>]
  /\ intact = [s \in Subs |-> FALSE]
  /\ drops = 0 /\ failures = 0

-----------------------------------------------------------------------------
(* What frames do to a row.                                                *)

\* The client filters again, by the subscription's own filter.
View(s, value) == IF value \in Filter[s] THEN value ELSE Absent

Tells(frame, r) == frame.t = "cchg" /\ r \in DOMAIN frame.d

\* The row, once the changes in q have been applied to it in order: the last one counts.
After(q, r, value) ==
  LET told == {i \in 1..Len(q) : Tells(q[i], r)} IN
  IF told = {} THEN value
  ELSE q[CHOOSE i \in told : \A j \in told : j <= i].d[r]

\* applyCollectionChange, of each change in q, from these rows.
Replay(s, q, rows) == [r \in Rows |-> View(s, After(q, r, rows[r]))]

-----------------------------------------------------------------------------
(* The client.                                                             *)

Online == at # Offline
Settling(s) == sub[s] \in {"live", "failed"}

\* subscribe: the LiveSub exists from here on; sendCollectionSub waits for onOpen when offline.
Subscribe(s) ==
  /\ sub[s] = "new"
  /\ sub' = [sub EXCEPT ![s] = "opening"]
  /\ IF Online
       THEN waiting' = waiting \cup {s} /\ serving' = [serving EXCEPT ![s] = [pc |-> "asked"]]
       ELSE UNCHANGED <<waiting, serving>>
  /\ UNCHANGED <<relayVars, at, reg, leaving, wire, map, pending, intact, drops, failures>>

\* LiveRowSet.close: forgotten here, and the server is told.
Close(s) ==
  /\ sub[s] \in {"opening", "live", "failed"}
  /\ sub' = [sub EXCEPT ![s] = "closed"]
  /\ leaving' = IF Online THEN leaving \cup {s} ELSE leaving
  /\ UNCHANGED <<relayVars, at, reg, serving, wire, waiting, map, pending, intact, drops, failures>>

\* Faulty: a subscription that has no rows yet is not asked for again.
OnOpenSettled(n) ==
  LET again == {s \in Subs : sub[s] \in {"live", "failed"}} IN
  /\ at = Offline
  /\ at' = n
  /\ waiting' = again
  /\ serving' = [s \in Subs |-> IF s \in again THEN [pc |-> "asked"] ELSE Quiet]
  /\ UNCHANGED <<relayVars, reg, leaving, wire, sub, map, pending, intact, drops, failures>>

\* onOpen: connected or connected again, to any node; every subscription is asked for again.
OnOpen(n) ==
  LET again == {s \in Subs : sub[s] \in {"opening", "live", "failed"}} IN
  /\ at = Offline
  /\ at' = n
  /\ waiting' = again
  /\ serving' = [s \in Subs |-> IF s \in again THEN [pc |-> "asked"] ELSE Quiet]
  /\ UNCHANGED <<relayVars, reg, leaving, wire, sub, map, pending, intact, drops, failures>>

\* The connection is lost with what was under way: requests are rejected (which a
\* subscription ignores) and the server detaches the connection.
OnClose ==
  /\ Online /\ drops < MaxDrops /\ drops' = drops + 1
  /\ at' = Offline
  /\ reg' = {} /\ leaving' = {} /\ waiting' = {} /\ wire' = <<>>
  /\ serving' = [s \in Subs |-> Quiet]
  /\ intact' = [s \in Subs |-> FALSE]
  /\ UNCHANGED <<relayVars, sub, map, pending, failures>>

\* onMessage, `cchg`: buffered by a subscription without rows, applied by one that has them.
ReceiveChange ==
  /\ wire # <<>> /\ Head(wire).t = "cchg"
  /\ wire' = Tail(wire)
  /\ pending' = [s \in Subs |-> IF sub[s] = "opening" THEN Append(pending[s], Head(wire)) ELSE pending[s]]
  /\ map' = [s \in Subs |-> IF Settling(s) THEN Replay(s, <<Head(wire)>>, map[s]) ELSE map[s]]
  /\ UNCHANGED <<relayVars, at, serverVars, sub, waiting, intact, drops, failures>>

\* onMessage, `res` of a csub, and seedCollection: the first snapshot settles the
\* subscription and what was buffered is replayed over it; a later one replaces the rows.
ReceiveSnapshot(s) ==
  /\ wire # <<>> /\ Head(wire).t = "res" /\ Head(wire).s = s
  /\ wire' = Tail(wire)
  /\ waiting' = waiting \ {s}
  /\ IF s \in waiting /\ sub[s] \in {"opening", "live", "failed"}
       THEN /\ sub' = [sub EXCEPT ![s] = "live"]
            /\ map' = [map EXCEPT ![s] = IF Settling(s) THEN Head(wire).rows
                                         ELSE Replay(s, pending[s], Head(wire).rows)]
            /\ pending' = IF Settling(s) THEN pending ELSE [pending EXCEPT ![s] = <<>>]
       ELSE UNCHANGED <<sub, map, pending>>
  /\ UNCHANGED <<relayVars, at, serverVars, intact, drops, failures>>

\* The subscribe is rejected: `ready` is, or the error is reported; either way it is settled.
Failed(s) ==
  /\ waiting' = waiting \ {s}
  /\ sub' = [sub EXCEPT ![s] = IF @ \in {"opening", "live"} THEN "failed" ELSE @]
  /\ intact' = [intact EXCEPT ![s] = FALSE]

\* onMessage, `err`; one that nobody waits for any more is ignored.
ReceiveError(s) ==
  /\ wire # <<>> /\ Head(wire).t = "err" /\ Head(wire).s = s
  /\ wire' = Tail(wire)
  /\ IF s \in waiting THEN Failed(s) ELSE UNCHANGED <<waiting, sub, intact>>
  /\ UNCHANGED <<relayVars, at, serverVars, map, pending, drops, failures>>

\* The request timer: a reply that comes later is ignored.
TimeOut(s) ==
  /\ s \in waiting /\ failures < MaxFailures /\ failures' = failures + 1
  /\ Failed(s)
  /\ UNCHANGED <<relayVars, at, serverVars, wire, map, pending, drops>>

-----------------------------------------------------------------------------
(* The server.                                                             *)

Failing(s) ==
  /\ failures < MaxFailures /\ failures' = failures + 1
  /\ serving' = [serving EXCEPT ![s] = Quiet]
  /\ wire' = Append(wire, [t |-> "err", s |-> s])

\* onSub is refused, by the policy or a middleware.
Refuse(s) ==
  /\ serving[s].pc = "asked" /\ Failing(s)
  /\ UNCHANGED <<relayVars, at, reg, leaving, clientVars, intact, drops>>

\* A change that is still under way to a subscription without rows will be buffered although
\* it is older than the registration.
Buffered(s) == sub[s] = "opening" /\ (pending[s] # <<>> \/ \E i \in 1..Len(wire) : wire[i].t = "cchg")

\* onSub once the policy has answered: the subscription is registered, before the rows are read.
Register(s) ==
  /\ serving[s].pc = "asked"
  /\ reg' = reg \cup {s}
  /\ serving' = [serving EXCEPT ![s] = [pc |-> "reading"]]
  /\ intact' = [intact EXCEPT ![s] = s \in waiting /\ ~ Buffered(s)]
  /\ UNCHANGED <<relayVars, at, leaving, wire, clientVars, drops, failures>>

Admitted(s, rows) == [r \in Rows |-> IF rows[r] \in Filter[s] \cap Readable THEN rows[r] ELSE Absent]

\* store.snapshot.
ReadSnapshot(s) ==
  /\ serving[s].pc = "reading"
  /\ serving' = [serving EXCEPT ![s] = [pc |-> "read", rows |-> Admitted(s, store[at])]]
  /\ UNCHANGED <<relayVars, at, reg, leaving, wire, clientVars, intact, drops, failures>>

\* ... fails, and the registration goes.
SnapshotFails(s) ==
  /\ serving[s].pc = "reading" /\ Failing(s)
  /\ reg' = reg \ {s}
  /\ UNCHANGED <<relayVars, at, leaving, clientVars, intact, drops>>

\* ... returns, and the rows are sent.
Answer(s) ==
  /\ serving[s].pc = "read"
  /\ serving' = [serving EXCEPT ![s] = Quiet]
  /\ wire' = Append(wire, [t |-> "res", s |-> s, rows |-> serving[s].rows])
  /\ UNCHANGED <<relayVars, at, reg, leaving, clientVars, intact, drops, failures>>

\* onUnsub; a handler that has not registered the subscription yet is not stopped.
OnUnsub(s) ==
  /\ s \in leaving
  /\ leaving' = leaving \ {s}
  /\ reg' = reg \ {s}
  /\ UNCHANGED <<relayVars, at, serving, wire, clientVars, intact, drops, failures>>

\* The policy filter and the OR of the filters of the connection's subscriptions.
Effective == Readable \cap UNION {Filter[s] : s \in reg}

\* Faulty: only rows that still match are sent.
RoutedNext(rows, b, known) ==
  {r \in DOMAIN b : b[r].row \in Effective}

\* The rows of a batch that the connection is told of: they matched before or match now;
\* without the row before, everything but an insert is.
Routed(rows, b, known) ==
  {r \in DOMAIN b :
     /\ ~ (b[r].k = "update" /\ known /\ rows[r] = b[r].row)
     /\ ~ (b[r].k = "delete" /\ rows[r] = Absent)
     /\ b[r].row \in Effective \/ IF known THEN rows[r] \in Effective ELSE b[r].k # "insert"}

\* ... with the new row if it matches now, or did before; else as deleted.
Told(rows, b, known) ==
  [r \in Routed(rows, b, known) |-> IF known \/ b[r].row \in Effective THEN b[r].row ELSE Absent]

\* What is told of a subscription gets lost: a change that is sent between the reading of a
\* snapshot and the snapshot that will replace the rows, or a row that is sent because it
\* has left what the policy admits, which the client does not know.
Loses(s, d) ==
  \/ serving[s].pc = "read" /\ sub[s] # "opening" /\ DOMAIN d # {}
  \/ \E r \in DOMAIN d : d[r] \in Filter[s] \ Readable

\* route: what the node's store has applied, to the connection.
Route(n, b) ==
  IF at = n /\ Applies(store[n], b) /\ reg # {}
    THEN \E known \in PrevKnown :
           LET d == Told(store[n], b, known) IN
           /\ wire' = IF DOMAIN d = {} THEN wire ELSE Append(wire, [t |-> "cchg", d |-> d])
           /\ intact' = [s \in Subs |-> intact[s] /\ ~ Loses(s, d)]
    ELSE UNCHANGED <<wire, intact>>

Write(n, b) ==
  Commit(n, b) /\ Route(n, b) /\ UNCHANGED <<at, serverVars, clientVars, drops, failures>>

Ingest(m, n, b) ==
  OnRelay(m, n, b) /\ Route(n, b) /\ UNCHANGED <<at, serverVars, clientVars, drops, failures>>

-----------------------------------------------------------------------------
Receive == ReceiveChange \/ \E s \in Subs : ReceiveSnapshot(s) \/ ReceiveError(s)
Serve(s) == Register(s) \/ ReadSnapshot(s) \/ Answer(s)

Next ==
  \/ \E n \in Nodes, b \in Batches : Write(n, b)
  \/ \E m, n \in Nodes, b \in Batches : Ingest(m, n, b)
  \/ Receive \/ OnClose \/ \E n \in Nodes : OnOpen(n)
  \/ \E s \in Subs : Subscribe(s) \/ Close(s) \/ TimeOut(s)
  \/ \E s \in Subs : Serve(s) \/ Refuse(s) \/ SnapshotFails(s) \/ OnUnsub(s)

Spec == Init /\ [][Next]_vars

\* The client reconnects for ever, frames arrive, and the policy and the store answer.
Fairness ==
  /\ WF_vars(\E n \in Nodes : OnOpen(n)) /\ WF_vars(Receive)
  /\ \A s \in Subs : WF_vars(Serve(s))

FairSpec == Spec /\ Fairness

-----------------------------------------------------------------------------
(* Properties.                                                             *)

Current(s) ==
  \A r \in Rows : View(s, After(wire, r, map[s][r])) = View(s, Admitted(s, store[at])[r])

\* The rows of a live subscription, with the changes that are under way to it, are the rows
\* of the store that its filter and the policy admit, whatever was written while it
\* was being set up; `intact` names the only ways in which a change gets lost.
FeedIsComplete ==
  \A s \in Subs : Online /\ sub[s] = "live" /\ s \notin waiting /\ intact[s] => s \in reg /\ Current(s)

\* A subscription gets its rows or an error, whatever the connection goes through.
SubscribesAreSettled ==
  \A s \in Subs : sub[s] = "opening" ~> sub[s] # "opening"

\* "Auto-resubscribes and re-diffs on reconnect", "a write committing while the snapshot query
\* runs must fan out as a live `cchg`": a live subscription with nothing under way shows the
\* store's rows.  The code breaks this.
LiveRowsAreCurrent ==
  \A s \in Subs :
    Online /\ sub[s] = "live" /\ s \notin waiting /\ wire = <<>> => map[s] = Admitted(s, store[at])
=============================================================================
