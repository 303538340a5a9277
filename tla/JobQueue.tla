------------------------------ MODULE JobQueue ------------------------------
(***************************************************************************)
(* The durable job queue of packages/plugin-queue: QueueRuntime on several *)
(* nodes over one row store.  A job row and a slot row carry the runId of  *)
(* the attempt that holds them and a lease; a node claims, renews, settles *)
(* and reaps by reading rows and then writing them back whole in a         *)
(* conditionalBatch, which the store applies atomically or not at all.     *)
(*                                                                         *)
(* An attempt of a job is the run <<job, attempt>>: a claim is the only    *)
(* writer that makes a runId, and it increments the attempt.  The lease of *)
(* a run is the number of the heartbeat that set it (0 for the claim), and *)
(* time is only what Date.now() is compared with: lapsed[r] leases of run  *)
(* r lie in the past, the older ones first.  A `now` sampled earlier is an *)
(* earlier value of lapsed.  Two things are left to chance because they   *)
(* only make possible what is possible at any time: availableAt (a job put *)
(* back is claimed whenever a tick gets to it) and the abort signal, from  *)
(* the cancel channel, the timeout or the heartbeat (a worker may end in   *)
(* an error whenever it likes).                                            *)
(***************************************************************************)
EXTENDS Naturals, Functions

CONSTANTS
  Jobs,         \* job ids of one queue; an id is not reused
  Slots,        \* the queue's `concurrency` slot rows
  Nodes,        \* servers that bound a worker for the queue
  Mortal,       \* the nodes that may close or crash
  Ticks,        \* ticks in flight; a node may run several
  TickNode,     \* the node of a tick
  Cancellers,   \* bound: calls of cancel()
  MaxAttempts,  \* definition.retry.maxAttempts
  MaxBeats,     \* bound: heartbeats of one run; one is in flight at a time
  NoSlot, NoRun, NoWrite, NoNode

ASSUME QueueConstants ==
  /\ MaxAttempts \in Nat \ {0} /\ MaxBeats \in Nat
  /\ Mortal \subseteq Nodes /\ TickNode \in [Ticks -> Nodes]
  /\ NoSlot \notin Slots /\ NoNode \notin Nodes
  /\ NoRun \notin Jobs \X (1..MaxAttempts)

Runs == Jobs \X (1..MaxAttempts)
Terminal == {"completed", "failed", "cancelled"}

JobRow == [status : {"absent", "queued", "running", "deleted"} \cup Terminal,
           attempt : 0..MaxAttempts, slot : Slots \cup {NoSlot}, beat : 0..MaxBeats,
           cancel : BOOLEAN, revision : Nat]
SlotRow == [run : Runs \cup {NoRun}, beat : 0..MaxBeats, revision : Nat]

ASSUME NoWriteIsNoRow == NoWrite \notin JobRow

\* A batch that has been computed from what was read and not been applied yet.
Batch == [row : JobRow, slot : Slots, slotRow : SlotRow]
\* Date.now(), as far as the leases of some runs go.
Clock(runs) == [runs -> 0..(MaxBeats + 1)]

\* A cancel(), which reads a row before it marks it.
CallState == [pc : {"idle", "done"}] \cup [pc : {"again"}, job : Jobs]
             \cup [pc : {"marking"}, job : Jobs, row : JobRow]

\* A tick, the expired runs it still has to see to being these.
TickState(expired) ==
  [pc : {"idle", "reaped"}]
  \cup [pc : {"reaping"}, now : Clock(expired)]
  \cup [pc : {"expiring"}, now : Clock(expired), run : expired, write : Batch]
  \cup [pc : {"claiming"}, seen : [Slots -> SlotRow], left : SUBSET Slots]
  \cup [pc : {"chosen"}, seen : [Slots -> SlotRow], left : SUBSET Slots,
        slot : Slots, job : Jobs, row : JobRow]

VARIABLES
  job,       \* __queue_jobs
  slot,      \* __queue_slots
  lapsed,    \* the clock: leases of each run that have expired
  node,      \* up, closing, abandoning (the grace period is over) or down
  host,      \* QueueRuntime.run: the node a run is executed on
  beating,   \* the heartbeat's batch in flight, per run
  settling,  \* settle's batch in flight, per run
  tick,      \* where each tick is
  call,      \* where each cancel() is
  lost       \* history: the row a cancel() overwrote, taking it for another one it had read

rows == <<job, slot>>
work == <<host, beating, settling>>
vars == <<rows, lapsed, node, work, tick, call, lost>>

TypeOK ==
  /\ job \in [Jobs -> JobRow]
  /\ slot \in [Slots -> SlotRow]
  /\ lapsed \in Clock(Runs)
  /\ node \in [Nodes -> {"up", "closing", "abandoning", "down"}]
  /\ host \in [Runs -> Nodes \cup {NoNode}]
  /\ beating \in [Runs -> Batch \cup {NoWrite}]
  /\ settling \in [Runs -> Batch \cup {NoWrite}]
  /\ DOMAIN tick = Ticks /\ \A k \in Ticks : \E expired \in SUBSET Runs : tick[k] \in TickState(expired)
  /\ call \in [Cancellers -> CallState]
  /\ lost \in [Jobs -> JobRow \cup {NoWrite}]

Idle == [pc |-> "idle"]
NoJob == [status |-> "absent", attempt |-> 0, slot |-> NoSlot, beat |-> 0, cancel |-> FALSE,
          revision |-> 0]

\* initialize() has inserted the slot rows; no job has been enqueued.
Init ==
  /\ job = [j \in Jobs |-> NoJob]
  /\ slot = [s \in Slots |-> [run |-> NoRun, beat |-> 0, revision |-> 0]]
  /\ lapsed = [r \in Runs |-> 0]
  /\ node = [n \in Nodes |-> "up"]
  /\ host = [r \in Runs |-> NoNode]
  /\ beating = [r \in Runs |-> NoWrite]
  /\ settling = [r \in Runs |-> NoWrite]
  /\ tick = [k \in Ticks |-> Idle]
  /\ call = [x \in Cancellers |-> Idle]
  /\ lost = [j \in Jobs |-> NoWrite]

-----------------------------------------------------------------------------
(* The rows: who holds them, and the batches that are computed from them.  *)

\* eq('runId', runId) on the job row, and on the slot row.
JobHolds(r) == job[r[1]].status = "running" /\ job[r[1]].attempt = r[2]
SlotHolds(s, r) == slot[s].run = r
Holds(s, r) == JobHolds(r) /\ SlotHolds(s, r)

\* Faulty: a lease counts as long as nobody is seen to execute the run.
ExpiredIfExecuting(row, r, now) == row.beat < now[r] /\ host[r] # NoNode

\* lte('leaseExpiresAt', now), for the clock `now`.
Expired(row, r, now) == row.beat < now[r]

\* Faulty: one attempt too many.
SettledPastLimit(row, outcome) ==
  [row EXCEPT
     !.status = IF row.cancel THEN "cancelled"
                ELSE IF outcome # "error" THEN outcome
                ELSE IF row.attempt > MaxAttempts THEN "failed" ELSE "queued",
     !.slot = NoSlot, !.beat = 0, !.revision = @ + 1]

\* The job row settle writes: a cancel request wins, an error is retried while attempts last.
Settled(row, outcome) ==
  [row EXCEPT
     !.status = IF row.cancel THEN "cancelled"
                ELSE IF outcome # "error" THEN outcome
                ELSE IF row.attempt >= MaxAttempts THEN "failed" ELSE "queued",
     !.slot = NoSlot, !.beat = 0, !.revision = @ + 1]

\* settle, from what it read of the job and its slot: the job's outcome, the slot released.
SettleBatch(r, outcome) ==
  LET s == job[r[1]].slot IN
  [row |-> Settled(job[r[1]], outcome), slot |-> s,
   slotRow |-> [run |-> NoRun, beat |-> 0, revision |-> slot[s].revision + 1]]

\* Faulty: the second operation of the batch is lost.
ApplyJobOnly(j, batch) == job' = [job EXCEPT ![j] = batch.row] /\ UNCHANGED slot

\* The operations of a batch, both or neither.
Apply(j, batch) ==
  /\ job' = [job EXCEPT ![j] = batch.row]
  /\ slot' = [slot EXCEPT ![batch.slot] = batch.slotRow]

\* The leases of a run that has been released are not looked at again.
Release(r, batch) == Apply(r[1], batch) /\ lapsed' = [lapsed EXCEPT ![r] = 0]

\* A run is executing until its `finally`; while it settles the worker is done.
Executing(r) == host[r] # NoNode
Working(r) == Executing(r) /\ settling[r] = NoWrite
RunOver(r) == host' = [host EXCEPT ![r] = NoNode]

-----------------------------------------------------------------------------
(* The application: enqueue and cancel.                                    *)

Enqueue(j) ==
  /\ job[j].status = "absent"
  /\ job' = [job EXCEPT ![j].status = "queued"]
  /\ UNCHANGED <<slot, lapsed, node, work, tick, call, lost>>

\* cancel() reads the job; one that is over, or is not there, is left alone.
CancelRead(x, j) ==
  /\ call[x] \in {Idle, [pc |-> "again", job |-> j]}
  /\ call' = [call EXCEPT ![x] =
        IF job[j].status \in {"queued", "running"}
          THEN [pc |-> "marking", job |-> j, row |-> job[j]] ELSE [pc |-> "done"]]
  /\ UNCHANGED <<rows, lapsed, node, work, tick, lost>>

\* A queued job is over at once, a running one is marked (and signalled).
Marked(row) ==
  [row EXCEPT !.cancel = TRUE, !.revision = @ + 1,
              !.status = IF @ = "queued" THEN "cancelled" ELSE @]

Intact(j) == lost[j] = NoWrite

\* Faulty: the row is written back whatever has become of the job.
CancelUnfenced(x) ==
  LET c == call[x] IN
  /\ c.pc = "marking"
  /\ job' = [job EXCEPT ![c.job] = Marked(c.row)]
  /\ call' = [call EXCEPT ![x] = [pc |-> "done"]]
  /\ UNCHANGED <<slot, lapsed, node, work, tick, lost>>

\* The row it read is written back whole, if revision and status are still those it read;
\* otherwise cancel() starts again.  Both may be the same again of a later attempt: settle
\* writes revisions a heartbeat has used before it.
CancelWrite(x) ==
  LET c == call[x]
      now == job[c.job] IN
  /\ c.pc = "marking"
  /\ IF now.revision = c.row.revision /\ now.status = c.row.status
       THEN /\ job' = [job EXCEPT ![c.job] = Marked(c.row)]
            /\ call' = [call EXCEPT ![x] = [pc |-> "done"]]
            /\ lost' = IF Intact(c.job) /\ now.attempt # c.row.attempt
                         THEN [lost EXCEPT ![c.job] = now] ELSE lost
       ELSE /\ call' = [call EXCEPT ![x] = [pc |-> "again", job |-> c.job]]
            /\ UNCHANGED <<job, lost>>
  /\ UNCHANGED <<slot, lapsed, node, work, tick>>

-----------------------------------------------------------------------------
(* tick: reap, then claim.                                                 *)

Reaping(now) ==
  IF DOMAIN now = {} THEN [pc |-> "reaped"] ELSE [pc |-> "reaping", now |-> now]

\* Faulty: a node looks after the runs it executes itself.
ReapableHere(k) ==
  {r \in Runs : JobHolds(r) /\ Expired(job[r[1]], r, lapsed) /\ host[r] = TickNode[k]}

\* status = running and leaseExpiresAt <= now, whichever node runs it.
Reapable(k) == {r \in Runs : JobHolds(r) /\ Expired(job[r[1]], r, lapsed)}

\* reap samples the clock and lists the jobs.
StartTick(k) ==
  /\ tick[k] = Idle /\ node[TickNode[k]] = "up"
  /\ tick' = [tick EXCEPT ![k] = Reaping(Restrict(lapsed, Reapable(k)))]
  /\ UNCHANGED <<rows, lapsed, node, work, call, lost>>

Others(now, r) == Restrict(now, DOMAIN now \ {r})

\* reap and settle read the job and its slot; a run that no longer holds both, or that has
\* renewed its lease since the clock was sampled, is left alone.
ReapRead(k, r) ==
  LET now == tick[k].now
      s == job[r[1]].slot IN
  /\ tick[k].pc = "reaping" /\ r \in DOMAIN now
  /\ tick' = [tick EXCEPT ![k] =
        IF JobHolds(r) /\ SlotHolds(s, r) /\ Expired(job[r[1]], r, now) /\ Expired(slot[s], r, now)
          THEN [pc |-> "expiring", now |-> now, run |-> r, write |-> SettleBatch(r, "error")]
          ELSE Reaping(Others(now, r))]
  /\ UNCHANGED <<rows, lapsed, node, work, call, lost>>

\* Faulty: the batch is fenced by the runId alone.
ReapIgnoringRenewal(k) ==
  LET t == tick[k] IN
  /\ t.pc = "expiring"
  /\ tick' = [tick EXCEPT ![k] = Reaping(Others(t.now, t.run))]
  /\ IF Holds(t.write.slot, t.run)
       THEN Release(t.run, t.write) ELSE UNCHANGED <<rows, lapsed>>
  /\ UNCHANGED <<node, work, call, lost>>

\* settle's batch with a leaseCutoff: both rows still hold the run, and neither lease has
\* been renewed.
ReapWrite(k) ==
  LET t == tick[k]
      over == Expired(job[t.run[1]], t.run, t.now) /\ Expired(slot[t.write.slot], t.run, t.now) IN
  /\ t.pc = "expiring"
  /\ tick' = [tick EXCEPT ![k] = Reaping(Others(t.now, t.run))]
  /\ IF Holds(t.write.slot, t.run) /\ over
       THEN Release(t.run, t.write) ELSE UNCHANGED <<rows, lapsed>>
  /\ UNCHANGED <<node, work, call, lost>>

\* The rest of reap: a job past its retention is deleted.
DeleteExpired(k, j) ==
  /\ tick[k].pc = "reaped"
  /\ job[j].status \in Terminal
  /\ job' = [job EXCEPT ![j] = [NoJob EXCEPT !.status = "deleted"]]
  /\ UNCHANGED <<slot, lapsed, node, work, tick, call, lost>>

\* tick reads the slot rows once, and works through them from that snapshot.
ReadSlots(k) ==
  /\ tick[k].pc = "reaped"
  /\ tick' = [tick EXCEPT ![k] = [pc |-> "claiming", seen |-> slot, left |-> Slots]]
  /\ UNCHANGED <<rows, lapsed, node, work, call, lost>>

\* `slot.runId && leaseExpiresAt > Date.now()`, with the clock of this moment.
Taken(row) == row.run # NoRun /\ ~ Expired(row, row.run, lapsed)

\* The order of the candidates is abstracted: any queued job may come first.
Candidates == {j \in Jobs : job[j].status = "queued"}

After(t, s) ==
  IF t.left = {s} THEN Idle ELSE [pc |-> "claiming", seen |-> t.seen, left |-> t.left \ {s}]

SkipSlot(k, s) ==
  /\ tick[k].pc = "claiming" /\ s \in tick[k].left
  /\ Taken(tick[k].seen[s]) \/ Candidates = {}
  /\ tick' = [tick EXCEPT ![k] = After(tick[k], s)]
  /\ UNCHANGED <<rows, lapsed, node, work, call, lost>>

\* claim reads the first candidate.
ClaimRead(k, s, j) ==
  LET t == tick[k] IN
  /\ t.pc = "claiming" /\ s \in t.left
  /\ ~ Taken(t.seen[s]) /\ j \in Candidates
  /\ tick' = [tick EXCEPT ![k] = [pc |-> "chosen", seen |-> t.seen, left |-> t.left,
                                  slot |-> s, job |-> j, row |-> job[j]]]
  /\ UNCHANGED <<rows, lapsed, node, work, call, lost>>

\* Faulty: the slot row is only required to exist.
ClaimIgnoringSlot(k) ==
  LET t == tick[k]
      r == <<t.job, t.row.attempt + 1>> IN
  /\ t.pc = "chosen"
  /\ tick' = [tick EXCEPT ![k] = After(t, t.slot)]
  /\ IF job[t.job].status = "queued" /\ job[t.job].revision = t.row.revision
       THEN /\ job' = [job EXCEPT ![t.job] =
                 [t.row EXCEPT !.status = "running", !.attempt = @ + 1, !.slot = t.slot,
                               !.beat = 0, !.revision = @ + 1]]
            /\ slot' = [slot EXCEPT ![t.slot] =
                 [run |-> r, beat |-> 0, revision |-> t.seen[t.slot].revision + 1]]
            /\ host' = [host EXCEPT ![r] = TickNode[k]]
       ELSE UNCHANGED <<rows, host>>
  /\ UNCHANGED <<lapsed, node, beating, settling, call, lost>>

\* claim writes both rows if neither has changed, and the run starts.  Nothing asks here
\* whether the node has begun to close.
ClaimWrite(k) ==
  LET t == tick[k]
      r == <<t.job, t.row.attempt + 1>> IN
  /\ t.pc = "chosen"
  /\ tick' = [tick EXCEPT ![k] = After(t, t.slot)]
  /\ IF /\ job[t.job].status = "queued" /\ job[t.job].revision = t.row.revision
        /\ slot[t.slot].revision = t.seen[t.slot].revision
       THEN /\ job' = [job EXCEPT ![t.job] =
                 [t.row EXCEPT !.status = "running", !.attempt = @ + 1, !.slot = t.slot,
                               !.beat = 0, !.revision = @ + 1]]
            /\ slot' = [slot EXCEPT ![t.slot] =
                 [run |-> r, beat |-> 0, revision |-> t.seen[t.slot].revision + 1]]
            /\ host' = [host EXCEPT ![r] = TickNode[k]]
       ELSE UNCHANGED <<rows, host>>
  /\ UNCHANGED <<lapsed, node, beating, settling, call, lost>>

-----------------------------------------------------------------------------
(* run: the worker, its heartbeat and its outcome.                         *)

\* heartbeat reads both rows, of a run that still holds them, and computes what it will
\* write: the rows as they are, the lease reckoned from now.
HeartbeatRead(r) ==
  LET row == job[r[1]]
      s == row.slot
      beat == slot[s].beat + 1 IN
  /\ Executing(r) /\ beating[r] = NoWrite
  /\ JobHolds(r) /\ SlotHolds(s, r) /\ beat <= MaxBeats
  /\ beating' = [beating EXCEPT ![r] =
       [row |-> [row EXCEPT !.beat = beat, !.revision = @ + 1], slot |-> s,
        slotRow |-> [slot[s] EXCEPT !.beat = beat, !.revision = @ + 1]]]
  /\ UNCHANGED <<rows, lapsed, node, host, settling, tick, call, lost>>

\* Faulty: the rows are written back whoever holds them by now.
HeartbeatUnfenced(r) ==
  /\ beating[r] # NoWrite
  /\ beating' = [beating EXCEPT ![r] = NoWrite]
  /\ Apply(r[1], beating[r])
  /\ UNCHANGED <<lapsed, node, host, settling, tick, call, lost>>

\* Its batch: both rows as they were read, with the new lease, if the run still holds both.
HeartbeatWrite(r) ==
  /\ beating[r] # NoWrite
  /\ beating' = [beating EXCEPT ![r] = NoWrite]
  /\ IF Holds(beating[r].slot, r)
       THEN Apply(r[1], beating[r]) ELSE UNCHANGED rows
  /\ UNCHANGED <<lapsed, node, host, settling, tick, call, lost>>

\* The worker returns, returns something invalid or permanent ("failed"), or throws, times
\* out or is aborted ("error"); settle reads both rows, and a run that lost one is over.  A
\* node that has given up does not settle errors.
WorkerDone(r, outcome) ==
  LET s == job[r[1]].slot IN
  /\ Working(r)
  /\ ~ (outcome = "error" /\ node[host[r]] = "abandoning")
  /\ IF JobHolds(r) /\ SlotHolds(s, r)
       THEN settling' = [settling EXCEPT ![r] = SettleBatch(r, outcome)] /\ UNCHANGED host
       ELSE RunOver(r) /\ UNCHANGED settling
  /\ UNCHANGED <<rows, lapsed, node, beating, tick, call, lost>>

\* settle's batch, fenced by the runId on both rows.
SettleWrite(r) ==
  /\ settling[r] # NoWrite
  /\ settling' = [settling EXCEPT ![r] = NoWrite]
  /\ RunOver(r)
  /\ IF Holds(settling[r].slot, r)
       THEN Release(r, settling[r]) ELSE UNCHANGED <<rows, lapsed>>
  /\ UNCHANGED <<node, beating, tick, call, lost>>

\* The grace period is over: an error of the worker is left to the lease.
Abandon(r) ==
  /\ Working(r) /\ node[host[r]] = "abandoning"
  /\ RunOver(r)
  /\ UNCHANGED <<rows, lapsed, node, beating, settling, tick, call, lost>>

\* Time passes: the lease of the run is over, in its job's row or in a slot's.
LeaseExpires(r) ==
  /\ \/ JobHolds(r) /\ lapsed[r] <= job[r[1]].beat
     \/ \E s \in Slots : SlotHolds(s, r) /\ lapsed[r] <= slot[s].beat
  /\ lapsed' = [lapsed EXCEPT ![r] = @ + 1]
  /\ UNCHANGED <<rows, node, work, tick, call, lost>>

-----------------------------------------------------------------------------
(* Nodes: srv.close(), and the end of the process, clean or not.           *)

Close(n) ==
  /\ n \in Mortal /\ node[n] = "up"
  /\ node' = [node EXCEPT ![n] = "closing"]
  /\ UNCHANGED <<rows, lapsed, work, tick, call, lost>>

\* shutdownGraceMs is over and runs remain: they are aborted, and not settled.
GraceOver(n) ==
  /\ node[n] = "closing" /\ \E r \in Runs : host[r] = n
  /\ node' = [node EXCEPT ![n] = "abandoning"]
  /\ UNCHANGED <<rows, lapsed, host, beating, settling, tick, call, lost>>

\* The process is gone, with every tick, run and write it had in flight.
Exit(n) ==
  /\ n \in Mortal /\ node[n] # "down"
  /\ node' = [node EXCEPT ![n] = "down"]
  /\ tick' = [k \in Ticks |-> IF TickNode[k] = n THEN Idle ELSE tick[k]]
  /\ host' = [r \in Runs |-> IF host[r] = n THEN NoNode ELSE host[r]]
  /\ settling' = [r \in Runs |-> IF host[r] = n THEN NoWrite ELSE settling[r]]
  /\ beating' = [r \in Runs |-> IF host[r] = n THEN NoWrite ELSE beating[r]]
  /\ UNCHANGED <<rows, lapsed, call, lost>>

-----------------------------------------------------------------------------
TickStep(k) ==
  \/ StartTick(k) \/ ReapWrite(k) \/ ReadSlots(k) \/ ClaimWrite(k)
  \/ \E r \in Runs : ReapRead(k, r)
  \/ \E s \in Slots : SkipSlot(k, s) \/ \E j \in Jobs : ClaimRead(k, s, j)

RunEnds(r) == SettleWrite(r) \/ Abandon(r)
              \/ \E outcome \in {"completed", "failed", "error"} : WorkerDone(r, outcome)

Next ==
  \/ \E j \in Jobs : Enqueue(j)
  \/ \E x \in Cancellers : CancelWrite(x) \/ \E j \in Jobs : CancelRead(x, j)
  \/ \E k \in Ticks : TickStep(k) \/ \E j \in Jobs : DeleteExpired(k, j)
  \/ \E r \in Runs : HeartbeatRead(r) \/ HeartbeatWrite(r) \/ RunEnds(r) \/ LeaseExpires(r)
  \/ \E n \in Nodes : Close(n) \/ GraceOver(n) \/ Exit(n)

Spec == Init /\ [][Next]_vars

\* The poll timer ticks for ever on the nodes that stay; timeoutMs ends every worker, and a
\* batch is answered; time passes.
Fairness ==
  /\ \A k \in Ticks : TickNode[k] \notin Mortal => WF_vars(TickStep(k))
  /\ \A r \in Runs : WF_vars(RunEnds(r)) /\ WF_vars(LeaseExpires(r))

FairSpec == Spec /\ Fairness

-----------------------------------------------------------------------------
(* Properties.                                                             *)

\* A slot row that names a run and the job row agree on it, and the job row has no later lease
\* (an earlier one, if a cancel() wrote back a row from before a heartbeat): the two tables,
\* written by claims, heartbeats, settlements, reapers and cancel() in any order, never diverge,
\* but for a job of which a cancel() has mistaken one attempt for another.
SlotRunsItsJob ==
  \A s \in Slots : slot[s].run # NoRun /\ Intact(slot[s].run[1]) =>
    LET row == job[slot[s].run[1]] IN
    JobHolds(slot[s].run) /\ row.slot = s /\ row.beat <= slot[s].beat

\* A claimer has read the slot under the revision it has now, and something else in it.  settle
\* counts on from the revision it read: a heartbeat that is written before it has used that
\* number already, and the claim after two such heartbeats uses one again.
RevisionReused(s) ==
  \E k \in Ticks :
    /\ tick[k].pc \in {"claiming", "chosen"}
    /\ tick[k].seen[s].revision = slot[s].revision /\ tick[k].seen[s] # slot[s]

\* A lease protects its run: while it has not expired, no reaper, no other claim and no
\* cancel() takes the job or the slot away from a run that goes on, however old the clock and
\* the rows are that they decided from; but for a claim or a cancel() that mistakes a row for
\* the one it read.
LeaseProtects ==
  [][\A r \in Runs, s \in Slots :
       Executing(r) /\ Executing(r)' /\ Holds(s, r) /\ ~ Expired(slot[s], r, lapsed)
         => RevisionReused(s) \/ ~ Intact(r[1])' \/ Holds(s, r)']_vars

\* The life of a job, as far as the queue can answer for it: up to the moment a cancel()
\* overwrites one attempt with another, after which the job is stuck.
Lived(j) == IF Intact(j) THEN job[j] ELSE lost[j]

Lifecycle == INSTANCE JobLifecycle WITH
  status <- [j \in Jobs |-> Lived(j).status], attempt <- [j \in Jobs |-> Lived(j).attempt]

\* What JobLifecycle promises: no write-back of a stale row, cancel()'s own included, revives
\* a job that is over, repeats an attempt, skips one or exceeds MaxAttempts, but for the one
\* write that `lost` tells of.
KeepsLifecycle == Lifecycle!Spec

\* A queued job is claimed or cancelled sooner or later, although the slots it waits for
\* may be held by runs whose node is gone.
QueueDrains == \A j \in Jobs : job[j].status = "queued" ~> job[j].status # "queued"

\* A slot that is taken, by a crashed worker perhaps, is free again sooner or later: jobs are
\* finitely many here, and each gives it up or loses it.
SlotsComeBack == \A s \in Slots : slot[s].run # NoRun ~> slot[s].run = NoRun

\* "After a crash, an expired lease makes the job available again": a running job whose
\* lease is over does not stay running.  The code breaks this.
LeaseIsOver(r) == JobHolds(r) /\ Expired(job[r[1]], r, lapsed)
ExpiredLeaseIsTaken == \A r \in Runs : LeaseIsOver(r) ~> ~ LeaseIsOver(r)

\* "running work receives an abort request and settles `cancelled`": the request stays in
\* the row, where settle looks for it, while the attempt runs.  The code breaks this.
CancelIsKept ==
  [][\A r \in Runs : JobHolds(r) /\ job[r[1]].cancel /\ JobHolds(r)' => job'[r[1]].cancel]_vars
=============================================================================
