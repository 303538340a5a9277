--------------------------- MODULE JobQueueProofs ---------------------------
(***************************************************************************)
(* The job queue, for any number of jobs, slots, nodes, ticks, attempts,   *)
(* heartbeats and cancels: the types, that a slot row and the job row it   *)
(* names agree, that every step is one JobLifecycle allows, whatever was   *)
(* read before and is written now, and that a lease protects its run; the  *)
(* last three but for a job of which a cancel() has mistaken one attempt   *)
(* for another, and the lease but for a revision that is used twice.       *)
(***************************************************************************)
EXTENDS JobQueue, TLAPS

Over == Terminal \cup {"deleted"}

\* Who waits has an attempt left, who runs has a slot.
JobSound(w) ==
  /\ w.status \in {"absent", "queued"} => w.attempt < MaxAttempts
  /\ w.status = "running" => w.slot \in Slots

RowsSound == \A j \in Jobs : JobSound(job[j])

\* The batches a run or a reaper of the run has computed and not applied yet.
Writes(r) ==
  ({beating[r], settling[r]} \ {NoWrite})
  \cup {tick[k].write : k \in {i \in Ticks : tick[i].pc = "expiring" /\ tick[i].run = r}}

\* Such a batch either keeps the run where it is, or ends it and gives its slot back.
Renewal(r, b) ==
  /\ b.row.status = "running" /\ b.row.slot = b.slot
  /\ b.slotRow.run = r /\ b.row.beat = b.slotRow.beat

Outcome(r, b) ==
  /\ b.row.status \in Terminal \cup {"queued"} /\ b.slotRow.run = NoRun
  /\ b.row.status = "queued" => r[2] < MaxAttempts

WriteSound(r, b) == b.row.attempt = r[2] /\ (Renewal(r, b) \/ Outcome(r, b))

\* The attempt has begun, unless the job is not there any more, or a cancel() has overwritten it.
Begun(r) == ~ Intact(r[1]) \/ job[r[1]].status = "deleted" \/ r[2] <= job[r[1]].attempt

WritesSound == \A r \in Runs : \A b \in Writes(r) : WriteSound(r, b) /\ Begun(r)

\* The rows as claimers have read them.
Choices(j) == {tick[k].row : k \in {i \in Ticks : tick[i].pc = "chosen" /\ tick[i].job = j}}

Ahead(w, row) == w.attempt > row.attempt /\ w.revision > row.revision

\* The job is over, or is as it was read, or has got to a later attempt; of that attempt
\* nothing is or will be written under the revision that was read, although settlements and
\* heartbeats do not look at revisions and may take the row back to an older one.
ChoiceSound(j, row) ==
  /\ row.status = "queued" /\ row.attempt < MaxAttempts
  /\ Intact(j) =>
       /\ job[j].status \in Over \/ job[j] = row \/ Ahead(job[j], row)
       /\ \A r \in Runs : r[1] = j /\ r[2] > row.attempt =>
            \A b \in Writes(r) : b.row.revision > row.revision

ChoicesSound == \A j \in Jobs : \A row \in Choices(j) : ChoiceSound(j, row)

\* The rows as calls of cancel() have read them.
Calls(j) == {call[x].row : x \in {y \in Cancellers : call[y].pc = "marking" /\ call[y].job = j}}

\* The job has not gone back since, and while the attempt that was read has a slot, it is the
\* slot that was read, with a lease that is no earlier.
CallSound(j, row) ==
  /\ row.status \in {"queued", "running"} /\ JobSound(row)
  /\ Intact(j) =>
       /\ job[j].status = "deleted" \/ row.attempt <= job[j].attempt
       /\ row.status = "running" => \A s \in Slots :
            slot[s].run \in Runs /\ slot[s].run = <<j, row.attempt>>
              => row.slot = s /\ row.beat <= slot[s].beat

CallsSound == \A j \in Jobs : \A row \in Calls(j) : CallSound(j, row)

Sound == RowsSound /\ SlotRunsItsJob /\ WritesSound /\ ChoicesSound /\ CallsSound

IInv == TypeOK /\ Sound

\* Heartbeats renew, settlements and reapers do not; a reaper writes for a run it found expired.
KindsSound ==
  /\ \A r \in Runs : /\ beating[r] # NoWrite => Renewal(r, beating[r])
                     /\ settling[r] # NoWrite => Outcome(r, settling[r])
  /\ \A k \in Ticks : tick[k].pc = "expiring" =>
       tick[k].run \in DOMAIN tick[k].now /\ Outcome(tick[k].run, tick[k].write)

\* A heartbeat in flight is the next one of its run.
BeatsSound ==
  \A r \in Runs, s \in Slots :
    beating[r] # NoWrite /\ slot[s].run = r /\ Intact(r[1]) => slot[s].beat <= beating[r].slotRow.beat

InFlightSound == KindsSound /\ BeatsSound

-----------------------------------------------------------------------------
(* Shapes.                                                                 *)

LEMMA RunsArePairs ==
  /\ \A r \in Runs : r[1] \in Jobs /\ r[2] \in 1..MaxAttempts /\ r = <<r[1], r[2]>>
  /\ \A j \in Jobs, a \in 1..MaxAttempts : <<j, a>> \in Runs /\ <<j, a>>[1] = j /\ <<j, a>>[2] = a
  BY DEF Runs

LEMMA BatchShape ==
  ASSUME NEW b \in Batch
  PROVE  b.row \in JobRow /\ b.slot \in Slots /\ b.slotRow \in SlotRow
  BY DEF Batch

LEMMA RowShape ==
  ASSUME NEW w \in JobRow
  PROVE  /\ w.status \in {"absent", "queued", "running", "deleted"} \cup Terminal
         /\ w.attempt \in 0..MaxAttempts /\ w.slot \in Slots \cup {NoSlot} /\ w.beat \in 0..MaxBeats
         /\ w.cancel \in BOOLEAN /\ w.revision \in Nat
  BY DEF JobRow

\* What a tick holds, by its phase.
LEMMA TickShape ==
  ASSUME TypeOK, NEW k \in Ticks
  PROVE  /\ tick[k].pc = "reaping" =>
              /\ DOMAIN tick[k].now \subseteq Runs
              /\ tick[k] = [pc |-> "reaping", now |-> tick[k].now]
              /\ tick[k].now \in [DOMAIN tick[k].now -> 0..(MaxBeats + 1)]
         /\ tick[k].pc = "expiring" =>
              /\ DOMAIN tick[k].now \subseteq Runs /\ tick[k].run \in Runs /\ tick[k].write \in Batch
              /\ tick[k].now \in [DOMAIN tick[k].now -> 0..(MaxBeats + 1)]
         /\ tick[k].pc \in {"claiming", "chosen"} =>
              tick[k].seen \in [Slots -> SlotRow] /\ tick[k].left \in SUBSET Slots
         /\ tick[k].pc = "chosen" =>
              tick[k].slot \in Slots /\ tick[k].job \in Jobs /\ tick[k].row \in JobRow
  <1>1. PICK expired \in SUBSET Runs : tick[k] \in TickState(expired)
    BY DEF TypeOK
  <1> QED
    BY <1>1 DEF TickState, Clock

\* A tick may move to any of these.
LEMMA TickMoves ==
  ASSUME TypeOK, NEW k \in Ticks, NEW t, NEW expired \in SUBSET Runs, t \in TickState(expired),
         tick' = [tick EXCEPT ![k] = t]
  PROVE  DOMAIN tick' = Ticks /\ \A i \in Ticks : \E e \in SUBSET Runs : tick'[i] \in TickState(e)
  BY DEF TypeOK

LEMMA ReapingState ==
  ASSUME NEW e \in SUBSET Runs, NEW now \in [e -> 0..(MaxBeats + 1)]
  PROVE  Reaping(now) \in TickState(e) /\ Reaping(now).pc \in {"reaping", "reaped"}
  BY DEF Reaping, TickState, Clock

LEMMA AfterState ==
  ASSUME TypeOK, NEW k \in Ticks, tick[k].pc \in {"claiming", "chosen"}, NEW s
  PROVE  After(tick[k], s) \in TickState({}) /\ After(tick[k], s).pc \in {"idle", "claiming"}
  <1>1. tick[k].seen \in [Slots -> SlotRow] /\ tick[k].left \ {s} \in SUBSET Slots
    BY TickShape
  <1> QED
    BY <1>1 DEF After, TickState, Idle

LEMMA WritesAreBatches ==
  ASSUME TypeOK, NEW r \in Runs
  PROVE  Writes(r) \subseteq Batch
  <1>1. {beating[r], settling[r]} \ {NoWrite} \subseteq Batch
    BY DEF TypeOK
  <1>2. \A k \in Ticks : tick[k].pc = "expiring" => tick[k].write \in Batch
    BY TickShape
  <1> QED
    BY <1>1, <1>2 DEF Writes

LEMMA ChoicesAreRows ==
  ASSUME TypeOK, NEW j \in Jobs
  PROVE  Choices(j) \subseteq JobRow
  BY TickShape DEF Choices

LEMMA CallsAreRows ==
  ASSUME TypeOK, NEW j \in Jobs
  PROVE  Calls(j) \subseteq JobRow
  BY DEF TypeOK, CallState, Calls

-----------------------------------------------------------------------------
(* What a step does to the lifecycle of a job.                             *)

\* A step of the life of a job, or none; a job that has been overwritten stays so.
LifecycleStep ==
  /\ Lifecycle!Next \/ UNCHANGED Lifecycle!lifecycle
  /\ \A j \in Jobs : Intact(j)' => Intact(j)

LEMMA LivesStay ==
  ASSUME \A j \in Jobs : (Lived(j).status)' = Lived(j).status /\ (Lived(j).attempt)' = Lived(j).attempt,
         \A j \in Jobs : Intact(j)' => Intact(j)
  PROVE  LifecycleStep
  BY DEF LifecycleStep, Lifecycle!lifecycle

LEMMA JobStays ==
  ASSUME UNCHANGED <<job, lost>>
  PROVE  LifecycleStep
  BY DEF LifecycleStep, Lifecycle!lifecycle, Lived, Intact

\* A cancel() overwrites a job that was whole.
LEMMA JobOverwritten ==
  ASSUME TypeOK, NEW j \in Jobs, NEW w, job' = [job EXCEPT ![j] = w],
         lost' = [lost EXCEPT ![j] = job[j]], Intact(j)
  PROVE  LifecycleStep /\ ~ Intact(j)'
  <1>1. job[j] \in JobRow /\ lost'[j] = job[j] /\ lost[j] = NoWrite
    BY DEF TypeOK, Intact
  <1>2. \A i \in Jobs \ {j} : job'[i] = job[i] /\ lost'[i] = lost[i]
    BY DEF TypeOK
  <1>3. ~ Intact(j)'
    BY <1>1, NoWriteIsNoRow DEF Intact
  <1>4. \A i \in Jobs : (Lived(i).status)' = Lived(i).status /\ (Lived(i).attempt)' = Lived(i).attempt
    BY <1>1, <1>2, <1>3 DEF Lived, Intact
  <1>5. \A i \in Jobs : Intact(i)' => Intact(i)
    BY <1>2, <1>3 DEF Intact
  <1> QED
    BY <1>3, <1>4, <1>5, LivesStay

LEMMA JobMoves ==
  ASSUME TypeOK, NEW j \in Jobs, NEW w \in JobRow, job' = [job EXCEPT ![j] = w], UNCHANGED lost,
         Intact(j) =>
         \/ w.status = job[j].status /\ w.attempt = job[j].attempt
         \/ job[j].status = "absent" /\ w.status = "queued" /\ w.attempt = job[j].attempt
         \/ /\ job[j].status = "queued" /\ w.status = "running"
            /\ job[j].attempt < MaxAttempts /\ w.attempt = job[j].attempt + 1
         \/ /\ job[j].status = "running" /\ w.status = "queued"
            /\ job[j].attempt < MaxAttempts /\ w.attempt = job[j].attempt
         \/ job[j].status = "running" /\ w.status \in Terminal /\ w.attempt = job[j].attempt
         \/ job[j].status = "queued" /\ w.status = "cancelled" /\ w.attempt = job[j].attempt
         \/ job[j].status \in Terminal /\ w.status = "deleted" /\ w.attempt = 0
  PROVE  LifecycleStep
  <1>0. /\ \A i \in Jobs : Intact(i)' <=> Intact(i)
        /\ job'[j] = w /\ \A i \in Jobs \ {j} : job'[i] = job[i]
    BY DEF Intact, TypeOK
  <1>a. CASE ~ Intact(j)
    BY <1>0, <1>a, LivesStay DEF Lived, Intact
  <1> SUFFICES ASSUME Intact(j) PROVE Lifecycle!Next \/ UNCHANGED Lifecycle!lifecycle
    BY <1>0, <1>a DEF LifecycleStep
  <1> DEFINE status == [i \in Jobs |-> Lived(i).status]
             attempt == [i \in Jobs |-> Lived(i).attempt]
  <1>b. Lived(j) = job[j] /\ Lived(j)' = w /\ \A i \in Jobs \ {j} : Lived(i)' = Lived(i)
    BY <1>0 DEF Lived, Intact
  <1>1. status' = [status EXCEPT ![j] = w.status] /\ attempt' = [attempt EXCEPT ![j] = w.attempt]
    BY <1>b
  <1>2. status[j] = job[j].status /\ attempt[j] = job[j].attempt
    BY <1>b
  <1>3. w.attempt = job[j].attempt => attempt' = attempt
    BY <1>1, <1>2
  <1>4. w.status = job[j].status => status' = status
    BY <1>1, <1>2
  <1>5. CASE w.status = job[j].status /\ w.attempt = job[j].attempt
    BY <1>3, <1>4, <1>5 DEF Lifecycle!lifecycle
  <1>6. CASE job[j].status = "absent" /\ w.status = "queued" /\ w.attempt = job[j].attempt
    <2>1. Lifecycle!Submit(j)
      BY <1>1, <1>2, <1>3, <1>6 DEF Lifecycle!Submit, Lifecycle!Move
    <2> QED
      BY <2>1 DEF Lifecycle!Next
  <1>7. CASE /\ job[j].status = "queued" /\ w.status = "running"
             /\ job[j].attempt < MaxAttempts /\ w.attempt = job[j].attempt + 1
    <2>1. Lifecycle!Start(j)
      BY <1>1, <1>2, <1>7 DEF Lifecycle!Start, Lifecycle!Move
    <2> QED
      BY <2>1 DEF Lifecycle!Next
  <1>8. CASE /\ job[j].status = "running" /\ w.status = "queued"
             /\ job[j].attempt < MaxAttempts /\ w.attempt = job[j].attempt
    <2>1. Lifecycle!Requeue(j)
      BY <1>1, <1>2, <1>3, <1>8 DEF Lifecycle!Requeue, Lifecycle!Move
    <2> QED
      BY <2>1 DEF Lifecycle!Next
  <1>9. CASE job[j].status = "running" /\ w.status \in Terminal /\ w.attempt = job[j].attempt
    <2>1. w.status \in Lifecycle!Terminal /\ Lifecycle!Finish(j, w.status)
      BY <1>1, <1>2, <1>3, <1>9 DEF Lifecycle!Finish, Lifecycle!Move, Lifecycle!Terminal, Terminal
    <2> QED
      BY <2>1 DEF Lifecycle!Next
  <1>10. CASE job[j].status = "queued" /\ w.status = "cancelled" /\ w.attempt = job[j].attempt
    <2>1. Lifecycle!CancelQueued(j)
      BY <1>1, <1>2, <1>3, <1>10 DEF Lifecycle!CancelQueued, Lifecycle!Move
    <2> QED
      BY <2>1 DEF Lifecycle!Next
  <1>11. CASE job[j].status \in Terminal /\ w.status = "deleted" /\ w.attempt = 0
    <2>1. Lifecycle!Forget(j)
      BY <1>1, <1>2, <1>11 DEF Lifecycle!Forget, Lifecycle!Move, Lifecycle!Terminal, Terminal
    <2> QED
      BY <2>1 DEF Lifecycle!Next
  <1> QED
    BY <1>5, <1>6, <1>7, <1>8, <1>9, <1>10, <1>11

-----------------------------------------------------------------------------
(* What the kinds of steps do to the rest of the invariant.                *)

\* Nothing is written; a batch is computed, or a job chosen, from the rows as they are.
LEMMA RowsStay ==
  ASSUME IInv, UNCHANGED <<job, slot, lost>>,
         \A r \in Runs : \A b \in Writes(r)' :
           \/ b \in Writes(r)
           \/ JobHolds(r) /\ WriteSound(r, b) /\ b.row.revision = job[r[1]].revision + 1,
         \A j \in Jobs : \A w \in Choices(j)' :
           w \in Choices(j) \/ (w = job[j] /\ job[j].status = "queued"),
         \/ UNCHANGED call
         \/ \A j \in Jobs : \A w \in Calls(j)' :
              w \in Calls(j) \/ (w = job[j] /\ job[j].status \in {"queued", "running"})
  PROVE  Sound' /\ LifecycleStep
  <1>0. TypeOK /\ RowsSound /\ SlotRunsItsJob /\ WritesSound /\ ChoicesSound /\ CallsSound
    BY DEF IInv, Sound
  <1>1. RowsSound' /\ SlotRunsItsJob'
    BY <1>0 DEF RowsSound, SlotRunsItsJob, JobHolds, Intact
  <1>2. WritesSound'
    <2> SUFFICES ASSUME NEW r \in Runs, NEW b \in Writes(r)'
                 PROVE  WriteSound(r, b) /\ Begun(r)'
      BY DEF WritesSound
    <2>1. CASE b \in Writes(r)
      BY <1>0, <2>1 DEF WritesSound, Begun, Intact
    <2>2. CASE JobHolds(r) /\ WriteSound(r, b)
      <3>1. r[2] \in Nat /\ job[r[1]].attempt = r[2]
        BY <2>2, RunsArePairs, QueueConstants DEF JobHolds
      <3> QED
        BY <2>2, <3>1 DEF Begun
    <2> QED
      BY <2>1, <2>2
  <1>3. ChoicesSound'
    <2> SUFFICES ASSUME NEW j \in Jobs, NEW w \in Choices(j)'
                 PROVE  ChoiceSound(j, w)'
      BY DEF ChoicesSound
    <2>1. job[j] \in JobRow /\ job[j].attempt \in Nat /\ job[j].revision \in Nat
      BY <1>0, RowShape DEF TypeOK
    <2>2. /\ w.status = "queued" /\ w.attempt < MaxAttempts
          /\ Intact(j) => job[j].status \in Over \/ job[j] = w \/ Ahead(job[j], w)
      BY <1>0 DEF ChoicesSound, ChoiceSound, RowsSound, JobSound
    <2>3. ASSUME Intact(j), NEW r \in Runs, r[1] = j, r[2] > w.attempt, NEW b \in Writes(r)'
          PROVE  b.row.revision > w.revision
      <3>1. CASE b \in Writes(r) /\ w \in Choices(j)
        BY <1>0, <2>3, <3>1 DEF ChoicesSound, ChoiceSound
      <3>2. CASE b \in Writes(r) /\ w = job[j] /\ job[j].status = "queued"
        <4>1. Begun(r)
          BY <1>0, <3>2 DEF WritesSound
        <4>2. r[2] \in Nat
          BY RunsArePairs
        <4> QED
          BY <2>1, <2>3, <3>2, <4>1, <4>2 DEF Begun
      <3>3. CASE JobHolds(r) /\ b.row.revision = job[r[1]].revision + 1
        <4>1. job[j].status = "running" /\ job[j].attempt = r[2]
          BY <2>3, <3>3 DEF JobHolds
        <4>2. Ahead(job[j], w)
          BY <2>2, <2>3, <4>1 DEF Over, Terminal
        <4>3. w \in Choices(j)
          BY <4>1
        <4>4. w.revision \in Nat
          BY <1>0, <4>3, ChoicesAreRows, RowShape
        <4> QED
          BY <2>1, <2>3, <3>3, <4>2, <4>4 DEF Ahead
      <3> QED
        BY <3>1, <3>2, <3>3
    <2> QED
      BY <2>2, <2>3 DEF ChoiceSound, Intact
  <1>4. CallsSound'
    <2> SUFFICES ASSUME NEW j \in Jobs, NEW w \in Calls(j)'
                 PROVE  CallSound(j, w)'
      BY DEF CallsSound
    <2>1. CASE w \in Calls(j)
      BY <1>0, <2>1 DEF CallsSound, CallSound, Intact
    <2>3. UNCHANGED call => w \in Calls(j)
      BY DEF Calls
    <2>2. CASE w = job[j] /\ job[j].status \in {"queued", "running"}
      <3>1. job[j].attempt <= job[j].attempt /\ JobSound(job[j])
        BY <1>0, RowShape, QueueConstants DEF TypeOK, RowsSound
      <3>2. ASSUME Intact(j), w.status = "running",
                   NEW s \in Slots, slot[s].run \in Runs /\ slot[s].run = <<j, w.attempt>>
            PROVE  w.slot = s /\ w.beat <= slot[s].beat
        <4>2. slot[s].run # NoRun /\ slot[s].run[1] = j
          BY <3>2, QueueConstants DEF Runs
        <4> QED
          BY <1>0, <2>2, <3>2, <4>2 DEF SlotRunsItsJob
      <3> QED
        BY <2>2, <3>1, <3>2 DEF CallSound, Intact
    <2> QED
      BY <2>1, <2>2, <2>3
  <1> QED
    BY <1>1, <1>2, <1>3, <1>4, JobStays DEF Sound

\* A batch is applied whose fences hold.
LEMMA BatchApplied ==
  ASSUME IInv, NEW r \in Runs, NEW b \in Writes(r), Holds(b.slot, r), Apply(r[1], b),
         UNCHANGED <<call, lost>>,
         Intact(r[1]) /\ Renewal(r, b) => slot[b.slot].beat <= b.slotRow.beat,
         \A q \in Runs : Writes(q)' \subseteq Writes(q),
         \A j \in Jobs : Choices(j)' \subseteq Choices(j)
  PROVE  Sound' /\ LifecycleStep
  <1>0. TypeOK /\ RowsSound /\ SlotRunsItsJob /\ WritesSound /\ ChoicesSound /\ CallsSound
    BY DEF IInv, Sound
  <1> DEFINE i == r[1]
  <1>1. i \in Jobs /\ r[2] \in Nat /\ r = <<i, r[2]>>
    BY RunsArePairs, QueueConstants
  <1>2. b \in Batch /\ b.row \in JobRow /\ b.slot \in Slots /\ b.slotRow \in SlotRow
    BY <1>0, WritesAreBatches, BatchShape
  <1>3. /\ job' = [job EXCEPT ![i] = b.row]
        /\ slot' = [slot EXCEPT ![b.slot] = b.slotRow]
    BY DEF Apply
  <1>4. /\ job \in [Jobs -> JobRow] /\ slot \in [Slots -> SlotRow]
        /\ job'[i] = b.row /\ \A j \in Jobs \ {i} : job'[j] = job[j]
        /\ slot'[b.slot] = b.slotRow /\ \A s \in Slots \ {b.slot} : slot'[s] = slot[s]
    BY <1>0, <1>1, <1>2, <1>3 DEF TypeOK
  <1>5. job[i].status = "running" /\ job[i].attempt = r[2] /\ slot[b.slot].run = r
    BY DEF Holds, JobHolds, SlotHolds
  <1>6. WriteSound(r, b) /\ b.row.attempt = r[2] /\ (Renewal(r, b) \/ Outcome(r, b))
    BY <1>0 DEF WritesSound, WriteSound
  <1>7. RowsSound'
    <2>1. JobSound(b.row)
      BY <1>2, <1>6 DEF Renewal, Outcome, JobSound, Terminal
    <2> QED
      BY <1>0, <1>4, <2>1 DEF RowsSound
  <1>8. SlotRunsItsJob'
    <2> SUFFICES ASSUME NEW s \in Slots, slot'[s].run # NoRun, Intact(slot'[s].run[1])
                 PROVE  /\ JobHolds(slot[s].run)' /\ job'[slot'[s].run[1]].slot = s
                        /\ job'[slot'[s].run[1]].beat <= slot'[s].beat
      BY DEF SlotRunsItsJob, Intact
    <2>1. CASE s = b.slot
      <3>1. b.slotRow.beat <= b.slotRow.beat
        BY <1>2, QueueConstants DEF SlotRow
      <3> QED
        BY <1>1, <1>4, <1>6, <2>1, <3>1 DEF Renewal, Outcome, JobHolds
    <2>2. CASE s # b.slot
      <3> DEFINE q == slot[s].run
      <3>1. slot'[s] = slot[s] /\ q # NoRun
        BY <1>4, <2>2
      <3>2. q \in Runs
        BY <1>4, <3>1 DEF SlotRow
      <3>3. JobHolds(q) /\ job[q[1]].slot = s /\ job[q[1]].beat <= slot[s].beat
        BY <1>0, <3>1 DEF SlotRunsItsJob
      <3>4. q[1] # i
        <4>1. SUFFICES ASSUME q[1] = i PROVE FALSE
          OBVIOUS
        <4>2. job[i].slot = b.slot
          BY <1>0, <1>2, <1>5, <3>1, <3>2, <4>1, QueueConstants DEF SlotRunsItsJob, Runs
        <4> QED
          BY <2>2, <3>3, <4>1, <4>2
      <3>5. q[1] \in Jobs
        BY <3>2, RunsArePairs
      <3> QED
        BY <1>4, <3>1, <3>3, <3>4, <3>5 DEF JobHolds
    <2> QED
      BY <2>1, <2>2
  <1>9. WritesSound'
    <2> SUFFICES ASSUME NEW q \in Runs, NEW c \in Writes(q)'
                 PROVE  WriteSound(q, c) /\ Begun(q)'
      BY DEF WritesSound
    <2>1. WriteSound(q, c) /\ Begun(q)
      BY <1>0 DEF WritesSound
    <2>2. q[1] \in Jobs
      BY RunsArePairs
    <2> QED
      BY <1>4, <1>5, <1>6, <2>1, <2>2 DEF Begun, Intact
  <1>10. ChoicesSound'
    <2> SUFFICES ASSUME NEW j \in Jobs, NEW w \in Choices(j)'
                 PROVE  ChoiceSound(j, w)'
      BY DEF ChoicesSound
    <2>1. ChoiceSound(j, w)
      BY <1>0 DEF ChoicesSound
    <2>2. ASSUME Intact(j) PROVE job'[j].status \in Over \/ job'[j] = w \/ Ahead(job'[j], w)
      <3>1. CASE j # i
        BY <1>4, <2>1, <2>2, <3>1 DEF ChoiceSound
      <3>2. CASE j = i
        <4>1. Ahead(job[i], w)
          BY <1>5, <2>1, <2>2, <3>2 DEF ChoiceSound, Over, Terminal
        <4>2. b.row.revision > w.revision
          BY <1>5, <2>1, <2>2, <3>2, <4>1 DEF ChoiceSound, Ahead
        <4> QED
          BY <1>4, <1>5, <1>6, <3>2, <4>1, <4>2 DEF Ahead
      <3> QED
        BY <3>1, <3>2
    <2> QED
      BY <2>1, <2>2 DEF ChoiceSound, Intact
  <1>11. LifecycleStep
    <2>1. CASE Renewal(r, b)
      BY <1>0, <1>1, <1>2, <1>3, <1>5, <1>6, <2>1, JobMoves DEF Renewal
    <2>2. CASE Outcome(r, b)
      BY <1>0, <1>1, <1>2, <1>3, <1>5, <1>6, <2>2, JobMoves DEF Outcome
    <2> QED
      BY <1>6, <2>1, <2>2
  <1>12. CallsSound'
    <2> SUFFICES ASSUME NEW j \in Jobs, NEW w \in Calls(j)'
                 PROVE  CallSound(j, w)'
      BY DEF CallsSound
    <2>1. w \in Calls(j) /\ CallSound(j, w)
      BY <1>0 DEF CallsSound, Calls
    <2>2. Intact(j) => job'[j].status = "deleted" \/ w.attempt <= job'[j].attempt
      BY <1>4, <1>5, <1>6, <2>1 DEF CallSound
    <2>3. ASSUME Intact(j), w.status = "running",
                 NEW s \in Slots, slot'[s].run \in Runs /\ slot'[s].run = <<j, w.attempt>>
          PROVE  w.slot = s /\ w.beat <= slot'[s].beat
      <3>1. CASE slot'[s] = slot[s]
        BY <2>1, <2>3, <3>1 DEF CallSound
      <3>2. CASE s = b.slot /\ slot'[s] = b.slotRow
        <4>1. w.attempt \in 0..MaxAttempts /\ w.beat \in 0..MaxBeats
          BY <1>0, <2>1, CallsAreRows, RowShape
        <4>2. slot'[s].run # NoRun
          BY <2>3, QueueConstants DEF Runs
        <4>3. Renewal(r, b) /\ r = <<j, w.attempt>>
          BY <1>6, <2>3, <3>2, <4>2 DEF Renewal, Outcome
        <4>4. w.slot = s /\ w.beat <= slot[s].beat /\ slot[s].beat <= b.slotRow.beat
          BY <1>1, <1>5, <2>1, <2>3, <3>2, <4>3 DEF CallSound
        <4>5. slot[s].beat \in 0..MaxBeats /\ b.slotRow.beat \in 0..MaxBeats
          BY <1>2, <1>4 DEF SlotRow
        <4> QED
          BY <3>2, <4>1, <4>4, <4>5, QueueConstants
      <3> QED
        BY <1>4, <3>1, <3>2
    <2> QED
      BY <2>1, <2>2, <2>3 DEF CallSound, Intact
  <1> QED
    BY <1>7, <1>8, <1>9, <1>10, <1>11, <1>12 DEF Sound

\* Only a job changes that no slot names, that stays with its run, or that is overwritten.
LEMMA JobWritten ==
  ASSUME IInv, NEW j \in Jobs, NEW w \in JobRow, job' = [job EXCEPT ![j] = w], UNCHANGED slot,
         JobSound(w), \A i \in Jobs : Intact(i)' => Intact(i),
         Intact(j)' =>
           /\ job[j].status # "deleted"
           /\ \/ job[j].status # "running"
              \/ /\ w.status = "running"
                 /\ \A s \in Slots : slot[s].run \in Runs /\ slot[s].run = <<j, w.attempt>>
                      => w.slot = s /\ w.beat <= slot[s].beat
           /\ w.status = "deleted" \/ w.attempt = job[j].attempt
           /\ \/ w.status \in Over
              \/ job[j].status # "queued" /\ job[j].status \notin Over /\ w.revision >= job[j].revision,
         \A q \in Runs : Writes(q)' \subseteq Writes(q),
         \A i \in Jobs : Choices(i)' \subseteq Choices(i),
         \A i \in Jobs : Calls(i)' \subseteq Calls(i)
  PROVE  Sound'
  <1>0. TypeOK /\ RowsSound /\ SlotRunsItsJob /\ WritesSound /\ ChoicesSound /\ CallsSound
    BY DEF IInv, Sound
  <1>1. job \in [Jobs -> JobRow] /\ job'[j] = w /\ \A i \in Jobs \ {j} : job'[i] = job[i]
    BY <1>0 DEF TypeOK
  <1>2. RowsSound'
    BY <1>0, <1>1 DEF RowsSound
  <1>3. SlotRunsItsJob'
    <2> SUFFICES ASSUME NEW s \in Slots, slot[s].run # NoRun, Intact(slot[s].run[1])'
                 PROVE  /\ JobHolds(slot[s].run)' /\ job'[slot[s].run[1]].slot = s
                        /\ job'[slot[s].run[1]].beat <= slot[s].beat
      BY DEF SlotRunsItsJob, Intact
    <2>0. PICK q : q = slot[s].run
      OBVIOUS
    <2>1. q \in Runs /\ q[1] \in Jobs /\ q = <<q[1], q[2]>>
      BY <1>0, <2>0, RunsArePairs DEF TypeOK, SlotRow
    <2>2. Intact(q[1])' /\ Intact(q[1])
      BY <2>0, <2>1 DEF Intact
    <2>3. JobHolds(q) /\ job[q[1]].slot = s /\ job[q[1]].beat <= slot[s].beat
      BY <1>0, <2>0, <2>2 DEF SlotRunsItsJob
    <2>4. CASE q[1] # j
      BY <1>1, <2>0, <2>1, <2>3, <2>4 DEF JobHolds
    <2>5. CASE q[1] = j
      <3>1. job[j].status = "running" /\ job[j].attempt = q[2]
        BY <2>3, <2>5 DEF JobHolds
      <3>2. w.status = "running" /\ w.attempt = q[2]
        BY <2>2, <2>5, <3>1
      <3>3. w.slot = s /\ w.beat <= slot[s].beat
        BY <2>0, <2>1, <2>2, <2>5, <3>1, <3>2
      <3> QED
        BY <1>1, <2>0, <2>5, <3>2, <3>3 DEF JobHolds
    <2> QED
      BY <2>4, <2>5
  <1>4. WritesSound'
    <2> SUFFICES ASSUME NEW q \in Runs, NEW c \in Writes(q)'
                 PROVE  WriteSound(q, c) /\ Begun(q)'
      BY DEF WritesSound
    <2>1. WriteSound(q, c) /\ Begun(q) /\ q[1] \in Jobs
      BY <1>0, RunsArePairs DEF WritesSound
    <2>2. CASE ~ Intact(q[1])'
      BY <2>1, <2>2 DEF Begun
    <2>3. CASE Intact(q[1])' /\ Intact(q[1])
      BY <1>1, <2>1, <2>3 DEF Begun
    <2> QED
      BY <2>1, <2>2, <2>3
  <1>5. ChoicesSound'
    <2> SUFFICES ASSUME NEW i \in Jobs, NEW v \in Choices(i)'
                 PROVE  ChoiceSound(i, v)'
      BY DEF ChoicesSound
    <2>1. ChoiceSound(i, v) /\ v.revision \in Nat
      BY <1>0, ChoicesAreRows, RowShape DEF ChoicesSound
    <2>2. w.revision \in Nat /\ job[j].revision \in Nat /\ w.attempt \in Nat
      BY <1>1, RowShape
    <2>3. Intact(i)' => job'[i].status \in Over \/ job'[i] = v \/ Ahead(job'[i], v)
      BY <1>1, <2>1, <2>2 DEF ChoiceSound, Ahead, Over
    <2> QED
      BY <2>1, <2>3 DEF ChoiceSound
  <1>6. CallsSound'
    <2> SUFFICES ASSUME NEW i \in Jobs, NEW v \in Calls(i)'
                 PROVE  CallSound(i, v)'
      BY DEF CallsSound
    <2>1. CallSound(i, v)
      BY <1>0 DEF CallsSound
    <2>2. Intact(i)' => job'[i].status = "deleted" \/ v.attempt <= job'[i].attempt
      BY <1>1, <2>1 DEF CallSound
    <2> QED
      BY <2>1, <2>2 DEF CallSound
  <1> QED
    BY <1>2, <1>3, <1>4, <1>5, <1>6 DEF Sound

-----------------------------------------------------------------------------
(* One lemma per action, or group of actions.                              *)

LEMMA InitIsSound == Init => IInv
  <1> SUFFICES ASSUME Init PROVE IInv
    OBVIOUS
  <1>1. TypeOK
    <2>1. NoJob \in JobRow
      BY QueueConstants DEF NoJob, JobRow
    <2>2. [run |-> NoRun, beat |-> 0, revision |-> 0] \in SlotRow
      BY QueueConstants DEF SlotRow
    <2>3. lapsed \in Clock(Runs)
      BY QueueConstants DEF Init, Clock
    <2>4. \A k \in Ticks : tick[k] \in TickState({})
      BY DEF Init, Idle, TickState
    <2> QED
      BY <2>1, <2>2, <2>3, <2>4 DEF Init, TypeOK, CallState, Idle
  <1>2. RowsSound
    BY QueueConstants DEF Init, NoJob, RowsSound, JobSound
  <1>3. SlotRunsItsJob
    BY DEF Init, SlotRunsItsJob
  <1>4. WritesSound
    BY DEF Init, Idle, WritesSound, Writes
  <1>5. ChoicesSound
    BY DEF Init, Idle, ChoicesSound, Choices
  <1>6. CallsSound
    BY DEF Init, Idle, CallsSound, Calls
  <1> QED
    BY <1>1, <1>2, <1>3, <1>4, <1>5, <1>6 DEF IInv, Sound

LEMMA Enqueued ==
  ASSUME IInv, NEW j \in Jobs, Enqueue(j)
  PROVE  IInv' /\ LifecycleStep
  <1>0. TypeOK /\ RowsSound
    BY DEF IInv, Sound
  <1> DEFINE w == [job[j] EXCEPT !.status = "queued"]
  <1>1. /\ job' = [job EXCEPT ![j] = w]
        /\ UNCHANGED <<slot, lapsed, node, host, beating, settling, tick, call, lost>>
        /\ job[j].status = "absent"
    BY DEF Enqueue, work
  <1>2. job[j] \in JobRow
    BY <1>0 DEF TypeOK
  <1>3. w \in JobRow /\ w.status = "queued" /\ w.attempt = job[j].attempt /\ w.revision = job[j].revision
    BY <1>2 DEF JobRow
  <1>4. TypeOK'
    BY <1>0, <1>1, <1>3 DEF TypeOK
  <1>5. \A q \in Runs : Writes(q)' = Writes(q)
    BY <1>1 DEF Writes
  <1>6. \A i \in Jobs : Choices(i)' = Choices(i) /\ Calls(i)' = Calls(i) /\ (Intact(i)' <=> Intact(i))
    BY <1>1 DEF Choices, Calls, Intact
  <1>7. JobSound(w)
    BY <1>0, <1>1, <1>3 DEF RowsSound, JobSound
  <1> HIDE DEF w
  <1>8. w.revision >= job[j].revision
    BY <1>2, <1>3, RowShape
  <1> QED
    BY <1>0, <1>1, <1>3, <1>4, <1>5, <1>6, <1>7, <1>8, JobWritten, JobMoves DEF IInv, Over, Terminal

LEMMA CallStarted ==
  ASSUME IInv, NEW x \in Cancellers, NEW j \in Jobs, CancelRead(x, j)
  PROVE  IInv' /\ LifecycleStep
  <1>0. TypeOK
    BY DEF IInv
  <1> DEFINE c == [pc |-> "marking", job |-> j, row |-> job[j]]
  <1>1. UNCHANGED <<job, slot, lapsed, node, host, beating, settling, tick, lost>>
    BY DEF CancelRead, rows, work
  <1>2. \/ call' = [call EXCEPT ![x] = [pc |-> "done"]]
        \/ job[j].status \in {"queued", "running"} /\ call' = [call EXCEPT ![x] = c]
    BY DEF CancelRead
  <1>3. c \in CallState /\ [pc |-> "done"] \in CallState
    BY <1>0 DEF TypeOK, CallState
  <1>4. TypeOK'
    <2>1. call' \in [Cancellers -> CallState]
      BY <1>0, <1>2, <1>3 DEF TypeOK
    <2> QED
      BY <1>0, <1>1, <2>1 DEF TypeOK
  <1>5. /\ \A q \in Runs : Writes(q)' = Writes(q)
        /\ \A i \in Jobs : Choices(i)' = Choices(i)
    BY <1>1 DEF Writes, Choices
  <1>6. \A i \in Jobs : \A w \in Calls(i)' :
          w \in Calls(i) \/ (w = job[i] /\ job[i].status \in {"queued", "running"})
    <2>1. /\ \A y \in Cancellers \ {x} : call'[y] = call[y]
          /\ call'[x].pc = "done" \/ (call'[x] = c /\ job[j].status \in {"queued", "running"})
      BY <1>0, <1>2 DEF TypeOK
    <2> QED
      BY <2>1 DEF Calls
  <1> QED
    BY <1>1, <1>4, <1>5, <1>6, RowsStay DEF IInv

\* What cancel() writes, to a row that waits or runs.
LEMMA MarkedShape ==
  ASSUME NEW row \in JobRow, row.status \in {"queued", "running"}, JobSound(row)
  PROVE  /\ Marked(row) \in JobRow /\ JobSound(Marked(row))
         /\ Marked(row).attempt = row.attempt /\ Marked(row).revision = row.revision + 1
         /\ Marked(row).slot = row.slot /\ Marked(row).beat = row.beat
         /\ Marked(row).status = IF row.status = "queued" THEN "cancelled" ELSE "running"
  <1>1. (IF row.status = "queued" THEN "cancelled" ELSE row.status)
           \in {"absent", "queued", "running", "deleted"} \cup Terminal
    BY DEF Terminal
  <1>2. row.revision + 1 \in Nat
    BY RowShape
  <1>3. /\ Marked(row) \in JobRow
        /\ Marked(row).attempt = row.attempt /\ Marked(row).revision = row.revision + 1
        /\ Marked(row).slot = row.slot /\ Marked(row).beat = row.beat
        /\ Marked(row).status = IF row.status = "queued" THEN "cancelled" ELSE "running"
    BY <1>1, <1>2 DEF Marked, JobRow
  <1> QED
    BY <1>3 DEF JobSound

\* A cancel() that has read the attempt it writes, or one before it; or that tries again.
LEMMA CallMarks ==
  ASSUME IInv, NEW x \in Cancellers, CancelWrite(x)
  PROVE  IInv' /\ LifecycleStep
  <1>0. TypeOK /\ CallsSound /\ SlotRunsItsJob
    BY DEF IInv, Sound
  <1>1. PICK j, row : j = call[x].job /\ row = call[x].row
    OBVIOUS
  <1>2. call[x].pc = "marking" /\ UNCHANGED <<slot, lapsed, node, host, beating, settling, tick>>
    BY DEF CancelWrite, work
  <1>3. j \in Jobs /\ row \in JobRow /\ row \in Calls(j) /\ CallSound(j, row)
    <2>1. j \in Jobs /\ row \in JobRow /\ row \in Calls(j)
      BY <1>0, <1>1, <1>2 DEF TypeOK, CallState, Calls
    <2> QED
      BY <1>0, <2>1 DEF CallsSound
  <1>4. PICK w : w = Marked(row)
    OBVIOUS
  <1>5. /\ w \in JobRow /\ JobSound(w) /\ w.attempt = row.attempt /\ w.revision = row.revision + 1
        /\ w.slot = row.slot /\ w.beat = row.beat
        /\ w.status = IF row.status = "queued" THEN "cancelled" ELSE "running"
    BY <1>3, <1>4, MarkedShape DEF CallSound
  <1>6. \A q \in Runs : Writes(q)' = Writes(q)
    BY <1>2 DEF Writes
  <1>7. \A i \in Jobs : Choices(i)' = Choices(i)
    BY <1>2 DEF Choices
  <1>8. ASSUME NEW c, c \in CallState, c.pc # "marking", call' = [call EXCEPT ![x] = c]
        PROVE  call' \in [Cancellers -> CallState] /\ \A i \in Jobs : Calls(i)' \subseteq Calls(i)
    <2>1. /\ call' \in [Cancellers -> CallState]
          /\ call'[x] = c /\ \A y \in Cancellers \ {x} : call'[y] = call[y]
      BY <1>0, <1>8 DEF TypeOK
    <2> QED
      BY <1>8, <2>1 DEF Calls
  <1>9. CASE UNCHANGED <<job, lost>> /\ call' = [call EXCEPT ![x] = [pc |-> "again", job |-> j]]
    <2>1. [pc |-> "again", job |-> j] \in CallState
      BY <1>3 DEF CallState
    <2>2. call' \in [Cancellers -> CallState] /\ \A i \in Jobs : Calls(i)' \subseteq Calls(i)
      BY <1>8, <1>9, <2>1
    <2>3. TypeOK'
      BY <1>0, <1>2, <1>9, <2>2 DEF TypeOK
    <2> QED
      BY <1>2, <1>6, <1>7, <1>9, <2>2, <2>3, RowsStay DEF IInv
  <1>10. CASE /\ job[j].revision = row.revision /\ job[j].status = row.status
              /\ job' = [job EXCEPT ![j] = w] /\ call' = [call EXCEPT ![x] = [pc |-> "done"]]
              /\ lost' = IF Intact(j) /\ job[j].attempt # row.attempt
                           THEN [lost EXCEPT ![j] = job[j]] ELSE lost
    <2>1. [pc |-> "done"] \in CallState
      BY DEF CallState
    <2>2. call' \in [Cancellers -> CallState] /\ \A i \in Jobs : Calls(i)' \subseteq Calls(i)
      BY <1>8, <1>10, <2>1
    <2>3. job[j] \in JobRow
      BY <1>0, <1>3 DEF TypeOK
    <2>4. TypeOK'
      <3>1. lost' \in [Jobs -> JobRow \cup {NoWrite}] /\ job' \in [Jobs -> JobRow]
        BY <1>0, <1>5, <1>10, <2>3 DEF TypeOK
      <3> QED
        BY <1>0, <1>2, <2>2, <3>1 DEF TypeOK
    <2>5. CASE Intact(j) /\ job[j].attempt # row.attempt
      <3>1. LifecycleStep /\ ~ Intact(j)'
        BY <1>0, <1>3, <1>10, <2>5, JobOverwritten
      <3>2. Sound'
        BY <1>2, <1>3, <1>5, <1>6, <1>7, <1>10, <2>2, <3>1, JobWritten DEF LifecycleStep
      <3> QED
        BY <2>4, <3>1, <3>2 DEF IInv
    <2>6. CASE ~ Intact(j) /\ UNCHANGED lost
      <3>1. LifecycleStep
        BY <1>0, <1>3, <1>5, <1>10, <2>6, JobMoves
      <3>2. ~ Intact(j)'
        BY <2>6 DEF Intact
      <3>3. Sound'
        BY <1>2, <1>3, <1>5, <1>6, <1>7, <1>10, <2>2, <3>1, <3>2, JobWritten DEF LifecycleStep
      <3> QED
        BY <2>4, <3>1, <3>3 DEF IInv
    <2>7. CASE Intact(j) /\ job[j].attempt = row.attempt /\ UNCHANGED lost
      <3>1. row.status \in {"queued", "running"}
        BY <1>3 DEF CallSound
      <3>2. LifecycleStep
        BY <1>0, <1>3, <1>5, <1>10, <2>7, <3>1, JobMoves
      <3>3. row.status = "queued" \/
              (row.status = "running" /\
               \A s \in Slots : slot[s].run \in Runs /\ slot[s].run = <<j, w.attempt>>
                 => w.slot = s /\ w.beat <= slot[s].beat)
        BY <1>3, <1>5, <2>7, <3>1 DEF CallSound
      <3>4. job[j].revision \in Nat /\ w.revision >= job[j].revision
        BY <1>5, <1>10, <2>3, RowShape
      <3>5. Sound'
        BY <1>2, <1>3, <1>5, <1>6, <1>7, <1>10, <2>2, <2>7, <3>1, <3>2, <3>3, <3>4, JobWritten
           DEF LifecycleStep, Over, Terminal
      <3> QED
        BY <2>4, <3>2, <3>5 DEF IInv
    <2> QED
      BY <1>10, <2>5, <2>6, <2>7
  <1> QED
    BY <1>1, <1>4, <1>9, <1>10 DEF CancelWrite

LEMMA Deleted ==
  ASSUME IInv, NEW k \in Ticks, NEW j \in Jobs, DeleteExpired(k, j)
  PROVE  IInv' /\ LifecycleStep
  <1>0. TypeOK /\ RowsSound
    BY DEF IInv, Sound
  <1> DEFINE w == [NoJob EXCEPT !.status = "deleted"]
  <1>1. /\ job' = [job EXCEPT ![j] = w]
        /\ UNCHANGED <<slot, lapsed, node, host, beating, settling, tick, call, lost>>
        /\ job[j].status \in Terminal
    BY DEF DeleteExpired, work
  <1>3. w \in JobRow /\ w.status = "deleted" /\ w.attempt = 0
    <2>1. NoJob \in JobRow /\ NoJob.attempt = 0
      BY QueueConstants DEF JobRow, NoJob
    <2> QED
      BY <2>1 DEF JobRow
  <1>4. TypeOK'
    BY <1>0, <1>1, <1>3 DEF TypeOK
  <1>5. \A q \in Runs : Writes(q)' = Writes(q)
    BY <1>1 DEF Writes
  <1>6. \A i \in Jobs : Choices(i)' = Choices(i) /\ Calls(i)' = Calls(i) /\ (Intact(i)' <=> Intact(i))
    BY <1>1 DEF Choices, Calls, Intact
  <1>7. JobSound(w)
    BY <1>3 DEF JobSound
  <1> HIDE DEF w
  <1> QED
    BY <1>0, <1>1, <1>3, <1>4, <1>5, <1>6, <1>7, JobWritten, JobMoves DEF IInv, Over, Terminal

\* A tick that goes on to a phase in which it holds no batch and no job.
LEMMA TickHoldsNothing ==
  ASSUME TypeOK, NEW k \in Ticks, NEW t, t.pc \notin {"expiring", "chosen"},
         tick' = [tick EXCEPT ![k] = t], UNCHANGED <<beating, settling>>
  PROVE  /\ \A r \in Runs : Writes(r)' \subseteq Writes(r)
         /\ \A j \in Jobs : Choices(j)' \subseteq Choices(j)
  <1>1. tick'[k] = t /\ \A i \in Ticks \ {k} : tick'[i] = tick[i]
    BY DEF TypeOK
  <1> QED
    BY <1>1 DEF Writes, Choices

\* Only a tick moves, and holds nothing then.
LEMMA TickGoesOn ==
  ASSUME IInv, NEW k \in Ticks, NEW t, NEW expired \in SUBSET Runs, t \in TickState(expired),
         t.pc \notin {"expiring", "chosen"}, tick' = [tick EXCEPT ![k] = t],
         UNCHANGED <<rows, lapsed, node, work, call, lost>>
  PROVE  IInv' /\ LifecycleStep
  <1>1. UNCHANGED <<job, slot, lapsed, node, host, beating, settling, call, lost>>
    BY DEF rows, work
  <1>2. TypeOK'
    BY <1>1, TickMoves DEF IInv, TypeOK
  <1> QED
    BY <1>1, <1>2, TickHoldsNothing, RowsStay DEF IInv

LEMMA TickStarted ==
  ASSUME IInv, NEW k \in Ticks, StartTick(k)
  PROVE  IInv' /\ LifecycleStep
  <1> DEFINE e == Reapable(k)
             now == Restrict(lapsed, e)
  <1>1. e \in SUBSET Runs
    BY DEF Reapable
  <1>2. now \in [e -> 0..(MaxBeats + 1)]
    BY <1>1 DEF IInv, TypeOK, Clock, Restrict
  <1> HIDE DEF now, e
  <1>3. Reaping(now) \in TickState(e) /\ Reaping(now).pc \notin {"expiring", "chosen"}
    BY <1>1, <1>2, ReapingState
  <1>4. tick' = [tick EXCEPT ![k] = Reaping(now)] /\ UNCHANGED <<rows, lapsed, node, work, call, lost>>
    BY DEF StartTick, now, e
  <1> QED
    BY <1>1, <1>3, <1>4, TickGoesOn

\* The runs a tick has not seen to yet.
LEMMA OthersState ==
  ASSUME TypeOK, NEW k \in Ticks, tick[k].pc \in {"reaping", "expiring"}, NEW r
  PROVE  LET now == Others(tick[k].now, r) IN
         /\ DOMAIN tick[k].now \in SUBSET Runs
         /\ DOMAIN now \in SUBSET Runs
         /\ Reaping(now) \in TickState(DOMAIN now)
         /\ Reaping(now).pc \notin {"expiring", "chosen"}
  <1> DEFINE now == Others(tick[k].now, r)
             e == DOMAIN tick[k].now \ {r}
  <1>1. DOMAIN tick[k].now \in SUBSET Runs /\ tick[k].now \in [DOMAIN tick[k].now -> 0..(MaxBeats + 1)]
    BY TickShape
  <1>2. now \in [e -> 0..(MaxBeats + 1)] /\ e \in SUBSET Runs /\ DOMAIN now = e
    BY <1>1 DEF Others, Restrict
  <1> HIDE DEF now, e
  <1>3. Reaping(now) \in TickState(e) /\ Reaping(now).pc \notin {"expiring", "chosen"}
    BY <1>2, ReapingState
  <1> QED
    BY <1>1, <1>2, <1>3 DEF now

\* settle computes an outcome, for a run that holds its job and its slot.
LEMMA OutcomeComputed ==
  ASSUME TypeOK, RowsSound, NEW r \in Runs, NEW outcome \in {"completed", "failed", "error"},
         JobHolds(r)
  PROVE  LET b == SettleBatch(r, outcome) IN
         b \in Batch /\ WriteSound(r, b) /\ Outcome(r, b) /\ b.row.revision = job[r[1]].revision + 1
  <1> DEFINE w == job[r[1]]
             status == IF w.cancel THEN "cancelled"
                       ELSE IF outcome # "error" THEN outcome
                       ELSE IF w.attempt >= MaxAttempts THEN "failed" ELSE "queued"
             next == [w EXCEPT !.status = status, !.slot = NoSlot, !.beat = 0, !.revision = @ + 1]
             s == w.slot
             free == [run |-> NoRun, beat |-> 0, revision |-> slot[s].revision + 1]
  <1>1. r[1] \in Jobs /\ r[2] \in 1..MaxAttempts /\ w \in JobRow
    BY RunsArePairs DEF TypeOK
  <1>2. w.status = "running" /\ w.attempt = r[2] /\ s \in Slots
    BY <1>1 DEF JobHolds, RowsSound, JobSound
  <1>3. /\ status \in Terminal \cup {"queued"}
        /\ status = "queued" => w.attempt < MaxAttempts
    BY <1>1, RowShape, QueueConstants DEF Terminal
  <1>4. w.revision + 1 \in Nat /\ 0 \in 0..MaxBeats
    BY <1>1, RowShape, QueueConstants
  <1>5. free \in SlotRow
    <2>1. slot[s] \in SlotRow
      BY <1>2 DEF TypeOK
    <2> QED
      BY <1>4, <2>1 DEF SlotRow
  <1>6. SettleBatch(r, outcome) = [row |-> next, slot |-> s, slotRow |-> free]
    BY DEF SettleBatch, Settled
  <1> HIDE DEF status, s, free, w
  <1>7. /\ next \in JobRow /\ next.status = status /\ next.attempt = w.attempt
        /\ next.revision = w.revision + 1
    BY <1>1, <1>3, <1>4 DEF JobRow
  <1> HIDE DEF next
  <1>8. free.run = NoRun
    BY DEF free
  <1> QED
    BY <1>2, <1>3, <1>5, <1>6, <1>7, <1>8 DEF Batch, WriteSound, Outcome, w

LEMMA ExpiredRunRead ==
  ASSUME IInv, NEW k \in Ticks, NEW r \in Runs, ReapRead(k, r)
  PROVE  IInv' /\ LifecycleStep
  <1>0. TypeOK /\ RowsSound
    BY DEF IInv, Sound
  <1> DEFINE now == tick[k].now
             b == SettleBatch(r, "error")
             t == [pc |-> "expiring", now |-> now, run |-> r, write |-> b]
  <1>1. tick[k].pc = "reaping" /\ r \in DOMAIN now /\ UNCHANGED <<rows, lapsed, node, work, call, lost>>
    BY DEF ReapRead
  <1>2. CASE tick' = [tick EXCEPT ![k] = Reaping(Others(now, r))]
    BY <1>0, <1>1, <1>2, OthersState, TickGoesOn
  <1>3. CASE JobHolds(r) /\ tick' = [tick EXCEPT ![k] = t]
    <2>1. UNCHANGED <<job, slot, lapsed, node, host, beating, settling, call, lost>>
      BY <1>1 DEF rows, work
    <2>2. b \in Batch /\ WriteSound(r, b) /\ b.row.revision = job[r[1]].revision + 1
      BY <1>0, <1>3, OutcomeComputed
    <2> HIDE DEF b
    <2>3. TypeOK'
      <3>1. /\ DOMAIN now \in SUBSET Runs
            /\ now \in [DOMAIN now -> 0..(MaxBeats + 1)]
        BY <1>0, <1>1, TickShape
      <3>2. t \in TickState(DOMAIN now)
        BY <1>1, <2>2, <3>1 DEF TickState, Clock
      <3> HIDE DEF t
      <3> QED
        BY <1>0, <1>3, <2>1, <3>1, <3>2, TickMoves DEF TypeOK
    <2>4. tick'[k] = t /\ \A i \in Ticks \ {k} : tick'[i] = tick[i]
      BY <1>0, <1>3 DEF TypeOK
    <2>5. \A q \in Runs : \A c \in Writes(q)' : c \in Writes(q) \/ (q = r /\ c = b)
      BY <2>1, <2>4 DEF Writes
    <2>6. \A j \in Jobs : Choices(j)' \subseteq Choices(j)
      BY <2>4 DEF Choices
    <2> QED
      BY <1>3, <2>1, <2>2, <2>3, <2>5, <2>6, RowsStay DEF IInv
  <1> QED
    BY <1>2, <1>3 DEF ReapRead

LEMMA ExpiredRunWritten ==
  ASSUME IInv, KindsSound, NEW k \in Ticks, ReapWrite(k)
  PROVE  IInv' /\ LifecycleStep
  <1>0. TypeOK /\ RowsSound
    BY DEF IInv, Sound
  <1> DEFINE r == tick[k].run
             b == tick[k].write
             t == Reaping(Others(tick[k].now, r))
  <1>1. tick[k].pc = "expiring" /\ tick' = [tick EXCEPT ![k] = t] /\ UNCHANGED <<node, work, call, lost>>
    BY DEF ReapWrite
  <1>2. r \in Runs /\ b \in Batch
    BY <1>0, <1>1, TickShape
  <1>3. /\ DOMAIN Others(tick[k].now, r) \in SUBSET Runs
        /\ t \in TickState(DOMAIN Others(tick[k].now, r)) /\ t.pc \notin {"expiring", "chosen"}
    BY <1>0, <1>1, OthersState
  <1> HIDE DEF t
  <1>4. CASE UNCHANGED <<rows, lapsed>>
    BY <1>1, <1>3, <1>4, TickGoesOn
  <1>5. CASE Holds(b.slot, r) /\ Release(r, b)
    <2>1. Apply(r[1], b) /\ lapsed' = [lapsed EXCEPT ![r] = 0]
      BY <1>5 DEF Release
    <2>2. UNCHANGED <<node, host, beating, settling, call, lost>>
      BY <1>1 DEF work
    <2>3. b \in Writes(r) /\ ~ Renewal(r, b)
      BY <1>1, <1>2, QueueConstants DEF Writes, KindsSound, Outcome, Renewal, Terminal
    <2>4. TypeOK'
      <3>1. r[1] \in Jobs /\ b.row \in JobRow /\ b.slot \in Slots /\ b.slotRow \in SlotRow
        BY <1>2, RunsArePairs, BatchShape
      <3>2. job' \in [Jobs -> JobRow] /\ slot' \in [Slots -> SlotRow]
        BY <1>0, <2>1, <3>1 DEF TypeOK, Apply
      <3>3. lapsed' \in Clock(Runs)
        <4>1. 0 \in 0..(MaxBeats + 1)
          BY QueueConstants
        <4>2. lapsed \in [Runs -> 0..(MaxBeats + 1)]
          BY <1>0 DEF TypeOK, Clock
        <4> QED
          BY <2>1, <4>1, <4>2 DEF Clock
      <3> QED
        BY <1>0, <1>1, <1>3, <2>2, <3>2, <3>3, TickMoves DEF TypeOK
    <2>5. /\ \A q \in Runs : Writes(q)' \subseteq Writes(q)
          /\ \A j \in Jobs : Choices(j)' \subseteq Choices(j)
      BY <1>0, <1>1, <1>3, <2>2, TickHoldsNothing
    <2> QED
      BY <1>2, <1>5, <2>1, <2>2, <2>3, <2>4, <2>5, BatchApplied DEF IInv
  <1> QED
    BY <1>4, <1>5 DEF ReapWrite

LEMMA SlotsRead ==
  ASSUME IInv, NEW k \in Ticks, ReadSlots(k)
  PROVE  IInv' /\ LifecycleStep
  <1> DEFINE t == [pc |-> "claiming", seen |-> slot, left |-> Slots]
  <1>1. t \in TickState({})
    BY DEF IInv, TypeOK, TickState
  <1>2. tick' = [tick EXCEPT ![k] = t] /\ UNCHANGED <<rows, lapsed, node, work, call, lost>>
    BY DEF ReadSlots
  <1>3. t.pc \notin {"expiring", "chosen"}
    OBVIOUS
  <1> HIDE DEF t
  <1> QED
    BY <1>1, <1>2, <1>3, TickGoesOn

LEMMA SlotSkipped ==
  ASSUME IInv, NEW k \in Ticks, NEW s \in Slots, SkipSlot(k, s)
  PROVE  IInv' /\ LifecycleStep
  <1>1. /\ tick[k].pc = "claiming" /\ tick' = [tick EXCEPT ![k] = After(tick[k], s)]
        /\ UNCHANGED <<rows, lapsed, node, work, call, lost>>
    BY DEF SkipSlot
  <1> DEFINE t == After(tick[k], s)
  <1>2. t \in TickState({}) /\ t.pc \notin {"expiring", "chosen"} /\ {} \in SUBSET Runs
    BY <1>1, AfterState DEF IInv
  <1>3. tick' = [tick EXCEPT ![k] = t]
    BY <1>1
  <1> HIDE DEF t
  <1> QED
    BY <1>1, <1>2, <1>3, TickGoesOn

LEMMA CandidateRead ==
  ASSUME IInv, NEW k \in Ticks, NEW s \in Slots, NEW j \in Jobs, ClaimRead(k, s, j)
  PROVE  IInv' /\ LifecycleStep
  <1>0. TypeOK
    BY DEF IInv
  <1> DEFINE t == [pc |-> "chosen", seen |-> tick[k].seen, left |-> tick[k].left,
                   slot |-> s, job |-> j, row |-> job[j]]
  <1>1. /\ tick[k].pc = "claiming" /\ tick' = [tick EXCEPT ![k] = t]
        /\ job[j].status = "queued" /\ UNCHANGED <<rows, lapsed, node, work, call, lost>>
    BY DEF ClaimRead, Candidates
  <1>2. UNCHANGED <<job, slot, lapsed, node, host, beating, settling, call, lost>>
    BY <1>1 DEF rows, work
  <1>3. t \in TickState({})
    <2>1. tick[k].seen \in [Slots -> SlotRow] /\ tick[k].left \in SUBSET Slots
      BY <1>0, <1>1, TickShape
    <2>2. job[j] \in JobRow
      BY <1>0 DEF TypeOK
    <2> QED
      BY <2>1, <2>2 DEF TickState
  <1>4. TypeOK'
    <2> HIDE DEF t
    <2> QED
      BY <1>0, <1>1, <1>2, <1>3, TickMoves DEF TypeOK
  <1>5. tick'[k] = t /\ \A i \in Ticks \ {k} : tick'[i] = tick[i]
    BY <1>0, <1>1 DEF TypeOK
  <1>6. \A q \in Runs : Writes(q)' \subseteq Writes(q)
    BY <1>2, <1>5 DEF Writes
  <1>7. \A i \in Jobs : \A w \in Choices(i)' : w \in Choices(i) \/ (i = j /\ w = job[j])
    BY <1>5 DEF Choices
  <1> QED
    BY <1>1, <1>2, <1>4, <1>6, <1>7, RowsStay DEF IInv

\* A claim: the revision vouches for the attempt, as ChoiceSound says.
LEMMA JobClaimed ==
  ASSUME IInv, NEW k \in Ticks, ClaimWrite(k)
  PROVE  IInv' /\ LifecycleStep
  <1>0. TypeOK /\ RowsSound /\ SlotRunsItsJob /\ WritesSound /\ ChoicesSound /\ CallsSound
    BY DEF IInv, Sound
  <1> DEFINE j == tick[k].job
             old == tick[k].row
             s == tick[k].slot
             r == <<j, old.attempt + 1>>
             w == [old EXCEPT !.status = "running", !.attempt = @ + 1, !.slot = s, !.beat = 0,
                              !.revision = @ + 1]
             v == [run |-> r, beat |-> 0, revision |-> tick[k].seen[s].revision + 1]
             t == After(tick[k], s)
  <1>1. /\ tick[k].pc = "chosen" /\ tick' = [tick EXCEPT ![k] = t]
        /\ UNCHANGED <<lapsed, node, beating, settling, call, lost>>
    BY DEF ClaimWrite
  <1>2. j \in Jobs /\ old \in JobRow /\ s \in Slots /\ tick[k].seen \in [Slots -> SlotRow]
    BY <1>0, <1>1, TickShape
  <1>3. t \in TickState({}) /\ t.pc \notin {"expiring", "chosen"} /\ {} \in SUBSET Runs
    BY <1>0, <1>1, AfterState
  <1> HIDE DEF t
  <1>4. /\ \A q \in Runs : Writes(q)' \subseteq Writes(q)
        /\ \A i \in Jobs : Choices(i)' \subseteq Choices(i)
    BY <1>0, <1>1, <1>3, TickHoldsNothing
  <1>5. CASE UNCHANGED <<rows, host>>
    <2>1. UNCHANGED <<rows, lapsed, node, work, call, lost>>
      BY <1>1, <1>5 DEF work
    <2> QED
      BY <1>1, <1>3, <2>1, TickGoesOn
  <1>6. CASE /\ job[j].status = "queued" /\ job[j].revision = old.revision
             /\ job' = [job EXCEPT ![j] = w] /\ slot' = [slot EXCEPT ![s] = v]
             /\ host' = [host EXCEPT ![r] = TickNode[k]]
    <2>1. ChoiceSound(j, old)
      BY <1>0, <1>1, <1>2 DEF ChoicesSound, Choices
    <2>2. Intact(j) => job[j] = old
      <3>1. job[j].revision \in Nat
        BY <1>0, <1>2, RowShape DEF TypeOK
      <3> QED
        BY <1>6, <2>1, <3>1 DEF ChoiceSound, Ahead, Over, Terminal
    <2>3. old.attempt \in Nat /\ old.attempt < MaxAttempts /\ old.revision \in Nat
      BY <1>2, <2>1, RowShape, QueueConstants DEF ChoiceSound
    <2>4. r \in Runs /\ r[1] = j /\ r[2] = old.attempt + 1
      BY <1>2, <2>3, QueueConstants DEF Runs
    <2>5. /\ w \in JobRow /\ w.status = "running" /\ w.attempt = old.attempt + 1 /\ w.slot = s
          /\ w.beat = 0 /\ w.revision = old.revision + 1
      <3>1. old.attempt + 1 \in 0..MaxAttempts /\ 0 \in 0..MaxBeats /\ old.revision + 1 \in Nat
        BY <2>3, QueueConstants
      <3> QED
        BY <1>2, <3>1 DEF JobRow
    <2>6. v \in SlotRow /\ v.run = r /\ v.beat = 0
      <3>1. tick[k].seen[s].revision + 1 \in Nat /\ 0 \in 0..MaxBeats
        BY <1>2, QueueConstants DEF SlotRow
      <3> HIDE DEF r
      <3> QED
        BY <2>4, <3>1 DEF SlotRow
    <2> HIDE DEF w, v
    <2>7. /\ job'[j] = w /\ \A i \in Jobs \ {j} : job'[i] = job[i]
          /\ slot'[s] = v /\ \A i \in Slots \ {s} : slot'[i] = slot[i]
      BY <1>0, <1>2, <1>6 DEF TypeOK
    <2>8. TypeOK'
      <3>1. job' \in [Jobs -> JobRow] /\ slot' \in [Slots -> SlotRow]
        BY <1>0, <1>2, <1>6, <2>5, <2>6 DEF TypeOK
      <3>2. host' \in [Runs -> Nodes \cup {NoNode}]
        <4>1. TickNode[k] \in Nodes
          BY QueueConstants
        <4> HIDE DEF r
        <4> QED
          BY <1>0, <1>6, <2>4, <4>1 DEF TypeOK
      <3> QED
        BY <1>0, <1>1, <1>3, <3>1, <3>2, TickMoves DEF TypeOK
    <2> HIDE DEF r
    <2>9. RowsSound'
      BY <1>0, <1>2, <2>5, <2>7 DEF RowsSound, JobSound
    <2>10. SlotRunsItsJob'
      <3> SUFFICES ASSUME NEW i \in Slots, slot'[i].run # NoRun, Intact(slot'[i].run[1])
                   PROVE  /\ JobHolds(slot[i].run)' /\ job'[slot'[i].run[1]].slot = i
                          /\ job'[slot'[i].run[1]].beat <= slot'[i].beat
        BY <1>1 DEF SlotRunsItsJob, Intact
      <3>1. CASE i = s
        BY <2>4, <2>5, <2>6, <2>7, <3>1 DEF JobHolds
      <3>2. CASE i # s
        <4>1. slot'[i] = slot[i] /\ slot[i].run \in Runs
          BY <1>0, <2>7, <3>2 DEF TypeOK, SlotRow
        <4>2. slot[i].run[1] \in Jobs /\ slot[i].run[1] # j
          BY <1>0, <1>6, <4>1, RunsArePairs DEF SlotRunsItsJob, JobHolds
        <4> QED
          BY <1>0, <2>7, <4>1, <4>2 DEF SlotRunsItsJob, JobHolds
      <3> QED
        BY <3>1, <3>2
    <2>11. WritesSound'
      <3> SUFFICES ASSUME NEW q \in Runs, NEW c \in Writes(q)'
                   PROVE  WriteSound(q, c) /\ Begun(q)'
        BY DEF WritesSound
      <3>1. WriteSound(q, c) /\ Begun(q)
        BY <1>0, <1>4 DEF WritesSound
      <3>2. q[1] \in Jobs /\ q[2] \in Nat
        BY RunsArePairs
      <3> QED
        BY <1>1, <1>6, <2>2, <2>3, <2>5, <2>7, <3>1, <3>2 DEF Begun, Intact
    <2>12. ChoicesSound'
      <3> SUFFICES ASSUME NEW i \in Jobs, NEW c \in Choices(i)'
                   PROVE  ChoiceSound(i, c)'
        BY DEF ChoicesSound
      <3>1. c \in Choices(i) /\ ChoiceSound(i, c) /\ c \in JobRow
        BY <1>0, <1>4, ChoicesAreRows DEF ChoicesSound
      <3>2. c.attempt \in Nat /\ c.revision \in Nat
        BY <3>1, RowShape
      <3>3. ASSUME Intact(i) PROVE job'[i].status \in Over \/ job'[i] = c \/ Ahead(job'[i], c)
        <4>1. CASE i # j
          BY <2>7, <3>1, <3>3, <4>1 DEF ChoiceSound
        <4>2. CASE i = j
          <5>1. old = c \/ Ahead(old, c)
            BY <1>6, <2>2, <3>1, <3>3, <4>2 DEF ChoiceSound, Over, Terminal
          <5> QED
            BY <2>3, <2>5, <2>7, <3>2, <4>2, <5>1 DEF Ahead
        <4> QED
          BY <4>1, <4>2
      <3>4. Intact(i) => \A q \in Runs : q[1] = i /\ q[2] > c.attempt =>
              \A b \in Writes(q)' : b.row.revision > c.revision
        BY <1>4, <3>1 DEF ChoiceSound
      <3> QED
        BY <1>1, <3>1, <3>3, <3>4 DEF ChoiceSound, Intact
    <2>13. LifecycleStep
      BY <1>0, <1>1, <1>2, <1>6, <2>2, <2>3, <2>5, JobMoves
    <2>14. CallsSound'
      <3> SUFFICES ASSUME NEW i \in Jobs, NEW c \in Calls(i)'
                   PROVE  CallSound(i, c)'
        BY DEF CallsSound
      <3>1. CallSound(i, c) /\ c \in JobRow
        BY <1>0, <1>1, CallsAreRows DEF CallsSound, Calls
      <3>2. c.attempt \in Nat
        BY <3>1, RowShape
      <3>3. Intact(i) => job'[i].status = "deleted" \/ c.attempt <= job'[i].attempt
        BY <1>6, <2>2, <2>3, <2>5, <2>7, <3>1, <3>2 DEF CallSound
      <3>4. ASSUME Intact(i), c.status = "running",
                   NEW a \in Slots, slot'[a].run \in Runs /\ slot'[a].run = <<i, c.attempt>>
            PROVE  c.slot = a /\ c.beat <= slot'[a].beat
        <4>1. CASE a = s
          <5>1. r = <<i, c.attempt>>
            BY <2>6, <2>7, <3>4, <4>1
          <5>2. i = j /\ c.attempt = old.attempt + 1
            BY <2>4, <5>1
          <5>3. c.attempt <= old.attempt
            BY <1>6, <2>2, <3>1, <3>4, <5>2 DEF CallSound
          <5> QED
            BY <2>3, <5>2, <5>3
        <4>2. CASE a # s
          BY <2>7, <3>1, <3>4, <4>2 DEF CallSound
        <4> QED
          BY <4>1, <4>2
      <3> QED
        BY <1>1, <3>1, <3>3, <3>4 DEF CallSound, Intact
    <2> QED
      BY <2>8, <2>9, <2>10, <2>11, <2>12, <2>13, <2>14 DEF IInv, Sound
  <1> QED
    BY <1>5, <1>6 DEF ClaimWrite, rows

\* heartbeat computes a renewal, for a run that holds its job and its slot.
LEMMA RenewalComputed ==
  ASSUME TypeOK, RowsSound, NEW r \in Runs, HeartbeatRead(r)
  PROVE  \E b \in Batch :
           /\ Renewal(r, b) /\ b.row.attempt = r[2] /\ b.row.revision = job[r[1]].revision + 1
           /\ b.slot = job[r[1]].slot /\ b.slotRow.beat = slot[b.slot].beat + 1
           /\ slot[b.slot].run = r /\ beating' = [beating EXCEPT ![r] = b]
  <1> DEFINE old == job[r[1]]
             s == old.slot
             beat == slot[s].beat + 1
             w == [old EXCEPT !.beat = beat, !.revision = @ + 1]
             v == [slot[s] EXCEPT !.beat = beat, !.revision = @ + 1]
             b == [row |-> w, slot |-> s, slotRow |-> v]
  <1>1. /\ JobHolds(r) /\ SlotHolds(s, r) /\ beat <= MaxBeats
        /\ beating' = [beating EXCEPT ![r] = b]
    BY DEF HeartbeatRead
  <1>2. r[1] \in Jobs /\ r[2] \in 1..MaxAttempts /\ old \in JobRow
    BY RunsArePairs DEF TypeOK
  <1>3. old.status = "running" /\ old.attempt = r[2] /\ s \in Slots /\ slot[s].run = r
    BY <1>1, <1>2 DEF JobHolds, SlotHolds, RowsSound, JobSound
  <1>4. slot[s] \in SlotRow
    BY <1>3 DEF TypeOK
  <1>5. beat \in 0..MaxBeats /\ old.revision + 1 \in Nat /\ slot[s].revision + 1 \in Nat
    BY <1>1, <1>2, <1>4, RowShape, QueueConstants DEF SlotRow
  <1> HIDE DEF beat
  <1>6. /\ w \in JobRow /\ w.status = "running" /\ w.attempt = r[2] /\ w.slot = s
        /\ w.beat = beat /\ w.revision = old.revision + 1
    BY <1>2, <1>3, <1>5 DEF JobRow
  <1>7. v \in SlotRow /\ v.run = r /\ v.beat = beat
    BY <1>3, <1>4, <1>5 DEF SlotRow
  <1> HIDE DEF w, v, s
  <1>8. /\ b \in Batch /\ b.row = w /\ b.slot = s /\ b.slotRow = v
    BY <1>3, <1>6, <1>7 DEF Batch
  <1> HIDE DEF b
  <1> QED
    BY <1>1, <1>3, <1>6, <1>7, <1>8 DEF Renewal, beat, s

LEMMA LeaseRead ==
  ASSUME IInv, NEW r \in Runs, HeartbeatRead(r)
  PROVE  IInv' /\ LifecycleStep
  <1>0. TypeOK /\ RowsSound /\ SlotRunsItsJob
    BY DEF IInv, Sound
  <1>1. PICK b \in Batch :
          /\ Renewal(r, b) /\ b.row.attempt = r[2] /\ b.row.revision = job[r[1]].revision + 1
          /\ beating' = [beating EXCEPT ![r] = b]
    BY <1>0, RenewalComputed
  <1>2. JobHolds(r) /\ UNCHANGED <<job, slot, lapsed, node, host, settling, tick, call, lost>>
    BY DEF HeartbeatRead, rows
  <1>3. WriteSound(r, b)
    BY <1>1 DEF WriteSound
  <1>4. TypeOK'
    BY <1>0, <1>1, <1>2 DEF TypeOK
  <1>5. beating'[r] = b /\ \A q \in Runs \ {r} : beating'[q] = beating[q]
    BY <1>0, <1>1 DEF TypeOK
  <1>6. \A q \in Runs : \A c \in Writes(q)' : c \in Writes(q) \/ (q = r /\ c = b)
    BY <1>2, <1>5 DEF Writes
  <1>7. \A i \in Jobs : Choices(i)' \subseteq Choices(i)
    BY <1>2 DEF Choices
  <1> QED
    BY <1>1, <1>2, <1>3, <1>4, <1>6, <1>7, RowsStay DEF IInv

LEMMA LeaseWritten ==
  ASSUME IInv, BeatsSound, NEW r \in Runs, HeartbeatWrite(r)
  PROVE  IInv' /\ LifecycleStep
  <1>0. TypeOK
    BY DEF IInv
  <1>1. /\ beating[r] # NoWrite /\ beating' = [beating EXCEPT ![r] = NoWrite]
        /\ UNCHANGED <<lapsed, node, host, settling, tick, call, lost>>
    BY DEF HeartbeatWrite
  <1>2. beating'[r] = NoWrite /\ \A q \in Runs \ {r} : beating'[q] = beating[q]
    BY <1>0, <1>1 DEF TypeOK
  <1>3. \A q \in Runs : Writes(q)' \subseteq Writes(q)
    BY <1>1, <1>2 DEF Writes
  <1>4. \A i \in Jobs : Choices(i)' \subseteq Choices(i)
    BY <1>1 DEF Choices
  <1>5. beating[r] \in Batch /\ beating[r] \in Writes(r) /\ r[1] \in Jobs
    BY <1>0, <1>1, RunsArePairs DEF TypeOK, Writes
  <1>6. beating' \in [Runs -> Batch \cup {NoWrite}]
    BY <1>0, <1>1 DEF TypeOK
  <1>7. CASE Holds(beating[r].slot, r) /\ Apply(r[1], beating[r])
    <2>1. job' \in [Jobs -> JobRow] /\ slot' \in [Slots -> SlotRow]
      BY <1>0, <1>5, <1>7, BatchShape DEF TypeOK, Apply
    <2>2. TypeOK'
      BY <1>0, <1>1, <1>6, <2>1 DEF TypeOK
    <2>3. Intact(r[1]) => slot[beating[r].slot].beat <= beating[r].slotRow.beat
      BY <1>1, <1>5, <1>7, BatchShape DEF BeatsSound, Holds, SlotHolds
    <2> QED
      BY <1>1, <1>3, <1>4, <1>5, <1>7, <2>2, <2>3, BatchApplied DEF IInv
  <1>8. CASE UNCHANGED rows
    <2>1. UNCHANGED <<job, slot>>
      BY <1>8 DEF rows
    <2>2. TypeOK'
      BY <1>0, <1>1, <1>6, <2>1 DEF TypeOK
    <2> QED
      BY <1>1, <1>3, <1>4, <2>1, <2>2, RowsStay DEF IInv
  <1> QED
    BY <1>7, <1>8 DEF HeartbeatWrite

\* A step that touches neither the rows nor what is in flight, or only throws it away.
LEMMA NothingWritten ==
  ASSUME IInv, UNCHANGED <<job, slot, call, lost>>, TypeOK',
         \A r \in Runs : Writes(r)' \subseteq Writes(r),
         \A j \in Jobs : Choices(j)' \subseteq Choices(j)
  PROVE  IInv' /\ LifecycleStep
  BY RowsStay DEF IInv

LEMMA WorkerEnded ==
  ASSUME IInv, NEW r \in Runs, NEW outcome \in {"completed", "failed", "error"}, WorkerDone(r, outcome)
  PROVE  IInv' /\ LifecycleStep
  <1>0. TypeOK /\ RowsSound
    BY DEF IInv, Sound
  <1> DEFINE b == SettleBatch(r, outcome)
  <1>1. UNCHANGED <<job, slot, lapsed, node, beating, tick, call, lost>>
    BY DEF WorkerDone, rows
  <1>2. \A i \in Jobs : Choices(i)' \subseteq Choices(i)
    BY <1>1 DEF Choices
  <1>3. CASE JobHolds(r) /\ settling' = [settling EXCEPT ![r] = b] /\ UNCHANGED host
    <2>1. b \in Batch /\ WriteSound(r, b) /\ b.row.revision = job[r[1]].revision + 1
      BY <1>0, <1>3, OutcomeComputed
    <2> HIDE DEF b
    <2>2. TypeOK'
      BY <1>0, <1>1, <1>3, <2>1 DEF TypeOK
    <2>3. settling'[r] = b /\ \A q \in Runs \ {r} : settling'[q] = settling[q]
      BY <1>0, <1>3 DEF TypeOK
    <2>4. \A q \in Runs : \A c \in Writes(q)' : c \in Writes(q) \/ (q = r /\ c = b)
      BY <1>1, <2>3 DEF Writes
    <2> QED
      BY <1>1, <1>2, <1>3, <2>1, <2>2, <2>4, RowsStay DEF IInv
  <1>4. CASE RunOver(r) /\ UNCHANGED settling
    <2>1. TypeOK'
      BY <1>0, <1>1, <1>4 DEF TypeOK, RunOver
    <2>2. \A q \in Runs : Writes(q)' \subseteq Writes(q)
      BY <1>1, <1>4 DEF Writes
    <2> QED
      BY <1>1, <1>2, <2>1, <2>2, NothingWritten
  <1> QED
    BY <1>3, <1>4 DEF WorkerDone

LEMMA OutcomeWritten ==
  ASSUME IInv, KindsSound, NEW r \in Runs, SettleWrite(r)
  PROVE  IInv' /\ LifecycleStep
  <1>0. TypeOK
    BY DEF IInv
  <1>1. /\ settling[r] # NoWrite /\ settling' = [settling EXCEPT ![r] = NoWrite]
        /\ host' = [host EXCEPT ![r] = NoNode]
        /\ UNCHANGED <<node, beating, tick, call, lost>>
    BY DEF SettleWrite, RunOver
  <1>2. settling'[r] = NoWrite /\ \A q \in Runs \ {r} : settling'[q] = settling[q]
    BY <1>0, <1>1 DEF TypeOK
  <1>3. \A q \in Runs : Writes(q)' \subseteq Writes(q)
    BY <1>1, <1>2 DEF Writes
  <1>4. \A i \in Jobs : Choices(i)' \subseteq Choices(i)
    BY <1>1 DEF Choices
  <1>5. settling[r] \in Batch /\ settling[r] \in Writes(r) /\ r[1] \in Jobs
    BY <1>0, <1>1, RunsArePairs DEF TypeOK, Writes
  <1>6. settling' \in [Runs -> Batch \cup {NoWrite}] /\ host' \in [Runs -> Nodes \cup {NoNode}]
    BY <1>0, <1>1 DEF TypeOK
  <1>7. CASE Holds(settling[r].slot, r) /\ Release(r, settling[r])
    <2>1. Apply(r[1], settling[r]) /\ lapsed' = [lapsed EXCEPT ![r] = 0]
      BY <1>7 DEF Release
    <2>2. job' \in [Jobs -> JobRow] /\ slot' \in [Slots -> SlotRow]
      BY <1>0, <1>5, <2>1, BatchShape DEF TypeOK, Apply
    <2>3. lapsed' \in Clock(Runs)
      <3>1. 0 \in 0..(MaxBeats + 1)
        BY QueueConstants
      <3>2. lapsed \in [Runs -> 0..(MaxBeats + 1)]
        BY <1>0 DEF TypeOK, Clock
      <3> QED
        BY <2>1, <3>1, <3>2 DEF Clock
    <2>4. TypeOK'
      BY <1>0, <1>1, <1>6, <2>2, <2>3 DEF TypeOK
    <2>5. ~ Renewal(r, settling[r])
      BY <1>1, QueueConstants DEF KindsSound, Outcome, Renewal, Terminal
    <2> QED
      BY <1>1, <1>3, <1>4, <1>5, <1>7, <2>1, <2>4, <2>5, BatchApplied DEF IInv
  <1>8. CASE UNCHANGED <<rows, lapsed>>
    <2>1. UNCHANGED <<job, slot, lapsed>>
      BY <1>8 DEF rows
    <2>2. TypeOK'
      BY <1>0, <1>1, <1>6, <2>1 DEF TypeOK
    <2> QED
      BY <1>1, <1>3, <1>4, <2>1, <2>2, NothingWritten
  <1> QED
    BY <1>7, <1>8 DEF SettleWrite

LEMMA RunAbandoned ==
  ASSUME IInv, NEW r \in Runs, Abandon(r)
  PROVE  IInv' /\ LifecycleStep
  <1>1. /\ host' = [host EXCEPT ![r] = NoNode]
        /\ UNCHANGED <<job, slot, lapsed, node, beating, settling, tick, call, lost>>
    BY DEF Abandon, RunOver, rows
  <1>2. TypeOK'
    BY <1>1 DEF IInv, TypeOK
  <1>3. /\ \A q \in Runs : Writes(q)' \subseteq Writes(q)
        /\ \A i \in Jobs : Choices(i)' \subseteq Choices(i)
    BY <1>1 DEF Writes, Choices
  <1> QED
    BY <1>1, <1>2, <1>3, NothingWritten

LEMMA LeaseExpired ==
  ASSUME IInv, NEW r \in Runs, LeaseExpires(r)
  PROVE  IInv' /\ LifecycleStep
  <1>0. TypeOK
    BY DEF IInv
  <1>1. /\ lapsed' = [lapsed EXCEPT ![r] = @ + 1]
        /\ lapsed[r] <= job[r[1]].beat \/ \E s \in Slots : lapsed[r] <= slot[s].beat
        /\ UNCHANGED <<job, slot, node, host, beating, settling, tick, call, lost>>
    BY DEF LeaseExpires, rows, work
  <1>2. lapsed' \in Clock(Runs)
    <2>1. lapsed \in [Runs -> 0..(MaxBeats + 1)]
      BY <1>0 DEF TypeOK, Clock
    <2>2. job[r[1]].beat \in 0..MaxBeats /\ \A s \in Slots : slot[s].beat \in 0..MaxBeats
      BY <1>0, RunsArePairs, RowShape DEF TypeOK, SlotRow
    <2>3. lapsed[r] + 1 \in 0..(MaxBeats + 1)
      BY <1>1, <2>1, <2>2, QueueConstants
    <2> QED
      BY <1>1, <2>1, <2>3 DEF Clock
  <1>3. TypeOK'
    BY <1>0, <1>1, <1>2 DEF TypeOK
  <1>4. /\ \A q \in Runs : Writes(q)' \subseteq Writes(q)
        /\ \A i \in Jobs : Choices(i)' \subseteq Choices(i)
    BY <1>1 DEF Writes, Choices
  <1> QED
    BY <1>1, <1>3, <1>4, NothingWritten

LEMMA NodeCloses ==
  ASSUME IInv, NEW n \in Nodes, Close(n) \/ GraceOver(n)
  PROVE  IInv' /\ LifecycleStep
  <1>1. UNCHANGED <<job, slot, lapsed, host, beating, settling, tick, call, lost>>
    BY DEF Close, GraceOver, rows, work
  <1>2. TypeOK'
    BY <1>1 DEF Close, GraceOver, IInv, TypeOK
  <1>3. /\ \A q \in Runs : Writes(q)' \subseteq Writes(q)
        /\ \A i \in Jobs : Choices(i)' \subseteq Choices(i)
    BY <1>1 DEF Writes, Choices
  <1> QED
    BY <1>1, <1>2, <1>3, NothingWritten

LEMMA NodeExits ==
  ASSUME IInv, NEW n \in Nodes, Exit(n)
  PROVE  IInv' /\ LifecycleStep
  <1>0. TypeOK
    BY DEF IInv
  <1>1. /\ node' = [node EXCEPT ![n] = "down"]
        /\ tick' = [k \in Ticks |-> IF TickNode[k] = n THEN Idle ELSE tick[k]]
        /\ host' = [r \in Runs |-> IF host[r] = n THEN NoNode ELSE host[r]]
        /\ settling' = [r \in Runs |-> IF host[r] = n THEN NoWrite ELSE settling[r]]
        /\ beating' = [r \in Runs |-> IF host[r] = n THEN NoWrite ELSE beating[r]]
        /\ UNCHANGED <<job, slot, lapsed, call, lost>>
    BY DEF Exit, rows
  <1>2. DOMAIN tick' = Ticks /\ \A k \in Ticks : \E e \in SUBSET Runs : tick'[k] \in TickState(e)
    <2>1. Idle \in TickState({}) /\ {} \in SUBSET Runs
      BY DEF Idle, TickState
    <2> HIDE DEF Idle
    <2> QED
      BY <1>0, <1>1, <2>1 DEF TypeOK
  <1>3. TypeOK'
    BY <1>0, <1>1, <1>2 DEF TypeOK
  <1>4. \A q \in Runs : Writes(q)' \subseteq Writes(q)
    BY <1>1 DEF Writes, Idle
  <1>5. \A i \in Jobs : Choices(i)' \subseteq Choices(i)
    BY <1>1 DEF Choices, Idle
  <1> QED
    BY <1>1, <1>3, <1>4, <1>5, NothingWritten

-----------------------------------------------------------------------------
LEMMA Inductive == IInv /\ InFlightSound /\ [Next]_vars => IInv' /\ LifecycleStep
  <1> SUFFICES ASSUME IInv, InFlightSound, [Next]_vars PROVE IInv' /\ LifecycleStep
    OBVIOUS
  <1>1. ASSUME NEW j \in Jobs, Enqueue(j) PROVE IInv' /\ LifecycleStep
    BY <1>1, Enqueued
  <1>2. ASSUME NEW x \in Cancellers, CancelWrite(x) \/ \E j \in Jobs : CancelRead(x, j)
        PROVE  IInv' /\ LifecycleStep
    BY <1>2, CallStarted, CallMarks
  <1>3. ASSUME NEW k \in Ticks, TickStep(k) PROVE IInv' /\ LifecycleStep
    BY <1>3, TickStarted, ExpiredRunRead, ExpiredRunWritten, SlotsRead, SlotSkipped, CandidateRead,
       JobClaimed DEF TickStep, InFlightSound
  <1>4. ASSUME NEW k \in Ticks, NEW j \in Jobs, DeleteExpired(k, j) PROVE IInv' /\ LifecycleStep
    BY <1>4, Deleted
  <1>5. ASSUME NEW r \in Runs, HeartbeatRead(r) \/ HeartbeatWrite(r) PROVE IInv' /\ LifecycleStep
    BY <1>5, LeaseRead, LeaseWritten DEF InFlightSound
  <1>6. ASSUME NEW r \in Runs, RunEnds(r) PROVE IInv' /\ LifecycleStep
    BY <1>6, OutcomeWritten, RunAbandoned, WorkerEnded DEF RunEnds, InFlightSound
  <1>7. ASSUME NEW r \in Runs, LeaseExpires(r) PROVE IInv' /\ LifecycleStep
    BY <1>7, LeaseExpired
  <1>8. ASSUME NEW n \in Nodes, Close(n) \/ GraceOver(n) \/ Exit(n) PROVE IInv' /\ LifecycleStep
    BY <1>8, NodeCloses, NodeExits
  <1>9. CASE UNCHANGED vars
    <2>1. UNCHANGED <<job, slot, lapsed, node, host, beating, settling, tick, call, lost>>
      BY <1>9 DEF vars, rows, work
    <2>2. TypeOK'
      BY <2>1 DEF IInv, TypeOK
    <2>3. /\ \A q \in Runs : Writes(q)' \subseteq Writes(q)
          /\ \A i \in Jobs : Choices(i)' \subseteq Choices(i)
      BY <2>1 DEF Writes, Choices
    <2> QED
      BY <2>1, <2>2, <2>3, NothingWritten
  <1> QED
    BY <1>1, <1>2, <1>3, <1>4, <1>5, <1>6, <1>7, <1>8, <1>9 DEF Next

\* What is in flight stays what it is.
LEMMA KindsStay == IInv /\ KindsSound /\ [Next]_vars => KindsSound'
  <1> SUFFICES ASSUME IInv, KindsSound, [Next]_vars PROVE KindsSound'
    OBVIOUS
  <1>0. TypeOK /\ RowsSound
    BY DEF IInv, Sound
  <1>1. CASE /\ \A r \in Runs : /\ beating'[r] \in {beating[r], NoWrite}
                                /\ settling'[r] \in {settling[r], NoWrite}
             /\ \A k \in Ticks : tick'[k] = tick[k] \/ tick'[k].pc # "expiring"
    BY <1>1 DEF KindsSound
  <1>2. CASE UNCHANGED <<beating, settling, tick>>
    BY <1>1, <1>2
  <1>3. ASSUME NEW k \in Ticks, TickStep(k) PROVE KindsSound'
    <2>1. UNCHANGED <<beating, settling>>
      BY <1>3 DEF TickStep, StartTick, ReapRead, ReapWrite, ReadSlots, SkipSlot, ClaimRead, ClaimWrite, work
    <2>2. ASSUME NEW t, t.pc # "expiring", tick' = [tick EXCEPT ![k] = t] PROVE KindsSound'
      <3>1. \A i \in Ticks : tick'[i] = tick[i] \/ tick'[i].pc # "expiring"
        BY <1>0, <2>2 DEF TypeOK
      <3> QED
        BY <1>1, <2>1, <3>1
    <2>3. \A now : Reaping(now).pc # "expiring"
      BY DEF Reaping
    <2>4. \A t, s : After(t, s).pc # "expiring"
      BY DEF After, Idle
    <2>5. ASSUME NEW r \in Runs, ReapRead(k, r) PROVE KindsSound'
      <3>1. PICK b : b = SettleBatch(r, "error")
        OBVIOUS
      <3>2. CASE tick' = [tick EXCEPT ![k] = Reaping(Others(tick[k].now, r))]
        BY <2>2, <2>3, <3>2
      <3>3. CASE JobHolds(r) /\ tick' = [tick EXCEPT ![k] = [pc |-> "expiring", now |-> tick[k].now,
                                                             run |-> r, write |-> b]]
        <4>1. Outcome(r, b) /\ r \in DOMAIN tick[k].now
          BY <1>0, <2>5, <3>1, <3>3, OutcomeComputed DEF ReapRead
        <4>2. /\ tick'[k].run = r /\ tick'[k].write = b /\ tick'[k].now = tick[k].now
              /\ \A i \in Ticks \ {k} : tick'[i] = tick[i]
          BY <1>0, <3>3 DEF TypeOK
        <4> QED
          BY <2>1, <4>1, <4>2 DEF KindsSound
      <3> QED
        BY <2>5, <3>1, <3>2, <3>3 DEF ReapRead
    <2>6. CASE StartTick(k) \/ ReapWrite(k)
      <3>1. \E now : tick' = [tick EXCEPT ![k] = Reaping(now)]
        BY <2>6 DEF StartTick, ReapWrite
      <3> QED
        BY <2>2, <2>3, <3>1
    <2>7. CASE ClaimWrite(k) \/ \E s \in Slots : SkipSlot(k, s)
      <3>1. \E s : tick' = [tick EXCEPT ![k] = After(tick[k], s)]
        BY <2>7 DEF ClaimWrite, SkipSlot
      <3> QED
        BY <2>2, <2>4, <3>1
    <2>8. CASE ReadSlots(k)
      BY <2>2, <2>8 DEF ReadSlots
    <2>9. CASE \E s \in Slots, j \in Jobs : ClaimRead(k, s, j)
      BY <2>2, <2>9 DEF ClaimRead
    <2> QED
      BY <1>3, <2>5, <2>6, <2>7, <2>8, <2>9 DEF TickStep
  <1>4. ASSUME NEW r \in Runs, HeartbeatRead(r) PROVE KindsSound'
    <2>1. PICK b : b \in Batch /\ Renewal(r, b) /\ beating' = [beating EXCEPT ![r] = b]
      BY <1>4, RenewalComputed DEF IInv, Sound
    <2>2. UNCHANGED <<settling, tick>>
      BY <1>4 DEF HeartbeatRead
    <2>3. beating'[r] = b /\ \A q \in Runs \ {r} : beating'[q] = beating[q]
      BY <1>0, <2>1 DEF TypeOK
    <2> QED
      BY <2>1, <2>2, <2>3 DEF KindsSound
  <1>5. ASSUME NEW r \in Runs, NEW outcome \in {"completed", "failed", "error"}, WorkerDone(r, outcome)
        PROVE KindsSound'
    <2>1. UNCHANGED <<beating, tick>>
      BY <1>5 DEF WorkerDone
    <2>2. PICK b : b = SettleBatch(r, outcome)
      OBVIOUS
    <2>3. CASE JobHolds(r) /\ settling' = [settling EXCEPT ![r] = b]
      <3>1. Outcome(r, b)
        BY <1>0, <2>2, <2>3, OutcomeComputed
      <3>2. settling'[r] = b /\ \A q \in Runs \ {r} : settling'[q] = settling[q]
        BY <1>0, <2>3 DEF TypeOK
      <3> QED
        BY <2>1, <3>1, <3>2 DEF KindsSound
    <2> QED
      BY <1>2, <1>5, <2>1, <2>2, <2>3 DEF WorkerDone
  <1>6. ASSUME NEW r \in Runs, HeartbeatWrite(r) \/ SettleWrite(r) PROVE KindsSound'
    <2>1. /\ \A q \in Runs : beating'[q] \in {beating[q], NoWrite} /\ settling'[q] \in {settling[q], NoWrite}
          /\ UNCHANGED tick
      BY <1>0, <1>6 DEF HeartbeatWrite, SettleWrite, TypeOK
    <2> QED
      BY <1>1, <2>1
  <1>7. ASSUME NEW n \in Nodes, Exit(n) PROVE KindsSound'
    <2>1. /\ \A q \in Runs : beating'[q] \in {beating[q], NoWrite} /\ settling'[q] \in {settling[q], NoWrite}
          /\ \A k \in Ticks : tick'[k] = tick[k] \/ tick'[k].pc # "expiring"
      BY <1>7 DEF Exit, Idle
    <2> QED
      BY <1>1, <2>1
  <1>8. CASE \/ \E j \in Jobs : Enqueue(j)
             \/ \E x \in Cancellers : CancelWrite(x) \/ \E j \in Jobs : CancelRead(x, j)
             \/ \E k \in Ticks, j \in Jobs : DeleteExpired(k, j)
             \/ \E r \in Runs : Abandon(r) \/ LeaseExpires(r)
             \/ \E n \in Nodes : Close(n) \/ GraceOver(n)
             \/ UNCHANGED vars
    <2>1. UNCHANGED <<beating, settling, tick>>
      BY <1>8 DEF Enqueue, CancelRead, CancelWrite, DeleteExpired, Abandon, LeaseExpires, Close, GraceOver,
         vars, work
    <2> QED
      BY <1>2, <2>1
  <1> QED
    BY <1>3, <1>4, <1>5, <1>6, <1>7, <1>8 DEF Next, RunEnds

\* So does the heartbeat that is the next one.
LEMMA BeatsStay == IInv /\ InFlightSound /\ [Next]_vars => BeatsSound'
  <1> SUFFICES ASSUME IInv, InFlightSound, [Next]_vars PROVE BeatsSound'
    OBVIOUS
  <1>0. TypeOK /\ RowsSound /\ SlotRunsItsJob /\ KindsSound /\ BeatsSound
    BY DEF IInv, Sound, InFlightSound
  <1>1. TypeOK' /\ \A r \in Runs : Intact(r[1])' => Intact(r[1])
    BY Inductive, RunsArePairs DEF IInv, LifecycleStep
  <1>2. \A r \in Runs : beating[r] # NoWrite => beating[r].slotRow.beat \in Nat
    <2>1. ASSUME NEW r \in Runs, beating[r] # NoWrite PROVE beating[r].slotRow.beat \in Nat
      <3>1. beating[r] \in Batch
        BY <1>0, <2>1 DEF TypeOK
      <3>2. beating[r].slotRow \in SlotRow
        BY <3>1, BatchShape
      <3> QED
        BY <3>2, QueueConstants DEF SlotRow
    <2> QED
      BY <2>1
  <1>3. CASE /\ \A r \in Runs : beating'[r] \in {beating[r], NoWrite}
             /\ \A s \in Slots : slot'[s] = slot[s] \/ slot'[s].run = NoRun \/ slot'[s].beat = 0
    <2> SUFFICES ASSUME NEW r \in Runs, NEW s \in Slots,
                        beating'[r] # NoWrite, slot'[s].run = r, Intact(r[1])'
                 PROVE  slot'[s].beat <= beating'[r].slotRow.beat
      BY DEF BeatsSound
    <2>1. beating'[r] = beating[r] /\ Intact(r[1]) /\ r # NoRun
      BY <1>1, <1>3, QueueConstants DEF Runs
    <2> QED
      BY <1>0, <1>2, <1>3, <2>1 DEF BeatsSound
  <1>4. CASE UNCHANGED <<beating, slot>>
    BY <1>3, <1>4
  <1>5. ASSUME NEW r \in Runs, HeartbeatRead(r) PROVE BeatsSound'
    <2>1. PICK b \in Batch :
            /\ Renewal(r, b) /\ b.slot = job[r[1]].slot /\ b.slotRow.beat = slot[b.slot].beat + 1
            /\ slot[b.slot].run = r /\ beating' = [beating EXCEPT ![r] = b]
      BY <1>0, <1>5, RenewalComputed
    <2>2. UNCHANGED <<slot, lost>>
      BY <1>5 DEF HeartbeatRead, rows
    <2>3. beating'[r] = b /\ \A q \in Runs \ {r} : beating'[q] = beating[q]
      BY <1>0, <2>1 DEF TypeOK
    <2>4. ASSUME NEW s \in Slots, slot[s].run = r, Intact(r[1]) PROVE slot[s].beat <= b.slotRow.beat
      <3>1. s = b.slot
        BY <1>0, <2>1, <2>4, QueueConstants DEF SlotRunsItsJob, Runs
      <3>2. slot[s].beat \in Nat
        BY <1>0, QueueConstants DEF TypeOK, SlotRow
      <3> QED
        BY <2>1, <3>1, <3>2
    <2> QED
      BY <1>0, <2>2, <2>3, <2>4 DEF BeatsSound, Intact
  <1>6. ASSUME NEW r \in Runs, HeartbeatWrite(r) PROVE BeatsSound'
    <2>1. /\ beating[r] # NoWrite /\ beating[r] \in Batch
          /\ beating'[r] = NoWrite /\ \A q \in Runs \ {r} : beating'[q] = beating[q]
      BY <1>0, <1>6 DEF HeartbeatWrite, TypeOK
    <2>2. CASE UNCHANGED slot
      BY <1>3, <2>1, <2>2
    <2>3. CASE Apply(r[1], beating[r])
      <3>1. /\ beating[r].slot \in Slots /\ slot'[beating[r].slot].run = r
            /\ \A s \in Slots \ {beating[r].slot} : slot'[s] = slot[s]
        BY <1>0, <2>1, <2>3, BatchShape DEF Apply, TypeOK, KindsSound, Renewal
      <3> SUFFICES ASSUME NEW q \in Runs, NEW s \in Slots,
                          beating'[q] # NoWrite, slot'[s].run = q, Intact(q[1])'
                   PROVE  slot'[s].beat <= beating'[q].slotRow.beat
        BY DEF BeatsSound
      <3>2. q # r /\ beating'[q] = beating[q] /\ Intact(q[1]) /\ slot'[s] = slot[s]
        BY <1>1, <2>1, <3>1
      <3> QED
        BY <1>0, <3>2 DEF BeatsSound
    <2> QED
      BY <1>6, <2>2, <2>3 DEF HeartbeatWrite, rows
  <1>7. ASSUME NEW k \in Ticks, ReapWrite(k) PROVE BeatsSound'
    <2>1. PICK r, b : r = tick[k].run /\ b = tick[k].write
      OBVIOUS
    <2>2. UNCHANGED beating /\ (UNCHANGED slot \/ Apply(r[1], b))
      BY <1>7, <2>1 DEF ReapWrite, Release, work, rows
    <2>3. b \in Batch /\ b.slotRow.run = NoRun
      BY <1>0, <1>7, <2>1, TickShape DEF ReapWrite, KindsSound, Outcome
    <2>4. \A s \in Slots : slot'[s] = slot[s] \/ slot'[s].run = NoRun
      BY <1>0, <2>2, <2>3 DEF Apply, TypeOK
    <2> QED
      BY <1>3, <2>2, <2>4
  <1>8. ASSUME NEW r \in Runs, SettleWrite(r) PROVE BeatsSound'
    <2>1. PICK b : b = settling[r]
      OBVIOUS
    <2>2. UNCHANGED beating /\ (UNCHANGED slot \/ Apply(r[1], b))
      BY <1>8, <2>1 DEF SettleWrite, Release, rows
    <2>3. b.slotRow.run = NoRun
      BY <1>0, <1>8, <2>1 DEF SettleWrite, KindsSound, Outcome
    <2>4. \A s \in Slots : slot'[s] = slot[s] \/ slot'[s].run = NoRun
      BY <1>0, <2>2, <2>3 DEF Apply, TypeOK
    <2> QED
      BY <1>3, <2>2, <2>4
  <1>9. ASSUME NEW k \in Ticks, ClaimWrite(k) PROVE BeatsSound'
    <2>1. /\ UNCHANGED beating
          /\ \/ UNCHANGED slot
             \/ \E v, s : v.beat = 0 /\ slot' = [slot EXCEPT ![s] = v]
      BY <1>9 DEF ClaimWrite, rows
    <2>2. \A s \in Slots : slot'[s] = slot[s] \/ slot'[s].beat = 0
      BY <1>0, <2>1 DEF TypeOK
    <2> QED
      BY <1>3, <2>1, <2>2
  <1>10. ASSUME NEW n \in Nodes, Exit(n) PROVE BeatsSound'
    <2>1. /\ UNCHANGED slot /\ \A r \in Runs : beating'[r] \in {beating[r], NoWrite}
      BY <1>10 DEF Exit, rows
    <2> QED
      BY <1>3, <2>1
  <1>11. CASE \/ \E j \in Jobs : Enqueue(j)
              \/ \E x \in Cancellers : CancelWrite(x) \/ \E j \in Jobs : CancelRead(x, j)
              \/ \E k \in Ticks : \/ StartTick(k) \/ ReadSlots(k) \/ \E r \in Runs : ReapRead(k, r)
                                  \/ \E s \in Slots : SkipSlot(k, s) \/ \E j \in Jobs : ClaimRead(k, s, j)
                                  \/ \E j \in Jobs : DeleteExpired(k, j)
              \/ \E r \in Runs : \/ Abandon(r) \/ LeaseExpires(r)
                                 \/ \E outcome \in {"completed", "failed", "error"} : WorkerDone(r, outcome)
              \/ \E n \in Nodes : Close(n) \/ GraceOver(n)
              \/ UNCHANGED vars
    <2>1. UNCHANGED <<beating, slot>>
      BY <1>11 DEF Enqueue, CancelRead, CancelWrite, StartTick, ReadSlots, ReapRead, SkipSlot, ClaimRead,
         DeleteExpired, Abandon, LeaseExpires, WorkerDone, Close, GraceOver, vars, rows, work
    <2> QED
      BY <1>4, <2>1
  <1> QED
    BY <1>5, <1>6, <1>7, <1>8, <1>9, <1>10, <1>11 DEF Next, TickStep, RunEnds

LEMMA InitInFlight == Init => InFlightSound
  BY DEF Init, Idle, InFlightSound, KindsSound, BeatsSound

LEMMA Invariant == Spec => [](IInv /\ InFlightSound)
  <1>1. Init => IInv /\ InFlightSound
    BY InitIsSound, InitInFlight
  <1>2. IInv /\ InFlightSound /\ [Next]_vars => IInv' /\ InFlightSound'
    BY Inductive, KindsStay, BeatsStay DEF InFlightSound
  <1> QED
    BY <1>1, <1>2, PTL DEF Spec

\* The rows of the queue, and what is in flight, have their types.
THEOREM TypeCorrect == Spec => []TypeOK
  <1>1. IInv => TypeOK
    BY DEF IInv
  <1> QED
    BY <1>1, Invariant, PTL

\* claim, heartbeat, settle, reap and cancel, for any number of each in flight: a slot row and
\* the job row it names agree, but for a job that a cancel() has overwritten with an attempt of
\* before.
THEOREM SlotsCorrect == Spec => []SlotRunsItsJob
  <1>1. IInv => SlotRunsItsJob
    BY DEF IInv, Sound
  <1> QED
    BY <1>1, Invariant, PTL

\* The queue implements JobLifecycle: every step is a step of a job's life, or none, up to the
\* one write of a cancel() that takes an attempt for another.
THEOREM LifecycleCorrect == Spec => KeepsLifecycle
  <1>1. Init => Lifecycle!Init
    BY DEF Init, NoJob, Lifecycle!Init, Lived, Intact
  <1>2. IInv /\ InFlightSound /\ [Next]_vars => [Lifecycle!Next]_(Lifecycle!lifecycle)
    BY Inductive DEF LifecycleStep
  <1> QED
    BY <1>1, <1>2, Invariant, PTL DEF Spec, KeepsLifecycle, Lifecycle!Spec

-----------------------------------------------------------------------------
(* Leases: what ticks know of the clock.                                   *)

\* The run has held its job, and will not again; or the job has been overwritten.
Finished(r) ==
  ~ Intact(r[1]) \/ job[r[1]].status = "deleted" \/ (r[2] <= job[r[1]].attempt /\ ~ JobHolds(r))

\* A lease that a tick takes for over is over, if the run is not.
ClockSound(k) ==
  /\ tick[k].pc \in {"reaping", "expiring"} =>
       \A r \in DOMAIN tick[k].now : tick[k].now[r] <= lapsed[r] \/ Finished(r)
  /\ tick[k].pc = "chosen" =>
       LET v == tick[k].seen[tick[k].slot] IN
       v.run # NoRun => v.beat < lapsed[v.run] \/ Finished(v.run)

ClocksSound == \A k \in Ticks : ClockSound(k)

LEMMA InitClocks == Init => ClocksSound
  BY DEF Init, Idle, ClocksSound, ClockSound

\* The lifecycle of a job never goes back to an attempt.
LEMMA FinishedStays ==
  ASSUME TypeOK, TypeOK', LifecycleStep, NEW r \in Runs, Finished(r)
  PROVE  Finished(r)'
  <1>a. r[1] \in Jobs /\ r[2] \in Nat
    BY RunsArePairs
  <1> SUFFICES ASSUME Intact(r[1]), Intact(r[1])' PROVE Finished(r)'
    BY <1>a DEF Finished, LifecycleStep
  <1> DEFINE status == [i \in Jobs |-> Lived(i).status]
             attempt == [i \in Jobs |-> Lived(i).attempt]
             i == r[1]
  <1>1. i \in Jobs /\ r[2] \in Nat
    BY <1>a
  <1>3. /\ status[i] = job[i].status /\ attempt[i] = job[i].attempt
        /\ status'[i] = job'[i].status /\ attempt'[i] = job'[i].attempt
    BY <1>1 DEF Lived
  <1>2. attempt[i] \in Nat /\ attempt'[i] \in Nat
    BY <1>1, <1>3, RowShape, QueueConstants DEF TypeOK
  <1>4. DOMAIN status = Jobs /\ DOMAIN attempt = Jobs
    OBVIOUS
  <1> HIDE DEF status, attempt
  <1>5. status[i] = "deleted" \/ (r[2] <= attempt[i] /\ ~ (status[i] = "running" /\ attempt[i] = r[2]))
    BY <1>3 DEF Finished, JobHolds
  <1>6. SUFFICES status'[i] = "deleted"
                 \/ (r[2] <= attempt'[i] /\ ~ (status'[i] = "running" /\ attempt'[i] = r[2]))
    BY <1>3 DEF Finished, JobHolds
  <1>7. CASE UNCHANGED Lifecycle!lifecycle
    <2>1. status' = status /\ attempt' = attempt
      BY <1>7 DEF Lifecycle!lifecycle, status, attempt
    <2> QED
      BY <1>5, <2>1
  <1>8. ASSUME NEW j \in Jobs, NEW from, NEW to, Lifecycle!Move(j, from, to)
        PROVE  status[j] = from /\ status' = [status EXCEPT ![j] = to]
    BY <1>8 DEF Lifecycle!Move, status
  <1>9. ASSUME NEW j \in Jobs, Lifecycle!Submit(j) \/ Lifecycle!Requeue(j) \/ Lifecycle!CancelQueued(j)
                               \/ \E outcome \in Lifecycle!Terminal : Lifecycle!Finish(j, outcome)
        PROVE  /\ attempt' = attempt /\ status[j] # "deleted"
               /\ \E to : to # "running" /\ status' = [status EXCEPT ![j] = to]
    BY <1>9, <1>8 DEF Lifecycle!Submit, Lifecycle!Requeue, Lifecycle!CancelQueued, Lifecycle!Finish,
       Lifecycle!Terminal, attempt
  <1>10. ASSUME NEW j \in Jobs, Lifecycle!Start(j)
         PROVE  /\ status[j] = "queued" /\ status' = [status EXCEPT ![j] = "running"]
                /\ attempt' = [attempt EXCEPT ![j] = @ + 1]
    BY <1>10, <1>8 DEF Lifecycle!Start, attempt
  <1>11. ASSUME NEW j \in Jobs, Lifecycle!Forget(j)
         PROVE  /\ status' = [status EXCEPT ![j] = "deleted"]
                /\ attempt' = [attempt EXCEPT ![j] = 0]
    BY <1>11, <1>8 DEF Lifecycle!Forget, attempt
  <1>12. CASE Lifecycle!Next
    <2>1. PICK j \in Jobs :
            \/ Lifecycle!Submit(j) \/ Lifecycle!Requeue(j) \/ Lifecycle!CancelQueued(j)
               \/ \E outcome \in Lifecycle!Terminal : Lifecycle!Finish(j, outcome)
            \/ Lifecycle!Start(j)
            \/ Lifecycle!Forget(j)
      BY <1>12 DEF Lifecycle!Next
    <2>2. CASE Lifecycle!Submit(j) \/ Lifecycle!Requeue(j) \/ Lifecycle!CancelQueued(j)
               \/ \E outcome \in Lifecycle!Terminal : Lifecycle!Finish(j, outcome)
      BY <1>1, <1>4, <1>5, <1>9, <2>2
    <2>3. CASE Lifecycle!Start(j)
      BY <1>1, <1>2, <1>4, <1>5, <1>10, <2>3
    <2>4. CASE Lifecycle!Forget(j)
      BY <1>1, <1>4, <1>5, <1>11, <2>4
    <2> QED
      BY <2>1, <2>2, <2>3, <2>4
  <1> QED
    BY <1>7, <1>12 DEF LifecycleStep

\* The clock goes on, except for runs that are over; a tick stays, or knows no less.
LEMMA ClocksGoOn ==
  ASSUME IInv, ClocksSound, TypeOK', LifecycleStep,
         \A r \in Runs : lapsed[r] <= lapsed'[r] \/ Finished(r)',
         \A k \in Ticks : tick'[k] = tick[k] \/ ClockSound(k)'
  PROVE  ClocksSound'
  <1> SUFFICES ASSUME NEW k \in Ticks, tick'[k] = tick[k] PROVE ClockSound(k)'
    BY DEF ClocksSound
  <1>0. TypeOK /\ ClockSound(k)
    BY DEF IInv, ClocksSound
  <1>1. \A r \in Runs : lapsed[r] \in Nat /\ lapsed'[r] \in Nat
    BY <1>0, QueueConstants DEF TypeOK, Clock
  <1>2. ASSUME tick[k].pc \in {"reaping", "expiring"}, NEW r \in DOMAIN tick[k].now
        PROVE  tick[k].now[r] <= lapsed'[r] \/ Finished(r)'
    <2>1. r \in Runs /\ tick[k].now[r] \in Nat
      <3> DEFINE now == tick[k].now
      <3>1. DOMAIN now \subseteq Runs /\ now \in [DOMAIN now -> 0..(MaxBeats + 1)]
        BY <1>0, <1>2, TickShape
      <3> HIDE DEF now
      <3>2. r \in DOMAIN now
        BY <1>2 DEF now
      <3>3. now[r] \in 0..(MaxBeats + 1)
        BY <3>1, <3>2
      <3> QED
        BY <3>1, <3>2, <3>3, QueueConstants DEF now
    <2>2. tick[k].now[r] <= lapsed[r] \/ Finished(r)
      BY <1>0, <1>2 DEF ClockSound
    <2>3. CASE Finished(r)
      BY <1>0, <2>1, <2>3, FinishedStays
    <2>4. CASE tick[k].now[r] <= lapsed[r]
      BY <1>1, <2>1, <2>4
    <2> QED
      BY <2>2, <2>3, <2>4
  <1>3. ASSUME tick[k].pc = "chosen", tick[k].seen[tick[k].slot].run # NoRun
        PROVE  LET v == tick[k].seen[tick[k].slot] IN v.beat < lapsed'[v.run] \/ Finished(v.run)'
    <2>0. PICK v : v = tick[k].seen[tick[k].slot]
      OBVIOUS
    <2>1. v \in SlotRow
      BY <1>0, <1>3, <2>0, TickShape
    <2>2. v.run \in Runs /\ v.beat \in Nat
      BY <1>3, <2>0, <2>1, QueueConstants DEF SlotRow
    <2>3. v.beat < lapsed[v.run] \/ Finished(v.run)
      BY <1>0, <1>3, <2>0 DEF ClockSound
    <2>4. PICK r \in Runs : r = v.run
      BY <2>2
    <2>5. Finished(r) => Finished(r)'
      BY <1>0, FinishedStays
    <2>6. v.beat < lapsed[r] => v.beat < lapsed'[r] \/ Finished(r)'
      BY <1>1, <2>2
    <2>7. v.beat < lapsed'[r] \/ Finished(r)'
      BY <2>3, <2>4, <2>5, <2>6
    <2>8. v.beat < lapsed'[v.run] \/ Finished(v.run)'
      BY <2>4, <2>7 DEF Finished, JobHolds
    <2> QED
      BY <2>0, <2>8 DEF Finished, JobHolds
  <1> QED
    BY <1>2, <1>3 DEF ClockSound

\* Ticks in these phases take no lease for over.
LEMMA NoClock ==
  ASSUME NEW k \in Ticks, tick[k].pc \notin {"reaping", "expiring", "chosen"}
  PROVE  ClockSound(k)
  BY DEF ClockSound

\* The action property of LeaseProtects.
Protected ==
  \A r \in Runs, s \in Slots :
    Executing(r) /\ Executing(r)' /\ Holds(s, r) /\ ~ Expired(slot[s], r, lapsed)
      => RevisionReused(s) \/ ~ Intact(r[1])' \/ Holds(s, r)'

LEMMA RowsProtect ==
  ASSUME UNCHANGED <<job, slot>>
  PROVE  Protected
  BY DEF Protected, Holds, JobHolds, SlotHolds

\* Two runs do not hold one job.
LEMMA OneRunHolds ==
  ASSUME NEW r \in Runs, NEW q \in Runs, JobHolds(r), JobHolds(q), r[1] = q[1]
  PROVE  r = q
  BY RunsArePairs DEF JobHolds

\* A batch that is applied takes job and slot from its own run, if from any.
LEMMA BatchProtects ==
  ASSUME IInv, NEW r \in Runs, NEW b \in Writes(r), Holds(b.slot, r), Apply(r[1], b)
  PROVE  /\ Renewal(r, b) => Protected
         /\ Outcome(r, b) =>
              /\ Finished(r)'
              /\ (Executing(r)' /\ Intact(r[1])' =>
                    \A s \in Slots : Expired(slot[s], r, lapsed) \/ ~ SlotHolds(s, r))
                   => Protected
  <1>0. TypeOK /\ WritesSound
    BY DEF IInv, Sound
  <1>1. r[1] \in Jobs /\ r[2] \in Nat
    BY RunsArePairs
  <1>2. b \in Batch /\ b.row \in JobRow /\ b.slot \in Slots /\ b.row.attempt = r[2]
    BY <1>0, WritesAreBatches, BatchShape DEF WritesSound, WriteSound
  <1>3. /\ job'[r[1]] = b.row /\ \A j \in Jobs \ {r[1]} : job'[j] = job[j]
        /\ slot'[b.slot] = b.slotRow /\ \A s \in Slots \ {b.slot} : slot'[s] = slot[s]
    BY <1>0, <1>1, <1>2 DEF Apply, TypeOK
  <1>4. JobHolds(r) /\ slot[b.slot].run = r
    BY DEF Holds, SlotHolds
  <1>5. ASSUME NEW q \in Runs, NEW s \in Slots, Holds(s, q), q # r
        PROVE  Holds(s, q)'
    <2>1. q[1] # r[1] /\ q[1] \in Jobs
      BY <1>4, <1>5, OneRunHolds, RunsArePairs DEF Holds
    <2>2. s # b.slot
      BY <1>4, <1>5 DEF Holds, SlotHolds
    <2> QED
      BY <1>3, <1>5, <2>1, <2>2 DEF Holds, JobHolds, SlotHolds
  <1>6. ASSUME Renewal(r, b), NEW s \in Slots, Holds(s, r)
        PROVE  Holds(s, r)'
    BY <1>2, <1>3, <1>6 DEF Renewal, Holds, JobHolds, SlotHolds
  <1>7. Outcome(r, b) => Finished(r)'
    BY <1>1, <1>2, <1>3 DEF Outcome, Finished, JobHolds, Terminal
  <1> QED
    BY <1>5, <1>6, <1>7 DEF Protected, Holds

\* The clock stands still, or is reset for a run that is over.
LEMMA SameClock ==
  ASSUME TypeOK, \/ UNCHANGED lapsed
                 \/ \E r \in Runs : lapsed' = [lapsed EXCEPT ![r] = 0] /\ Finished(r)'
  PROVE  \A r \in Runs : lapsed[r] <= lapsed'[r] \/ Finished(r)'
  <1>1. lapsed \in [Runs -> 0..(MaxBeats + 1)]
    BY DEF TypeOK, Clock
  <1>2. \A r \in Runs : lapsed[r] <= lapsed[r]
    BY <1>1, QueueConstants
  <1>3. CASE UNCHANGED lapsed
    BY <1>2, <1>3
  <1>4. CASE \E r \in Runs : lapsed' = [lapsed EXCEPT ![r] = 0] /\ Finished(r)'
    <2>1. PICK r \in Runs : lapsed' = [lapsed EXCEPT ![r] = 0] /\ Finished(r)'
      BY <1>4
    <2>2. \A q \in Runs \ {r} : lapsed'[q] = lapsed[q]
      BY <1>1, <2>1
    <2>3. ASSUME NEW q \in Runs PROVE lapsed[q] <= lapsed'[q] \/ Finished(q)'
      BY <1>2, <2>1, <2>2
    <2> QED
      BY <2>3
  <1> QED
    BY <1>3, <1>4

\* Steps that leave the rows and the clock alone, and of the ticks at most one.
LEMMA TickLearns ==
  ASSUME IInv, ClocksSound, TypeOK', LifecycleStep, UNCHANGED <<job, slot, lapsed>>,
         NEW k \in Ticks, NEW t, tick' = [tick EXCEPT ![k] = t], ClockSound(k)'
  PROVE  ClocksSound' /\ Protected
  <1>1. \A i \in Ticks : tick'[i] = tick[i] \/ ClockSound(i)'
    BY DEF IInv, TypeOK
  <1>2. \A r \in Runs : lapsed[r] <= lapsed'[r] \/ Finished(r)'
    BY SameClock DEF IInv
  <1> QED
    BY <1>1, <1>2, ClocksGoOn, RowsProtect

LEMMA TicksStay ==
  ASSUME IInv, ClocksSound, TypeOK', LifecycleStep, UNCHANGED <<lapsed, tick>>
  PROVE  ClocksSound'
  <1>1. \A r \in Runs : lapsed[r] <= lapsed'[r] \/ Finished(r)'
    BY SameClock DEF IInv
  <1> QED
    BY <1>1, ClocksGoOn

\* The rows of jobs that hold a run keep it.
LEMMA JobWriteProtects ==
  ASSUME TypeOK, NEW j \in Jobs, NEW w, job' = [job EXCEPT ![j] = w], UNCHANGED slot,
         Intact(j)' /\ job[j].status = "running" => w.status = "running" /\ w.attempt = job[j].attempt
  PROVE  Protected
  <1>1. job'[j] = w /\ \A i \in Jobs \ {j} : job'[i] = job[i]
    BY DEF TypeOK
  <1>2. ASSUME NEW r \in Runs, NEW s \in Slots, Holds(s, r), Intact(r[1])'
        PROVE  Holds(s, r)'
    BY <1>1, <1>2, RunsArePairs DEF Holds, JobHolds, SlotHolds
  <1> QED
    BY <1>2 DEF Protected

LEMMA AppProtects ==
  ASSUME IInv, ClocksSound, TypeOK', LifecycleStep,
         \/ \E j \in Jobs : Enqueue(j)
         \/ \E x \in Cancellers : CancelWrite(x) \/ \E j \in Jobs : CancelRead(x, j)
         \/ \E k \in Ticks, j \in Jobs : DeleteExpired(k, j)
  PROVE  ClocksSound' /\ Protected
  <1>0. TypeOK
    BY DEF IInv
  <1>1. UNCHANGED <<slot, lapsed, tick>>
    BY DEF Enqueue, CancelRead, CancelWrite, DeleteExpired, rows
  <1>2. ASSUME NEW j \in Jobs, Enqueue(j) PROVE Protected
    <2>1. job' = [job EXCEPT ![j] = [job[j] EXCEPT !.status = "queued"]] /\ job[j].status = "absent"
      BY <1>0, <1>2 DEF Enqueue, TypeOK
    <2> QED
      BY <1>0, <1>1, <2>1, JobWriteProtects
  <1>3. ASSUME NEW x \in Cancellers, CancelWrite(x) PROVE Protected
    <2>1. PICK j, row : j = call[x].job /\ row = call[x].row
      OBVIOUS
    <2>2. j \in Jobs /\ row \in JobRow /\ row \in Calls(j)
      BY <1>0, <1>3, <2>1 DEF CancelWrite, TypeOK, CallState, Calls
    <2>3. CallSound(j, row)
      BY <2>2 DEF IInv, Sound, CallsSound
    <2>4. CASE UNCHANGED job
      BY <1>1, <2>4, RowsProtect
    <2>5. CASE /\ job[j].status = row.status /\ job' = [job EXCEPT ![j] = Marked(row)]
               /\ lost' = IF Intact(j) /\ job[j].attempt # row.attempt
                            THEN [lost EXCEPT ![j] = job[j]] ELSE lost
      <3>1. ASSUME Intact(j)' PROVE job[j].attempt = row.attempt
        <4>1. Intact(j)
          BY <2>2, <3>1 DEF LifecycleStep
        <4>2. SUFFICES ASSUME job[j].attempt # row.attempt PROVE FALSE
          OBVIOUS
        <4> QED
          BY <1>0, <2>2, <2>5, <3>1, <4>1, <4>2, JobOverwritten
      <3>2. Marked(row).attempt = row.attempt /\ (row.status = "running" => Marked(row).status = "running")
        BY <2>2, <2>3, MarkedShape DEF CallSound
      <3> QED
        BY <1>0, <1>1, <2>2, <2>5, <3>1, <3>2, JobWriteProtects
    <2> QED
      BY <1>3, <2>1, <2>4, <2>5 DEF CancelWrite
  <1>5. ASSUME NEW x \in Cancellers, NEW j \in Jobs, CancelRead(x, j) PROVE Protected
    BY <1>1, <1>5, RowsProtect DEF CancelRead, rows
  <1>4. ASSUME NEW k \in Ticks, NEW j \in Jobs, DeleteExpired(k, j) PROVE Protected
    <2>1. /\ job' = [job EXCEPT ![j] = [NoJob EXCEPT !.status = "deleted"]]
          /\ job[j].status # "running"
      BY <1>4 DEF DeleteExpired, Terminal
    <2> QED
      BY <1>0, <1>1, <2>1, JobWriteProtects
  <1> QED
    BY <1>1, <1>2, <1>3, <1>4, <1>5, TicksStay

\* Clocks that have let one run go.
LEMMA ReapingGoesOn ==
  ASSUME TypeOK, TypeOK', LifecycleStep, NEW k \in Ticks, ClockSound(k),
         tick[k].pc \in {"reaping", "expiring"}, NEW r,
         tick' = [tick EXCEPT ![k] = Reaping(Others(tick[k].now, r))],
         \A q \in Runs : lapsed[q] <= lapsed'[q] \/ Finished(q)'
  PROVE  ClockSound(k)'
  <1>1. PICK before : before = tick[k].now
    OBVIOUS
  <1>2. PICK now : now = Others(before, r)
    OBVIOUS
  <1>3. /\ before \in [DOMAIN before -> 0..(MaxBeats + 1)] /\ DOMAIN before \subseteq Runs
        /\ \A q \in DOMAIN before : before[q] <= lapsed[q] \/ Finished(q)
    BY <1>1, TickShape DEF ClockSound
  <1>4. DOMAIN now = DOMAIN before \ {r} /\ \A q \in DOMAIN now : now[q] = before[q]
    BY <1>2 DEF Others, Restrict
  <1>5. ASSUME NEW q \in DOMAIN now PROVE now[q] <= lapsed'[q] \/ Finished(q)'
    <2>1. q \in Runs /\ q \in DOMAIN before /\ now[q] = before[q]
      BY <1>3, <1>4
    <2>2. before[q] \in 0..(MaxBeats + 1)
      BY <1>3, <2>1
    <2>3. lapsed[q] \in Nat /\ lapsed'[q] \in Nat
      BY <2>1, QueueConstants DEF TypeOK, Clock
    <2>4. Finished(q) => Finished(q)'
      BY <2>1, FinishedStays
    <2>5. before[q] <= lapsed[q] \/ Finished(q)
      BY <1>3, <2>1
    <2>6. lapsed[q] <= lapsed'[q] \/ Finished(q)'
      BY <2>1
    <2> QED
      BY <2>1, <2>2, <2>3, <2>4, <2>5, <2>6, QueueConstants
  <1>6. tick'[k] = Reaping(now)
    BY <1>1, <1>2 DEF TypeOK
  <1>7. tick'[k] = [pc |-> "reaped"] \/ tick'[k] = [pc |-> "reaping", now |-> now]
    BY <1>6 DEF Reaping
  <1> QED
    BY <1>5, <1>7 DEF ClockSound

LEMMA ReaperProtects ==
  ASSUME IInv, ClocksSound, KindsSound, TypeOK', LifecycleStep, NEW k \in Ticks, ReapWrite(k)
  PROVE  ClocksSound' /\ Protected
  <1>0. TypeOK /\ ClockSound(k)
    BY DEF IInv, ClocksSound
  <1>1. PICK r, b, now : r = tick[k].run /\ b = tick[k].write /\ now = tick[k].now
    OBVIOUS
  <1>2. /\ tick[k].pc = "expiring" /\ tick' = [tick EXCEPT ![k] = Reaping(Others(now, r))]
        /\ \/ Holds(b.slot, r) /\ Expired(slot[b.slot], r, now) /\ Release(r, b)
           \/ UNCHANGED <<rows, lapsed>>
        /\ UNCHANGED lost
    BY <1>1 DEF ReapWrite
  <1>3. /\ r \in Runs /\ b \in Batch
        /\ now \in [DOMAIN now -> 0..(MaxBeats + 1)]
    BY <1>0, <1>1, <1>2, TickShape
  <1>4. b \in Writes(r) /\ r \in DOMAIN now /\ Outcome(r, b)
    BY <1>1, <1>2, <1>3 DEF Writes, KindsSound
  <1>5. Finished(r) => Finished(r)'
    BY <1>0, <1>3, FinishedStays
  <1>6. \A i \in Ticks \ {k} : tick'[i] = tick[i]
    BY <1>0, <1>2 DEF TypeOK
  <1>7. ASSUME \A q \in Runs : lapsed[q] <= lapsed'[q] \/ Finished(q)'
        PROVE  ClocksSound'
    <2>1. ClockSound(k)'
      BY <1>0, <1>1, <1>2, <1>7, ReapingGoesOn
    <2> QED
      BY <1>6, <1>7, <2>1, ClocksGoOn
  <1>8. CASE UNCHANGED <<rows, lapsed>>
    <2>1. UNCHANGED <<job, slot, lapsed>>
      BY <1>8 DEF rows
    <2> QED
      BY <1>0, <1>7, <2>1, SameClock, RowsProtect
  <1>9. CASE Holds(b.slot, r) /\ Expired(slot[b.slot], r, now) /\ Release(r, b)
    <2>1. Apply(r[1], b) /\ lapsed' = [lapsed EXCEPT ![r] = 0]
      BY <1>9 DEF Release
    <2>2. Finished(r)'
      BY <1>3, <1>4, <1>9, <2>1, BatchProtects
    <2>3. ClocksSound'
      BY <1>0, <1>3, <1>7, <2>1, <2>2, SameClock
    <2>4. JobHolds(r) /\ SlotHolds(b.slot, r)
      BY <1>9 DEF Holds
    <2>5. Intact(r[1]) => ~ Finished(r)
      <3>1. job[r[1]].status # "deleted"
        BY <2>4 DEF JobHolds
      <3> QED
        BY <2>4, <3>1 DEF Finished
    <2>6. Intact(r[1]) => now[r] <= lapsed[r]
      BY <1>0, <1>1, <1>2, <1>4, <2>5 DEF ClockSound
    <2>7. Intact(r[1]) => Expired(slot[b.slot], r, lapsed)
      <3>1. now[r] \in 0..(MaxBeats + 1)
        BY <1>3, <1>4
      <3>2. slot[b.slot].beat \in Nat /\ lapsed[r] \in Nat
        BY <1>0, <1>3, BatchShape, QueueConstants DEF TypeOK, SlotRow, Clock
      <3>3. slot[b.slot].beat < now[r]
        BY <1>9 DEF Expired
      <3> QED
        BY <2>6, <3>1, <3>2, <3>3, QueueConstants DEF Expired
    <2>8. ASSUME NEW s \in Slots, SlotHolds(s, r), Intact(r[1]) PROVE s = b.slot
      <3>1. slot[s].run = r /\ slot[b.slot].run = r /\ r # NoRun /\ b.slot \in Slots
        BY <1>3, <2>4, <2>8, BatchShape, QueueConstants DEF SlotHolds, Runs
      <3> QED
        BY <2>8, <3>1 DEF IInv, Sound, SlotRunsItsJob
    <2>9. Intact(r[1])' => \A s \in Slots : Expired(slot[s], r, lapsed) \/ ~ SlotHolds(s, r)
      BY <1>2, <2>7, <2>8 DEF Intact
    <2> QED
      BY <1>3, <1>4, <1>9, <2>1, <2>3, <2>9, BatchProtects
  <1> QED
    BY <1>2, <1>8, <1>9

\* The other steps of a tick: the clock is read, the runs and the slots are read.
LEMMA TickReads ==
  ASSUME IInv, ClocksSound, TypeOK', LifecycleStep, NEW k \in Ticks,
         \/ StartTick(k) \/ ReadSlots(k)
         \/ \E r \in Runs : ReapRead(k, r)
         \/ \E s \in Slots : SkipSlot(k, s) \/ \E j \in Jobs : ClaimRead(k, s, j)
  PROVE  ClocksSound' /\ Protected
  <1>0. TypeOK /\ ClockSound(k)
    BY DEF IInv, ClocksSound
  <1>1. UNCHANGED <<job, slot, lapsed, lost>>
    BY DEF StartTick, ReadSlots, ReapRead, SkipSlot, ClaimRead, rows
  <1>2. \A r \in Runs : lapsed[r] \in Nat
    BY <1>0, QueueConstants DEF TypeOK, Clock
  <1>3. ASSUME StartTick(k) PROVE ClocksSound' /\ Protected
    <2>1. PICK now : now = Restrict(lapsed, Reapable(k))
      OBVIOUS
    <2>2. tick' = [tick EXCEPT ![k] = Reaping(now)]
      BY <1>3, <2>1 DEF StartTick
    <2>3. DOMAIN now \subseteq Runs /\ \A r \in DOMAIN now : now[r] = lapsed[r]
      BY <2>1 DEF Restrict, Reapable
    <2>4. \A r \in DOMAIN now : now[r] <= lapsed'[r]
      BY <1>1, <1>2, <2>3
    <2>5. tick'[k] = [pc |-> "reaped"] \/ tick'[k] = [pc |-> "reaping", now |-> now]
      BY <1>0, <2>2 DEF TypeOK, Reaping
    <2>6. ClockSound(k)'
      BY <2>4, <2>5 DEF ClockSound
    <2> QED
      BY <1>1, <2>2, <2>6, TickLearns
  <1>4. ASSUME ReadSlots(k) PROVE ClocksSound' /\ Protected
    <2>1. PICK t : t = [pc |-> "claiming", seen |-> slot, left |-> Slots]
      OBVIOUS
    <2>2. tick' = [tick EXCEPT ![k] = t]
      BY <1>4, <2>1 DEF ReadSlots
    <2>3. tick'[k].pc = "claiming"
      BY <1>0, <2>1, <2>2 DEF TypeOK
    <2> QED
      BY <1>1, <2>2, <2>3, TickLearns DEF ClockSound
  <1>5. ASSUME NEW r \in Runs, ReapRead(k, r) PROVE ClocksSound' /\ Protected
    <2>1. /\ tick[k].pc = "reaping"
          /\ \/ tick' = [tick EXCEPT ![k] = Reaping(Others(tick[k].now, r))]
             \/ tick' = [tick EXCEPT ![k] = [pc |-> "expiring", now |-> tick[k].now, run |-> r,
                                             write |-> SettleBatch(r, "error")]]
      BY <1>5 DEF ReapRead
    <2>2. CASE tick' = [tick EXCEPT ![k] = Reaping(Others(tick[k].now, r))]
      <3>1. \A q \in Runs : lapsed[q] <= lapsed'[q] \/ Finished(q)'
        BY <1>0, <1>1, SameClock
      <3>2. ClockSound(k)'
        BY <1>0, <2>1, <2>2, <3>1, ReapingGoesOn
      <3> QED
        BY <1>1, <2>2, <3>2, TickLearns
    <2>3. ASSUME NEW b, tick' = [tick EXCEPT ![k] = [pc |-> "expiring", now |-> tick[k].now,
                                                    run |-> r, write |-> b]]
          PROVE  ClocksSound' /\ Protected
      <3>1. tick'[k].now = tick[k].now /\ tick'[k].pc = "expiring"
        BY <1>0, <2>3 DEF TypeOK
      <3>2. ClockSound(k)'
        BY <1>0, <1>1, <2>1, <3>1 DEF ClockSound, Finished, JobHolds, Intact
      <3> QED
        BY <1>1, <2>3, <3>2, TickLearns
    <2> QED
      BY <2>1, <2>2, <2>3
  <1>6. ASSUME NEW s \in Slots, SkipSlot(k, s) PROVE ClocksSound' /\ Protected
    <2>1. tick[k].pc = "claiming" /\ tick' = [tick EXCEPT ![k] = After(tick[k], s)]
      BY <1>6 DEF SkipSlot
    <2>2. PICK t : t = After(tick[k], s)
      OBVIOUS
    <2>3. tick' = [tick EXCEPT ![k] = t] /\ t.pc \in {"idle", "claiming"}
      BY <1>0, <2>1, <2>2, AfterState
    <2>4. tick'[k].pc \in {"idle", "claiming"}
      BY <1>0, <2>3 DEF TypeOK
    <2> QED
      BY <1>1, <2>3, <2>4, TickLearns DEF ClockSound
  <1>7. ASSUME NEW s \in Slots, NEW j \in Jobs, ClaimRead(k, s, j) PROVE ClocksSound' /\ Protected
    <2>1. PICK t : t = [pc |-> "chosen", seen |-> tick[k].seen, left |-> tick[k].left,
                        slot |-> s, job |-> j, row |-> job[j]]
      OBVIOUS
    <2>2. /\ tick[k].pc = "claiming" /\ ~ Taken(tick[k].seen[s])
          /\ tick' = [tick EXCEPT ![k] = t]
      BY <1>7, <2>1 DEF ClaimRead
    <2>3. /\ tick'[k].pc = "chosen" /\ tick'[k].slot = s
          /\ tick'[k].seen = tick[k].seen
      BY <1>0, <2>1, <2>2 DEF TypeOK
    <2>4. tick[k].seen[s].run # NoRun => tick[k].seen[s].beat < lapsed[tick[k].seen[s].run]
      BY <2>2 DEF Taken, Expired
    <2>5. ClockSound(k)'
      BY <1>1, <2>3, <2>4 DEF ClockSound
    <2> QED
      BY <1>1, <2>2, <2>5, TickLearns
  <1> QED
    BY <1>3, <1>4, <1>5, <1>6, <1>7

\* A claim: who has read the slot as it is knows whether its lease is over.
LEMMA ClaimProtects ==
  ASSUME IInv, ClocksSound, TypeOK', LifecycleStep, NEW k \in Ticks, ClaimWrite(k)
  PROVE  ClocksSound' /\ Protected
  <1>0. TypeOK /\ ClockSound(k)
    BY DEF IInv, ClocksSound
  <1>1. PICK j, s, seen : j = tick[k].job /\ s = tick[k].slot /\ seen = tick[k].seen
    OBVIOUS
  <1>2. /\ tick[k].pc = "chosen" /\ tick' = [tick EXCEPT ![k] = After(tick[k], s)]
        /\ UNCHANGED <<lapsed, lost>>
        /\ \/ /\ job[j].status = "queued" /\ slot[s].revision = seen[s].revision
              /\ \E w : job' = [job EXCEPT ![j] = w]
              /\ \E v : slot' = [slot EXCEPT ![s] = v]
           \/ UNCHANGED <<job, slot>>
    BY <1>1 DEF ClaimWrite, rows
  <1>3. s \in Slots /\ j \in Jobs
    BY <1>0, <1>1, <1>2, TickShape
  <1>4. ClocksSound'
    <2>1. After(tick[k], s).pc \in {"idle", "claiming"}
      BY <1>0, <1>2, AfterState
    <2>2. tick'[k].pc \in {"idle", "claiming"} /\ \A i \in Ticks \ {k} : tick'[i] = tick[i]
      BY <1>0, <1>2, <2>1 DEF TypeOK
    <2>3. \A q \in Runs : lapsed[q] <= lapsed'[q] \/ Finished(q)'
      BY <1>0, <1>2, SameClock
    <2>4. ClockSound(k)'
      BY <2>2 DEF ClockSound
    <2> QED
      BY <2>2, <2>3, <2>4, ClocksGoOn
  <1>5. CASE /\ job[j].status = "queued" /\ slot[s].revision = seen[s].revision
             /\ \E w : job' = [job EXCEPT ![j] = w]
             /\ \E v : slot' = [slot EXCEPT ![s] = v]
    <2>1. /\ \A i \in Jobs \ {j} : job'[i] = job[i]
          /\ \A i \in Slots \ {s} : slot'[i] = slot[i]
      BY <1>0, <1>5 DEF TypeOK
    <2>2. ASSUME NEW r \in Runs, NEW i \in Slots, Holds(i, r), ~ Expired(slot[i], r, lapsed),
                 ~ RevisionReused(i), Intact(r[1])'
          PROVE  Holds(i, r)'
      <3>1. JobHolds(r) /\ slot[i].run = r /\ r # NoRun
        BY <2>2, QueueConstants DEF Holds, SlotHolds, Runs
      <3>2. r[1] # j /\ r[1] \in Jobs
        BY <1>5, <3>1, RunsArePairs DEF JobHolds
      <3>3. ASSUME i = s PROVE FALSE
        <4>1. seen[s] = slot[s]
          BY <1>1, <1>2, <1>5, <2>2, <3>3 DEF RevisionReused
        <4>2. slot[s].beat < lapsed[r] \/ Finished(r)
          BY <1>0, <1>1, <1>2, <3>1, <3>3, <4>1 DEF ClockSound
        <4>3. ~ Finished(r)
          BY <1>2, <2>2, <3>1 DEF Finished, JobHolds, Intact
        <4> QED
          BY <2>2, <3>3, <4>2, <4>3 DEF Expired
      <3> QED
        BY <2>1, <3>1, <3>2, <3>3 DEF Holds, JobHolds, SlotHolds
    <2> QED
      BY <1>4, <2>2 DEF Protected
  <1> QED
    BY <1>2, <1>4, <1>5, RowsProtect

\* Heartbeats, settlements, and runs that stop.
LEMMA RunProtects ==
  ASSUME IInv, ClocksSound, KindsSound, TypeOK', LifecycleStep, NEW r \in Runs,
         HeartbeatRead(r) \/ HeartbeatWrite(r) \/ RunEnds(r)
  PROVE  ClocksSound' /\ Protected
  <1>0. TypeOK
    BY DEF IInv
  <1>1. CASE UNCHANGED <<job, slot, lapsed, tick>>
    BY <1>1, TicksStay, RowsProtect
  <1>2. CASE HeartbeatWrite(r)
    <2>1. beating[r] # NoWrite /\ UNCHANGED <<lapsed, tick>>
      BY <1>2 DEF HeartbeatWrite
    <2>2. PICK b : b = beating[r]
      OBVIOUS
    <2>3. b \in Writes(r) /\ Renewal(r, b)
      BY <2>1, <2>2 DEF Writes, KindsSound
    <2>4. UNCHANGED <<job, slot>> \/ (Holds(b.slot, r) /\ Apply(r[1], b))
      BY <1>2, <2>2 DEF HeartbeatWrite, rows
    <2> QED
      BY <2>1, <2>3, <2>4, TicksStay, RowsProtect, BatchProtects
  <1>3. CASE SettleWrite(r)
    <2>1. settling[r] # NoWrite /\ UNCHANGED tick /\ host' = [host EXCEPT ![r] = NoNode]
      BY <1>3 DEF SettleWrite, RunOver
    <2>2. PICK b : b = settling[r]
      OBVIOUS
    <2>3. b \in Writes(r) /\ Outcome(r, b)
      BY <2>1, <2>2 DEF Writes, KindsSound
    <2>4. \/ UNCHANGED <<job, slot, lapsed>>
          \/ Holds(b.slot, r) /\ Apply(r[1], b) /\ lapsed' = [lapsed EXCEPT ![r] = 0]
      BY <1>3, <2>2 DEF SettleWrite, Release, rows
    <2>5. ~ Executing(r)'
      BY <1>0, <2>1 DEF TypeOK, Executing
    <2>6. CASE Holds(b.slot, r) /\ Apply(r[1], b) /\ lapsed' = [lapsed EXCEPT ![r] = 0]
      <3>1. Finished(r)' /\ Protected
        BY <2>3, <2>5, <2>6, BatchProtects
      <3>2. \A q \in Runs : lapsed[q] <= lapsed'[q] \/ Finished(q)'
        BY <1>0, <2>6, <3>1, SameClock
      <3> QED
        BY <2>1, <3>1, <3>2, ClocksGoOn
    <2> QED
      BY <2>1, <2>4, <2>6, <1>1
  <1> QED
    BY <1>1, <1>2, <1>3 DEF HeartbeatRead, RunEnds, Abandon, WorkerDone, rows

LEMMA LeaseExpiryProtects ==
  ASSUME IInv, ClocksSound, TypeOK', LifecycleStep, NEW r \in Runs, LeaseExpires(r)
  PROVE  ClocksSound' /\ Protected
  <1>1. lapsed' = [lapsed EXCEPT ![r] = @ + 1] /\ UNCHANGED <<job, slot, tick>>
    BY DEF LeaseExpires, rows
  <1>2. lapsed \in [Runs -> Nat]
    BY QueueConstants DEF IInv, TypeOK, Clock
  <1>3. \A q \in Runs : lapsed[q] <= lapsed'[q]
    BY <1>1, <1>2
  <1> QED
    BY <1>1, <1>3, ClocksGoOn, RowsProtect

LEMMA NodeProtects ==
  ASSUME IInv, ClocksSound, TypeOK', LifecycleStep, NEW n \in Nodes, Close(n) \/ GraceOver(n) \/ Exit(n)
  PROVE  ClocksSound' /\ Protected
  <1>0. TypeOK
    BY DEF IInv
  <1>1. UNCHANGED <<job, slot, lapsed>>
    BY DEF Close, GraceOver, Exit, rows
  <1>2. \A k \in Ticks : tick'[k] = tick[k] \/ tick'[k].pc = "idle"
    BY DEF Close, GraceOver, Exit, Idle
  <1>3. \A k \in Ticks : tick'[k] = tick[k] \/ ClockSound(k)'
    BY <1>2 DEF ClockSound
  <1>4. \A q \in Runs : lapsed[q] <= lapsed'[q] \/ Finished(q)'
    BY <1>0, <1>1, SameClock
  <1> QED
    BY <1>1, <1>3, <1>4, ClocksGoOn, RowsProtect

LEMMA LeaseInductive ==
  IInv /\ InFlightSound /\ ClocksSound /\ [Next]_vars => ClocksSound' /\ Protected
  <1> SUFFICES ASSUME IInv, InFlightSound, ClocksSound, [Next]_vars PROVE ClocksSound' /\ Protected
    OBVIOUS
  <1>0. TypeOK' /\ LifecycleStep /\ KindsSound
    BY Inductive DEF IInv, InFlightSound
  <1>1. ASSUME NEW k \in Ticks, TickStep(k) PROVE ClocksSound' /\ Protected
    BY <1>0, <1>1, TickReads, ReaperProtects, ClaimProtects DEF TickStep
  <1>2. ASSUME NEW r \in Runs, HeartbeatRead(r) \/ HeartbeatWrite(r) \/ RunEnds(r)
        PROVE  ClocksSound' /\ Protected
    BY <1>0, <1>2, RunProtects
  <1>3. ASSUME NEW r \in Runs, LeaseExpires(r) PROVE ClocksSound' /\ Protected
    BY <1>0, <1>3, LeaseExpiryProtects
  <1>4. ASSUME NEW n \in Nodes, Close(n) \/ GraceOver(n) \/ Exit(n) PROVE ClocksSound' /\ Protected
    BY <1>0, <1>4, NodeProtects
  <1>5. CASE \/ \E j \in Jobs : Enqueue(j)
             \/ \E x \in Cancellers : CancelWrite(x) \/ \E j \in Jobs : CancelRead(x, j)
             \/ \E k \in Ticks, j \in Jobs : DeleteExpired(k, j)
    BY <1>0, <1>5, AppProtects
  <1>6. CASE UNCHANGED vars
    <2>1. UNCHANGED <<job, slot, lapsed, tick>>
      BY <1>6 DEF vars, rows
    <2> QED
      BY <1>0, <2>1, TicksStay, RowsProtect
  <1> QED
    BY <1>1, <1>2, <1>3, <1>4, <1>5, <1>6 DEF Next

\* While its lease has not expired, a run that goes on keeps its job and its slot, whatever
\* other nodes have read and write; but for a revision of the slot that is used twice, and a job that a
\* cancel() overwrites.
THEOREM LeaseCorrect == Spec => LeaseProtects
  <1>1. Init => ClocksSound
    BY InitClocks
  <1>2. IInv /\ InFlightSound /\ ClocksSound /\ [Next]_vars => ClocksSound'
    BY LeaseInductive
  <1>3. IInv /\ InFlightSound /\ ClocksSound /\ [Next]_vars => [Protected]_vars
    BY LeaseInductive
  <1>4. Spec => [][Protected]_vars
    BY <1>1, <1>2, <1>3, Invariant, PTL DEF Spec
  <1> QED
    BY <1>4 DEF LeaseProtects, Protected
=============================================================================
