----------------------------- MODULE Schedules -----------------------------
(***************************************************************************)
(* The cron schedules of packages/plugin-queue: every node polls for the   *)
(* schedules that are due, reckons the occurrences that have passed, and   *)
(* in one conditionalBatch, fenced by the revision of the schedule row,    *)
(* inserts a job for each occurrence it selects and moves nextRunAt past   *)
(* the present.  The id of such a job is the schedule and the occurrence   *)
(* in local time (occurrenceKey): where the clock is set back, or the      *)
(* schedule moves to another zone, two occurrences may have one key.       *)
(*                                                                         *)
(* Time counts ticks of one clock that all nodes read.  A job is active    *)
(* (queued or running), over, or not there.                                *)
(***************************************************************************)
EXTENDS Naturals, FiniteSetsExt

CONSTANTS
  Schedules,    \* schedule ids; an id is not used again once deleted
  Ticks,        \* scheduleTick calls in flight, on any node
  Editors,      \* updateSchedule and deleteSchedule calls in flight
  Zones,        \* time zones
  Fires,        \* the times at which the cron expression fires, in each zone
  Keys,         \* local times
  Key,          \* dayjs(at).tz(timezone).format(...)
  Policies,     \* misfirePolicy, overlapPolicy and maxCatchUp of a schedule
  Window,       \* max(1000, 2 * pollIntervalMs): what `skip` still takes
  Triggers,     \* random ids of triggered jobs
  MaxTime,      \* bound: the clock stops here
  Mortal,       \* ticks that a failure or the end of the process may cut short
  MaxEdits      \* bound: updates and deletes

Time == 0..MaxTime

ASSUME ScheduleConstants ==
  /\ MaxTime \in Nat /\ MaxEdits \in Nat /\ Window \in Nat /\ Mortal \subseteq Ticks
  /\ Fires \in [Zones -> SUBSET Time]
  /\ Key \in [Zones -> [Time -> Keys]]
  /\ Policies \subseteq [misfire : {"all", "latest", "skip"}, overlap : {"allow", "skip"},
                         maxCatchUp : Nat \ {0}]
  /\ Keys \cap Triggers = {}

\* nextRunAt may lie beyond the last instant; `since` is history: the schedule has not been
\* edited after that.
ScheduleRow == [enabled : BOOLEAN, zone : Zones, policy : Policies, next : 0..(MaxTime + 1),
                revision : Nat, since : Time]
None == [there |-> FALSE]
Gone == [there |-> FALSE, deleted |-> TRUE]

\* What advanceSchedule has reckoned: the occurrences it selected and the next one.
Plan == [selected : SUBSET Time, cursor : 0..(MaxTime + 1)]

TickState(s, seen) ==
  [pc : {"due"}, seen : [seen -> ScheduleRow]]
  \cup [pc : {"reckoned", "ready"}, seen : [seen -> ScheduleRow], s : {s}, plan : Plan]

Patches == {"pause", "resume", "delete"} \cup Zones

VARIABLES
  now,      \* Date.now()
  row,      \* __queue_schedules
  job,      \* __queue_jobs: the jobs of each schedule
  tick,     \* where each scheduleTick is
  edit,     \* where each updateSchedule or deleteSchedule is
  created,  \* history: jobs created for each occurrence
  edits     \* bound: updates and deletes so far

vars == <<now, row, job, tick, edit, created, edits>>

TypeOK ==
  /\ now \in Time
  /\ row \in [Schedules -> ScheduleRow \cup {None, Gone}]
  /\ job \in [Schedules -> [Keys \cup Triggers -> {"none", "active", "over"}]]
  /\ DOMAIN tick = Ticks
  /\ \A k \in Ticks : \/ tick[k] = [pc |-> "idle"]
                      \/ \E s \in Schedules, seen \in SUBSET Schedules : tick[k] \in TickState(s, seen)
  /\ edit \in [Editors -> [pc : {"idle"}]
               \cup [pc : {"read"}, s : Schedules, row : ScheduleRow, patch : Patches, at : Time]]
  /\ created \in [Schedules -> [Time -> Nat]]
  /\ edits \in 0..MaxEdits

Idle == [pc |-> "idle"]

Init ==
  /\ now = 0
  /\ row = [s \in Schedules |-> None]
  /\ job = [s \in Schedules |-> [id \in Keys \cup Triggers |-> "none"]]
  /\ tick = [k \in Ticks |-> Idle]
  /\ edit = [e \in Editors |-> Idle]
  /\ created = [s \in Schedules |-> [t \in Time |-> 0]]
  /\ edits = 0

There(s) == row[s] \notin {None, Gone}

-----------------------------------------------------------------------------
(* Reckoning, on a row as it was read.                                     *)

\* parseCron: the first time after t.
NextFire(z, t) ==
  LET later == {u \in Fires[z] : u > t} IN IF later = {} THEN MaxTime + 1 ELSE Min(later)

\* Faulty: the occurrence of this very moment is left out.
MissedBefore(r) ==
  LET passed == {u \in {r.next} \cup Fires[r.zone] : r.next <= u /\ u < now} IN
  {u \in passed : Cardinality({v \in passed : v < u}) < r.policy.maxCatchUp}

\* The occurrences that have passed and are looked at: the first maxCatchUp from nextRunAt.
Missed(r) ==
  LET passed == {u \in {r.next} \cup Fires[r.zone] : r.next <= u /\ u <= now} IN
  {u \in passed : Cardinality({v \in passed : v < u}) < r.policy.maxCatchUp}

\* One occurrence per key, the last one.
Distinct(z, times) == {u \in times : \A v \in times : Key[z][v] = Key[z][u] => v <= u}

\* The occurrences the misfire policy takes.
Selected(r) ==
  LET missed == Missed(r) IN
  Distinct(r.zone,
    CASE r.policy.misfire = "all" -> missed
      [] r.policy.misfire = "skip" -> {u \in missed : now - u <= Window}
      [] r.policy.misfire = "latest" -> {u \in missed : \A v \in missed : v <= u})

-----------------------------------------------------------------------------
(* scheduleTick and advanceSchedule.                                       *)

Due(s) == There(s) /\ row[s].enabled /\ row[s].next <= now

\* Faulty: a schedule is due once its time is over.
ScheduleTickLate(k) ==
  LET due == {s \in Schedules : Due(s) /\ row[s].next < now} IN
  /\ tick[k] = Idle /\ due # {}
  /\ tick' = [tick EXCEPT ![k] = [pc |-> "due", seen |-> [s \in due |-> row[s]]]]
  /\ UNCHANGED <<now, row, job, edit, created, edits>>

\* scheduleTick lists the schedules that are due.
ScheduleTick(k) ==
  LET due == {s \in Schedules : Due(s)} IN
  /\ tick[k] = Idle /\ due # {}
  /\ tick' = [tick EXCEPT ![k] = [pc |-> "due", seen |-> [s \in due |-> row[s]]]]
  /\ UNCHANGED <<now, row, job, edit, created, edits>>

\* advanceSchedule, in the order of nextRunAt: what to create, from the row as listed.
Reckon(k, s) ==
  LET seen == tick[k].seen IN
  /\ tick[k].pc = "due" /\ s \in DOMAIN seen
  /\ \A u \in DOMAIN seen : seen[s].next <= seen[u].next
  /\ tick' = [tick EXCEPT ![k] =
       [pc |-> IF seen[s].policy.overlap = "skip" THEN "reckoned" ELSE "ready", seen |-> seen, s |-> s,
        plan |-> [selected |-> Selected(seen[s]), cursor |-> NextFire(seen[s].zone, now)]]]
  /\ UNCHANGED <<now, row, job, edit, created, edits>>

\* The overlap policy `skip` reads whether a job of the schedule is queued or running.
CheckOverlap(k) ==
  /\ tick[k].pc = "reckoned"
  /\ tick' = [tick EXCEPT
       ![k].pc = "ready",
       ![k].plan.selected = IF \E id \in Keys \cup Triggers : job[tick[k].s][id] = "active"
                            THEN {} ELSE @]
  /\ UNCHANGED <<now, row, job, edit, created, edits>>

\* The rest of the list; the tick is over when there is none.
Rest(k) ==
  LET left == DOMAIN tick[k].seen \ {tick[k].s} IN
  IF left = {} THEN Idle ELSE [pc |-> "due", seen |-> [s \in left |-> tick[k].seen[s]]]

Ids(s, r, plan) == {Key[r.zone][u] : u \in plan.selected}

\* Faulty: the schedule row is only required to exist.
Unfenced(s, r) == There(s)

\* eq('revision', schedule.revision), of a row that is still there.
Fresh(s, r) == There(s) /\ row[s].revision = r.revision

\* Faulty: the revision stays as it was.
AdvancedInPlace(r, plan) == [r EXCEPT !.next = plan.cursor]

\* Faulty: the next search starts after the next occurrence.
AdvancedPast(r, plan) == [r EXCEPT !.next = plan.cursor + 1, !.revision = @ + 1]

\* The schedule row as it was listed, with nextRunAt moved on.
Advanced(r, plan) == [r EXCEPT !.next = plan.cursor, !.revision = @ + 1]

\* The batch: jobs and schedule, if nobody has written the schedule since.
Advance(k) ==
  LET s == tick[k].s
      r == tick[k].seen[s]
      plan == tick[k].plan IN
  /\ tick[k].pc = "ready" /\ Fresh(s, r)
  /\ \A id \in Ids(s, r, plan) : job[s][id] = "none"
  /\ job' = [job EXCEPT ![s] = [id \in DOMAIN @ |-> IF id \in Ids(s, r, plan) THEN "active" ELSE @[id]]]
  /\ row' = [row EXCEPT ![s] = Advanced(r, plan)]
  /\ created' = [created EXCEPT ![s] = [t \in Time |-> IF t \in plan.selected THEN @[t] + 1 ELSE @[t]]]
  /\ tick' = [tick EXCEPT ![k] = Rest(k)]
  /\ UNCHANGED <<now, edit, edits>>

\* The fence fails: another node was faster, or the schedule was edited.
Overtaken(k) ==
  /\ tick[k].pc = "ready" /\ ~ Fresh(tick[k].s, tick[k].seen[tick[k].s])
  /\ tick' = [tick EXCEPT ![k] = Rest(k)]
  /\ UNCHANGED <<now, row, job, edit, created, edits>>

\* A job with that id exists: the insert throws, the batch is undone, and the tick ends with
\* the schedules it has not got to.
Conflict(k) ==
  LET s == tick[k].s IN
  /\ tick[k].pc = "ready" /\ Fresh(s, tick[k].seen[s])
  /\ \E id \in Ids(s, tick[k].seen[s], tick[k].plan) : job[s][id] # "none"
  /\ tick' = [tick EXCEPT ![k] = Idle]
  /\ UNCHANGED <<now, row, job, edit, created, edits>>

\* The process ends, the store does not answer, or this node does not define the queue of the
\* schedule, and definition() throws: the tick ends, with what it has not got to.
Crash(k) ==
  /\ k \in Mortal /\ tick[k] # Idle
  /\ tick' = [tick EXCEPT ![k] = Idle]
  /\ UNCHANGED <<now, row, job, edit, created, edits>>

-----------------------------------------------------------------------------
(* The application.                                                        *)

CreateSchedule(s, z, policy, enabled) ==
  /\ row[s] = None
  /\ row' = [row EXCEPT ![s] = [enabled |-> enabled, zone |-> z, policy |-> policy, next |-> NextFire(z, now),
                                revision |-> 0, since |-> now]]
  /\ UNCHANGED <<now, job, tick, edit, created, edits>>

\* updateSchedule and deleteSchedule read the row ...
EditRead(e, s, patch) ==
  /\ edit[e] = Idle /\ There(s) /\ edits < MaxEdits /\ edits' = edits + 1
  /\ edit' = [edit EXCEPT ![e] = [pc |-> "read", s |-> s, row |-> row[s], patch |-> patch, at |-> now]]
  /\ UNCHANGED <<now, row, job, tick, created>>

\* ... and nextRunAt is reckoned anew for another zone and when the schedule is resumed.
Patched(r, patch, at) ==
  LET zone == IF patch \in Zones THEN patch ELSE r.zone
      anew == patch \in Zones \/ (patch = "resume" /\ ~ r.enabled) IN
  [enabled |-> IF patch = "pause" THEN FALSE ELSE IF patch = "resume" THEN TRUE ELSE r.enabled,
   zone |-> zone, policy |-> r.policy,
   next |-> IF anew THEN NextFire(zone, at) ELSE r.next,
   revision |-> r.revision + 1,
   since |-> IF anew THEN at ELSE r.since]

\* ... write it, fenced by the revision, and begin again if the fence fails.
EditWrite(e) ==
  LET w == edit[e] IN
  /\ w.pc = "read"
  /\ edit' = [edit EXCEPT ![e] =
       IF Fresh(w.s, w.row) \/ ~ There(w.s) THEN Idle ELSE [w EXCEPT !.row = row[w.s], !.at = now]]
  /\ row' = IF ~ Fresh(w.s, w.row) THEN row
            ELSE [row EXCEPT ![w.s] =
                    IF w.patch = "delete" THEN Gone ELSE Patched(w.row, w.patch, w.at)]
  /\ UNCHANGED <<now, job, tick, created, edits>>

\* triggerSchedule enqueues a job of the schedule under a random id.
TriggerSchedule(s, id) ==
  /\ There(s) /\ job[s][id] = "none"
  /\ job' = [job EXCEPT ![s][id] = "active"]
  /\ UNCHANGED <<now, row, tick, edit, created, edits>>

\* The queue: a job comes to an end, and is deleted when its retention is over.
JobEnds(s, id) ==
  /\ job[s][id] = "active"
  /\ job' = [job EXCEPT ![s][id] = "over"]
  /\ UNCHANGED <<now, row, tick, edit, created, edits>>

JobDeleted(s, id) ==
  /\ job[s][id] = "over"
  /\ job' = [job EXCEPT ![s][id] = "none"]
  /\ UNCHANGED <<now, row, tick, edit, created, edits>>

TimePasses ==
  /\ now < MaxTime /\ now' = now + 1
  /\ UNCHANGED <<row, job, tick, edit, created, edits>>

-----------------------------------------------------------------------------
TickStep(k) ==
  \/ ScheduleTick(k) \/ CheckOverlap(k) \/ Advance(k) \/ Overtaken(k) \/ Conflict(k)
  \/ \E s \in Schedules : Reckon(k, s)

Next ==
  \/ TimePasses
  \/ \E k \in Ticks : TickStep(k) \/ Crash(k)
  \/ \E s \in Schedules, z \in Zones, policy \in Policies, enabled \in BOOLEAN :
       CreateSchedule(s, z, policy, enabled)
  \/ \E e \in Editors : EditWrite(e) \/ \E s \in Schedules, patch \in Patches : EditRead(e, s, patch)
  \/ \E s \in Schedules : \E id \in Triggers : TriggerSchedule(s, id)
  \/ \E s \in Schedules : \E id \in Keys \cup Triggers : JobEnds(s, id) \/ JobDeleted(s, id)

Spec == Init /\ [][Next]_vars

\* Every node polls for ever, and some tick is not cut short.
Fairness == \A k \in Ticks : WF_vars(TickStep(k))

\* The queue brings every job of an occurrence to its end and, its retention not being null,
\* deletes it.
Retention == \A s \in Schedules, id \in Keys : WF_vars(JobEnds(s, id)) /\ WF_vars(JobDeleted(s, id))

FairSpec == Spec /\ Fairness /\ Retention

-----------------------------------------------------------------------------
(* Properties.                                                             *)

\* "Conditional batches make two cluster nodes unable to create the same occurrence": an
\* occurrence gets one job at most, whichever ticks and edits interleave, and even after the
\* job row has been deleted and its id is free again.
OccurrencesOnce == \A s \in Schedules, t \in Time : created[s][t] <= 1

Creates(s) == created'[s] # created[s]

\* A tick that listed the schedule before it was paused or deleted creates nothing after.
PausedStaysQuiet == [][\A s \in Schedules : Creates(s) => There(s) /\ row[s].enabled]_vars

\* With `overlapPolicy: 'skip'` no run is created while one that the schedule created before
\* is queued or running, although that is read long before the batch is written.
SkipsWhileActive ==
  [][\A s \in Schedules : Creates(s) /\ row[s].policy.overlap = "skip"
       => \A id \in Keys : job[s][id] # "active"]_vars

\* "`all` creates every missed occurrence up to `maxCatchUp`": nextRunAt never gets past an
\* occurrence that has no job, be it through a crash or through a race, except for a later
\* one with the same key.
NothingMissed ==
  \A s \in Schedules :
    There(s) /\ row[s].policy.misfire = "all" /\ row[s].policy.overlap = "allow"
    /\ row[s].policy.maxCatchUp > MaxTime =>
      \A t \in Fires[row[s].zone] : row[s].since < t /\ t < row[s].next =>
        \E u \in Time : created[s][u] > 0 /\ u >= t /\ Key[row[s].zone][u] = Key[row[s].zone][t]

\* A schedule that is due moves on, or is edited, although the batch is refused, and the tick
\* ends, as often as it is tried while another job has the key of an occurrence, and although
\* ticks fail: it is held up until the row of that job is deleted, and no longer.
DueSchedulesAdvance ==
  \A s \in Schedules : \A t \in UNION {Fires[z] : z \in Zones} :
    Due(s) /\ row[s].next = t ~> ~ (Due(s) /\ row[s].next = t)
=============================================================================
