-------------------------- MODULE SchedulesProofs --------------------------
(***************************************************************************)
(* The schedules, for any number of them, of ticks, editors, zones, keys   *)
(* and policies: the types, that no occurrence gets two jobs and that none *)
(* is left out which the policy keeps, and that what a tick read long      *)
(* before its batch still holds when the batch is applied.                 *)
(***************************************************************************)
EXTENDS Schedules, FiniteSetTheorems, WellFoundedInduction, TLAPS

\* What somebody has read of a schedule is older than the row, or the row, as long as there is one.
Known(s, r) ==
  /\ row[s] # None
  /\ There(s) => r.revision <= row[s].revision /\ (r.revision = row[s].revision => r = row[s])

\* The rows a tick has listed were due then.
TickKnows(k) ==
  tick[k].pc # "idle" =>
    \A s \in DOMAIN tick[k].seen :
      /\ Known(s, tick[k].seen[s])
      /\ tick[k].seen[s].enabled /\ tick[k].seen[s].next <= now

TicksKnow == \A k \in Ticks : TickKnows(k)

\* What an editor writes for a schedule begins after every job of it.
EditKnows(e) ==
  edit[e].pc = "read" =>
    /\ Known(edit[e].s, edit[e].row)
    /\ Fresh(edit[e].s, edit[e].row) =>
         \A t \in Time : created[edit[e].s][t] > 0 => t <= edit[e].at

EditsKnow == \A e \in Editors : EditKnows(e)

\* Policies under which every occurrence gets a job.
Thorough(policy) == policy.misfire = "all" /\ policy.overlap = "allow" /\ policy.maxCatchUp > MaxTime

\* Among these times there is one for the occurrence t.
Served(z, times, t) == \E u \in times : u >= t /\ Key[z][u] = Key[z][t]

\* A plan lies between the occurrence the row waits for and the next one ...
Bounded(r, plan) ==
  /\ r.next <= plan.cursor
  /\ \A u \in plan.selected : r.next <= u /\ u < plan.cursor

\* ... and leaves none out.
Complete(r, plan) ==
  Thorough(r.policy) =>
    \A t \in Fires[r.zone] : r.next <= t /\ t < plan.cursor => Served(r.zone, plan.selected, t)

NoneActive(s) == \A id \in Keys : job[s][id] # "active"

PlanHolds(k) ==
  tick[k].pc \in {"reckoned", "ready"} =>
    LET s == tick[k].s
        r == tick[k].seen[s]
        plan == tick[k].plan IN
    /\ s \in DOMAIN tick[k].seen
    /\ Bounded(r, plan) /\ Complete(r, plan)
    /\ \A u \in plan.selected : u <= now
    /\ tick[k].pc = "reckoned" => r.policy.overlap = "skip"
    /\ tick[k].pc = "ready" /\ r.policy.overlap = "skip" /\ plan.selected # {} /\ Fresh(s, r) =>
         NoneActive(s)

PlansHold == \A k \in Ticks : PlanHolds(k)

\* A schedule waits for a time after all that have a job, once each, and has passed no other.
JobsArePast(s) ==
  \A t \in Time : created[s][t] > 0 =>
    t <= now /\ row[s] # None /\ (There(s) => t < row[s].next)

Once(s) == \A t \in Time : created[s][t] <= 1

AllServed(s) ==
  There(s) /\ Thorough(row[s].policy) =>
    \A t \in Fires[row[s].zone] : row[s].since < t /\ t < row[s].next =>
      \E u \in Time : created[s][u] > 0 /\ u >= t /\ Key[row[s].zone][u] = Key[row[s].zone][t]

Sound(s) == JobsArePast(s) /\ Once(s) /\ AllServed(s)

HistoryIsSound == \A s \in Schedules : Sound(s)

IInv == TypeOK /\ TicksKnow /\ EditsKnow /\ PlansHold /\ HistoryIsSound

-----------------------------------------------------------------------------
(* Reckoning.                                                              *)

LEMMA MinOfNats ==
  ASSUME NEW S \in SUBSET Nat, S # {}
  PROVE  Min(S) \in S /\ \A x \in S : Min(S) <= x
  <1> DEFINE R == {ss \in Nat \X Nat : ss[1] < ss[2]}
  <1>1. IsWellFoundedOn(R, Nat)
    BY NatLessThanWellFounded, Zenon DEF OpToRel
  <1>0. \A x, y \in Nat : y < x => <<y, x>> \in R
    OBVIOUS
  <1> HIDE DEF R
  <1>2. PICK x \in S : \A y \in S : ~ (<<y, x>> \in R)
    BY <1>1, WFMin
  <1>3. \A y \in S : x <= y
    <2> SUFFICES ASSUME NEW y \in S, ~ (x <= y) PROVE FALSE
      OBVIOUS
    <2>1. x \in Nat /\ y \in Nat /\ y < x
      OBVIOUS
    <2> QED
      BY <1>0, <1>2, <2>1
  <1> QED
    BY <1>3 DEF Min

LEMMA MaxOfTimes ==
  ASSUME NEW S \in SUBSET Time, S # {}
  PROVE  \E x \in S : \A y \in S : y <= x
  <1> DEFINE T == {MaxTime - y : y \in S}
  <1>0. MaxTime \in Nat
    BY ScheduleConstants
  <1>1. T \in SUBSET Nat /\ T # {}
    BY <1>0 DEF Time
  <1>2. Min(T) \in T /\ \A y \in T : Min(T) <= y
    BY <1>1, MinOfNats
  <1>3. PICK x \in S : Min(T) = MaxTime - x
    BY <1>2
  <1>4. \A y \in S : MaxTime - x <= MaxTime - y
    BY <1>2, <1>3
  <1>5. \A y \in S : y <= x
    BY <1>0, <1>4 DEF Time
  <1> QED
    BY <1>5

\* parseCron gives the first occurrence after a time.
LEMMA NextFireIsNext ==
  ASSUME NEW z \in Zones, NEW t \in Time
  PROVE  /\ NextFire(z, t) \in 0..(MaxTime + 1)
         /\ t < NextFire(z, t)
         /\ \A u \in Fires[z] : t < u => NextFire(z, t) <= u
  <1> DEFINE later == {u \in Fires[z] : u > t}
  <1>0. MaxTime \in Nat /\ Fires[z] \subseteq Time /\ Time \subseteq Nat /\ t \in 0..MaxTime
    BY ScheduleConstants DEF Time
  <1>1. CASE later = {}
    <2>1. NextFire(z, t) = MaxTime + 1
      BY <1>1 DEF NextFire
    <2> QED
      BY <1>0, <1>1, <2>1
  <1>2. CASE later # {}
    <2>1. NextFire(z, t) = Min(later)
      BY <1>2 DEF NextFire
    <2>2. Min(later) \in later /\ \A x \in later : Min(later) <= x
      BY <1>0, <1>2, MinOfNats
    <2>3. Min(later) \in 0..MaxTime
      BY <1>0, <2>2 DEF Time
    <2> QED
      BY <1>0, <2>1, <2>2, <2>3
  <1> QED
    BY <1>1, <1>2

\* A row that is due.
DueRow(r) == r \in ScheduleRow /\ r.next <= now

LEMMA MissedIsPast ==
  ASSUME TypeOK, NEW r, DueRow(r)
  PROVE  /\ Missed(r) \subseteq Time
         /\ \A u \in Missed(r) : r.next <= u /\ u <= now
  <1>1. /\ r.next \in 0..(MaxTime + 1) /\ r.next <= now /\ now \in 0..MaxTime /\ MaxTime \in Nat
        /\ Fires[r.zone] \subseteq Time
    BY ScheduleConstants DEF DueRow, ScheduleRow, TypeOK, Time
  <1> QED
    BY <1>1 DEF Missed, Time

LEMMA SelectedIsMissed ==
  ASSUME TypeOK, NEW r, DueRow(r)
  PROVE  Selected(r) \subseteq Missed(r)
  <1>1. r.policy.misfire \in {"all", "latest", "skip"}
    BY ScheduleConstants DEF DueRow, ScheduleRow
  <1>2. CASE r.policy.misfire = "all"
    BY <1>2 DEF Selected, Distinct
  <1>3. CASE r.policy.misfire = "skip"
    BY <1>3 DEF Selected, Distinct
  <1>4. CASE r.policy.misfire = "latest"
    BY <1>4 DEF Selected, Distinct
  <1> QED
    BY <1>1, <1>2, <1>3, <1>4

\* With room for all of time, everything that has passed is looked at.
LEMMA ThoroughMissesNone ==
  ASSUME TypeOK, NEW r, DueRow(r), Thorough(r.policy),
         NEW t \in Fires[r.zone], r.next <= t, t <= now
  PROVE  t \in Missed(r)
  <1> DEFINE passed == {u \in {r.next} \cup Fires[r.zone] : r.next <= u /\ u <= now}
             before == {v \in passed : v < t}
  <1>1. /\ r.next \in 0..(MaxTime + 1) /\ r.next <= now /\ now \in 0..MaxTime /\ MaxTime \in Nat
        /\ Fires[r.zone] \subseteq Time /\ r.policy.maxCatchUp \in Nat /\ r.policy.maxCatchUp > MaxTime
    BY ScheduleConstants DEF DueRow, ScheduleRow, TypeOK, Time, Thorough
  <1>2. t \in 0..MaxTime /\ passed \subseteq 0..MaxTime
    BY <1>1 DEF Time
  <1>3. before \subseteq 0..(t - 1) /\ 0 \in Int /\ t - 1 \in Int
    BY <1>1, <1>2
  <1>4. IsFiniteSet(0..(t - 1)) /\ Cardinality(0..(t - 1)) <= t
    <2>1. /\ IsFiniteSet(0..(t - 1))
          /\ Cardinality(0..(t - 1)) = IF 0 > t - 1 THEN 0 ELSE (t - 1) - 0 + 1
      BY <1>3, FS_Interval
    <2> QED
      BY <1>2, <2>1
  <1>5. IsFiniteSet(before) /\ Cardinality(before) <= Cardinality(0..(t - 1))
    BY <1>3, <1>4, FS_Subset
  <1>6. Cardinality(before) \in Nat /\ Cardinality(0..(t - 1)) \in Nat
    BY <1>4, <1>5, FS_CardinalityType
  <1>7. Cardinality(before) < r.policy.maxCatchUp
    BY <1>1, <1>2, <1>4, <1>5, <1>6
  <1> QED
    BY <1>7 DEF Missed

\* advanceSchedule plans as it should.
LEMMA PlanIsGood ==
  ASSUME TypeOK, NEW r, DueRow(r), NEW plan,
         plan = [selected |-> Selected(r), cursor |-> NextFire(r.zone, now)]
  PROVE  plan \in Plan /\ Bounded(r, plan) /\ Complete(r, plan) /\ \A u \in plan.selected : u <= now
  <1>1. /\ r.next \in 0..(MaxTime + 1) /\ r.next <= now /\ now \in Time /\ r.zone \in Zones
        /\ Fires[r.zone] \subseteq Time /\ MaxTime \in Nat /\ now \in Nat /\ r.next \in Nat
        /\ \A t \in Time : t \in Nat
    BY ScheduleConstants DEF DueRow, ScheduleRow, TypeOK, Time
  <1>2. /\ plan.cursor \in 0..(MaxTime + 1) /\ now < plan.cursor
        /\ \A u \in Fires[r.zone] : now < u => plan.cursor <= u
    BY <1>1, NextFireIsNext
  <1>3. /\ plan.selected = Selected(r) /\ Selected(r) \subseteq Missed(r) /\ Missed(r) \subseteq Time
        /\ \A u \in Missed(r) : r.next <= u /\ u <= now
    BY MissedIsPast, SelectedIsMissed
  <1>4. plan \in Plan
    BY <1>2, <1>3 DEF Plan
  <1>5. Bounded(r, plan) /\ \A u \in plan.selected : u <= now
    <2>1. plan.cursor \in Nat /\ r.next <= plan.cursor
      BY <1>1, <1>2
    <2>2. \A u \in plan.selected : u \in Nat /\ r.next <= u /\ u <= now
      BY <1>1, <1>3
    <2>3. \A u \in plan.selected : u < plan.cursor
      BY <1>1, <1>2, <2>1, <2>2
    <2> QED
      BY <2>1, <2>2, <2>3 DEF Bounded
  <1>6. Complete(r, plan)
    <2> SUFFICES ASSUME Thorough(r.policy),
                        NEW t \in Fires[r.zone], r.next <= t, t < plan.cursor
                 PROVE  Served(r.zone, plan.selected, t)
      BY DEF Complete
    <2>1. t <= now
      <3>1. t \in Time
        BY <1>1
      <3>2. t \in Nat /\ plan.cursor \in Nat
        BY <1>1, <1>2, <3>1
      <3> QED
        BY <1>1, <1>2, <3>2
    <2>2. t \in Missed(r)
      BY <2>1, ThoroughMissesNone
    <2> DEFINE like == {v \in Missed(r) : Key[r.zone][v] = Key[r.zone][t]}
    <2>3. like \in SUBSET Time /\ like # {}
      BY <1>3, <2>2
    <2>4. PICK u \in like : \A v \in like : v <= u
      BY <2>3, MaxOfTimes
    <2>5. Selected(r) = Distinct(r.zone, Missed(r))
      BY DEF Selected, Thorough
    <2>6. u \in Selected(r)
      BY <2>4, <2>5 DEF Distinct
    <2>7. u >= t /\ Key[r.zone][u] = Key[r.zone][t]
      BY <1>1, <1>3, <2>2, <2>4
    <2> QED
      BY <1>3, <2>6, <2>7 DEF Served
  <1> QED
    BY <1>4, <1>5, <1>6

-----------------------------------------------------------------------------
(* What a step leaves true.                                                *)

LEMMA RowsAreThere ==
  ASSUME NEW r \in ScheduleRow
  PROVE  r # None /\ r # Gone
  <1>1. "enabled" \in DOMAIN r
    BY DEF ScheduleRow
  <1>2. "enabled" \notin DOMAIN None /\ "enabled" \notin DOMAIN Gone
    BY DEF None, Gone
  <1> QED
    BY <1>1, <1>2

\* The parts of a tick, by where it is.
TickOK(x) ==
  \/ x = [pc |-> "idle"]
  \/ \E s \in Schedules, seen \in SUBSET Schedules : x \in TickState(s, seen)

LEMMA TickShape ==
  ASSUME TypeOK, NEW k \in Ticks
  PROVE  /\ tick[k].pc \in {"idle", "due", "reckoned", "ready"}
         /\ tick[k].pc = "idle" <=> tick[k] = Idle
         /\ tick[k].pc # "idle" => /\ DOMAIN tick[k].seen \subseteq Schedules
                                   /\ \A s \in DOMAIN tick[k].seen : tick[k].seen[s] \in ScheduleRow
         /\ tick[k].pc \in {"reckoned", "ready"} => tick[k].s \in Schedules /\ tick[k].plan \in Plan
  <1>1. CASE tick[k] = [pc |-> "idle"]
    BY <1>1 DEF Idle
  <1>2. ASSUME NEW s \in Schedules, NEW seen \in SUBSET Schedules, tick[k] \in TickState(s, seen)
        PROVE  /\ tick[k].pc \in {"due", "reckoned", "ready"}
               /\ DOMAIN tick[k].seen = seen
               /\ \A u \in seen : tick[k].seen[u] \in ScheduleRow
               /\ tick[k].pc \in {"reckoned", "ready"} => tick[k].s = s /\ tick[k].plan \in Plan
    BY <1>2 DEF TickState
  <1>3. Idle.pc = "idle"
    BY DEF Idle
  <1> QED
    BY <1>1, <1>2, <1>3 DEF TypeOK

\* Where a tick goes when it is done with a schedule.
LEMMA RestShape ==
  ASSUME TypeOK, NEW k \in Ticks, tick[k].pc \in {"reckoned", "ready"}
  PROVE  /\ TickOK(Rest(k)) /\ Rest(k).pc \in {"idle", "due"}
         /\ Rest(k).pc = "due" => /\ DOMAIN Rest(k).seen \subseteq DOMAIN tick[k].seen
                                  /\ \A s \in DOMAIN Rest(k).seen : Rest(k).seen[s] = tick[k].seen[s]
  <1> DEFINE left == DOMAIN tick[k].seen \ {tick[k].s}
             rest == [pc |-> "due", seen |-> [s \in left |-> tick[k].seen[s]]]
  <1>0. /\ DOMAIN tick[k].seen \subseteq Schedules /\ tick[k].s \in Schedules
        /\ \A s \in DOMAIN tick[k].seen : tick[k].seen[s] \in ScheduleRow
    BY TickShape
  <1>1. CASE left = {}
    <2>1. Rest(k) = [pc |-> "idle"]
      BY <1>1 DEF Rest, Idle
    <2> QED
      BY <2>1 DEF TickOK
  <1>2. CASE left # {}
    <2>1. Rest(k) = rest
      BY <1>2 DEF Rest
    <2>2. rest.seen \in [left -> ScheduleRow] /\ left \in SUBSET Schedules
      BY <1>0
    <2>3. rest \in TickState(tick[k].s, left)
      BY <2>2 DEF TickState
    <2> QED
      BY <1>0, <2>1, <2>2, <2>3 DEF TickOK
  <1> QED
    BY <1>1, <1>2

StillKnown(s, r) ==
  /\ row'[s] # None
  /\ There(s)' => r.revision <= row'[s].revision /\ (r.revision = row'[s].revision => r = row'[s])

\* Whoever has read a schedule before a step knows it after, and if the fence still lets
\* his batch through, then nothing it depends on has changed.
Undisturbed(s, r) ==
  Known(s, r) =>
    /\ StillKnown(s, r)
    /\ There(s)' /\ row'[s].revision = r.revision =>
         /\ Fresh(s, r) /\ created'[s] = created[s]
         /\ NoneActive(s) => \A id \in Keys : job'[s][id] # "active"

NobodyDisturbed == \A s \in Schedules, r \in ScheduleRow : Undisturbed(s, r)

LEMMA OtherTicks ==
  ASSUME TypeOK, TicksKnow, PlansHold, TypeOK', now <= now', NobodyDisturbed,
         NEW k \in Ticks, tick'[k] = tick[k]
  PROVE  TickKnows(k)' /\ PlanHolds(k)'
  <1>0. now \in Nat /\ now' \in Nat /\ \A t \in Time : t \in Nat
    BY ScheduleConstants DEF TypeOK, Time
  <1>1. TickKnows(k) /\ PlanHolds(k)
    BY DEF TicksKnow, PlansHold
  <1>2. ASSUME tick[k].pc # "idle", NEW s \in DOMAIN tick[k].seen
        PROVE  /\ s \in Schedules /\ tick[k].seen[s] \in ScheduleRow
               /\ Known(s, tick[k].seen[s]) /\ StillKnown(s, tick[k].seen[s])
               /\ tick[k].seen[s].enabled
               /\ tick[k].seen[s].next \in Nat /\ tick[k].seen[s].next <= now
    <2>1. s \in Schedules /\ tick[k].seen[s] \in ScheduleRow
      BY <1>2, TickShape
    <2>2. Known(s, tick[k].seen[s]) /\ tick[k].seen[s].enabled /\ tick[k].seen[s].next <= now
      BY <1>1, <1>2 DEF TickKnows
    <2>3. StillKnown(s, tick[k].seen[s])
      BY <2>1, <2>2 DEF NobodyDisturbed, Undisturbed
    <2> QED
      BY <2>1, <2>2, <2>3, ScheduleConstants DEF ScheduleRow
  <1>3. TickKnows(k)'
    BY <1>0, <1>2 DEF TickKnows, Known, StillKnown
  <1>4. PlanHolds(k)'
    <2> SUFFICES ASSUME tick[k].pc \in {"reckoned", "ready"}
                 PROVE  PlanHolds(k)'
      BY DEF PlanHolds
    <2> DEFINE s == tick[k].s
               r == tick[k].seen[s]
               plan == tick[k].plan
    <2>1. /\ s \in DOMAIN tick[k].seen
          /\ Bounded(r, plan) /\ Complete(r, plan)
          /\ \A u \in plan.selected : u <= now
          /\ tick[k].pc = "reckoned" => r.policy.overlap = "skip"
          /\ tick[k].pc = "ready" /\ r.policy.overlap = "skip" /\ plan.selected # {} /\ Fresh(s, r) =>
               NoneActive(s)
      BY <1>1 DEF PlanHolds
    <2>2. plan \in Plan
      BY TickShape
    <2>3. \A u \in plan.selected : u <= now'
      BY <1>0, <2>1, <2>2 DEF Plan
    <2>4. /\ There(s)' /\ row'[s].revision = r.revision =>
               Fresh(s, r) /\ (NoneActive(s) => \A id \in Keys : job'[s][id] # "active")
      BY <1>2, <2>1 DEF NobodyDisturbed, Undisturbed
    <2> HIDE DEF s, r, plan
    <2>5. /\ s \in DOMAIN tick[k].seen
          /\ Bounded(r, plan) /\ Complete(r, plan)
          /\ \A u \in plan.selected : u <= now'
          /\ tick[k].pc = "reckoned" => r.policy.overlap = "skip"
          /\ tick[k].pc = "ready" /\ r.policy.overlap = "skip" /\ plan.selected # {}
             /\ There(s)' /\ row'[s].revision = r.revision =>
               \A id \in Keys : job'[s][id] # "active"
      BY <2>1, <2>3, <2>4
    <2> QED
      BY <2>5 DEF PlanHolds, Bounded, Complete, NoneActive, Fresh, There, s, r, plan
  <1> QED
    BY <1>3, <1>4

EditState == [pc : {"idle"}]
             \cup [pc : {"read"}, s : Schedules, row : ScheduleRow, patch : Patches, at : Time]

LEMMA EditShape ==
  ASSUME TypeOK, NEW e \in Editors
  PROVE  /\ edit[e] \in EditState
         /\ edit[e].pc = "read" => /\ edit[e].s \in Schedules /\ edit[e].row \in ScheduleRow
                                   /\ edit[e].patch \in Patches /\ edit[e].at \in Time
  BY DEF TypeOK, EditState

LEMMA OtherEdits ==
  ASSUME TypeOK, EditsKnow, NobodyDisturbed, NEW e \in Editors, edit'[e] = edit[e]
  PROVE  EditKnows(e)'
  <1> SUFFICES ASSUME edit[e].pc = "read" PROVE EditKnows(e)'
    BY DEF EditKnows
  <1>1. edit[e].s \in Schedules /\ edit[e].row \in ScheduleRow
    BY EditShape
  <1>2. /\ Known(edit[e].s, edit[e].row)
        /\ Fresh(edit[e].s, edit[e].row) =>
             \A t \in Time : created[edit[e].s][t] > 0 => t <= edit[e].at
    BY DEF EditsKnow, EditKnows
  <1>3. /\ StillKnown(edit[e].s, edit[e].row)
        /\ There(edit[e].s)' /\ row'[edit[e].s].revision = edit[e].row.revision =>
             Fresh(edit[e].s, edit[e].row) /\ created'[edit[e].s] = created[edit[e].s]
    BY <1>1, <1>2 DEF NobodyDisturbed, Undisturbed
  <1>4. There(edit[e].s)' /\ row'[edit[e].s].revision = edit[e].row.revision =>
          \A t \in Time : created'[edit[e].s][t] > 0 => t <= edit[e].at
    BY <1>2, <1>3
  <1> QED
    BY <1>3, <1>4 DEF EditKnows, Known, StillKnown, Fresh, There

LEMMA SameSchedule ==
  ASSUME TypeOK, HistoryIsSound, TypeOK', now <= now',
         NEW s \in Schedules, row'[s] = row[s], created'[s] = created[s]
  PROVE  Sound(s)'
  <1>0. now \in Nat /\ now' \in Nat /\ \A t \in Time : t \in Nat
    BY ScheduleConstants DEF TypeOK, Time
  <1>1. JobsArePast(s) /\ Once(s) /\ AllServed(s)
    BY DEF HistoryIsSound, Sound
  <1>2. JobsArePast(s)'
    BY <1>0, <1>1 DEF JobsArePast, There
  <1>3. Once(s)'
    BY <1>1 DEF Once
  <1>4. AllServed(s)'
    BY <1>1 DEF AllServed, There
  <1> QED
    BY <1>2, <1>3, <1>4 DEF Sound

\* When no schedule is written, and no job of one becomes active, nobody is disturbed.
LEMMA RowsStay ==
  ASSUME TypeOK, UNCHANGED <<row, created>>,
         \A s \in Schedules : NoneActive(s) => \A id \in Keys : job'[s][id] # "active"
  PROVE  NobodyDisturbed
  BY DEF NobodyDisturbed, Undisturbed, StillKnown, Known, Fresh, There

\* When one schedule gets a new revision, or goes, only those who have read it are late.
LEMMA RowMoves ==
  ASSUME TypeOK, NEW s \in Schedules, row'[s] # None,
         row[s] = None \/ row'[s] = Gone
           \/ (There(s) /\ row'[s].revision = row[s].revision + 1),
         \A u \in Schedules : u # s => /\ row'[u] = row[u] /\ created'[u] = created[u]
                                       /\ job'[u] = job[u]
  PROVE  NobodyDisturbed
  <1> SUFFICES ASSUME NEW u \in Schedules, NEW r \in ScheduleRow, Known(u, r)
               PROVE  /\ StillKnown(u, r)
                      /\ There(u)' /\ row'[u].revision = r.revision =>
                           /\ Fresh(u, r) /\ created'[u] = created[u]
                           /\ NoneActive(u) => \A id \in Keys : job'[u][id] # "active"
    BY DEF NobodyDisturbed, Undisturbed
  <1>1. CASE u # s
    BY <1>1 DEF StillKnown, Known, Fresh, There, NoneActive
  <1>2. CASE u = s /\ row'[s] = Gone
    BY <1>2 DEF StillKnown, There
  <1>3. CASE u = s /\ There(s) /\ row'[s].revision = row[s].revision + 1
    <2>1. row[s] \in ScheduleRow
      BY <1>3 DEF TypeOK, There
    <2>2. row[s].revision \in Nat /\ r.revision \in Nat /\ r.revision <= row[s].revision
      BY <1>3, <2>1 DEF ScheduleRow, Known
    <2>3. r.revision <= row'[s].revision /\ r.revision # row'[s].revision
      BY <1>3, <2>2
    <2> QED
      BY <1>3, <2>3 DEF StillKnown
  <1>4. u = s => row[s] # None
    BY DEF Known
  <1> QED
    BY <1>1, <1>2, <1>3, <1>4

\* A step of one tick that writes nothing.
LEMMA TickMoves ==
  ASSUME IInv, NEW k \in Ticks, UNCHANGED <<now, row, job, edit, created, edits>>,
         NEW x, TickOK(x), tick' = [tick EXCEPT ![k] = x],
         TickKnows(k)', PlanHolds(k)'
  PROVE  IInv'
  <1>0. TypeOK /\ TicksKnow /\ EditsKnow /\ PlansHold /\ HistoryIsSound
    BY DEF IInv
  <1>1. tick'[k] = x /\ DOMAIN tick' = Ticks /\ \A j \in Ticks : j # k => tick'[j] = tick[j]
    BY <1>0 DEF TypeOK
  <1>2. TypeOK'
    BY <1>0, <1>1 DEF TypeOK, TickOK
  <1>3. NobodyDisturbed /\ now <= now'
    <2>1. \A s \in Schedules : NoneActive(s) => \A id \in Keys : job'[s][id] # "active"
      BY DEF NoneActive
    <2>2. now \in Nat
      BY <1>0, ScheduleConstants DEF TypeOK, Time
    <2> QED
      BY <1>0, <2>1, <2>2, RowsStay
  <1>4. \A j \in Ticks : TickKnows(j)' /\ PlanHolds(j)'
    BY <1>0, <1>1, <1>2, <1>3, OtherTicks
  <1>5. \A e \in Editors : EditKnows(e)'
    BY <1>0, <1>3, OtherEdits
  <1>6. \A s \in Schedules : Sound(s)'
    BY <1>0, <1>2, <1>3, SameSchedule
  <1> QED
    BY <1>2, <1>4, <1>5, <1>6 DEF IInv, TicksKnow, PlansHold, EditsKnow, HistoryIsSound

-----------------------------------------------------------------------------
(* The steps of a tick.                                                    *)

LEMMA IdleIsOK ==
  ASSUME NEW k, tick'[k] = Idle
  PROVE  TickOK(Idle) /\ TickKnows(k)' /\ PlanHolds(k)'
  <1>1. tick'[k].pc = "idle" /\ TickOK(Idle)
    BY DEF Idle, TickOK
  <1> QED
    BY <1>1 DEF TickKnows, PlanHolds

LEMMA Listed ==
  ASSUME IInv, NEW k \in Ticks, ScheduleTick(k)
  PROVE  IInv'
  <1> DEFINE due == {s \in Schedules : Due(s)}
             x == [pc |-> "due", seen |-> [s \in due |-> row[s]]]
  <1>0. TypeOK
    BY DEF IInv
  <1>1. tick' = [tick EXCEPT ![k] = x] /\ UNCHANGED <<now, row, job, edit, created, edits>>
    BY DEF ScheduleTick
  <1>2. \A s \in due : /\ row[s] \in ScheduleRow /\ There(s)
                       /\ row[s].enabled /\ row[s].next <= now /\ row[s].revision \in Nat
    <2> SUFFICES ASSUME NEW s \in due
                 PROVE  /\ row[s] \in ScheduleRow /\ There(s)
                        /\ row[s].enabled /\ row[s].next <= now /\ row[s].revision \in Nat
      OBVIOUS
    <2>1. row[s] \in ScheduleRow /\ There(s) /\ row[s].enabled /\ row[s].next <= now
      BY <1>0 DEF Due, There, TypeOK
    <2> QED
      BY <2>1 DEF ScheduleRow
  <1>3. TickOK(x)
    <2>1. PICK s \in Schedules : s \in due
      BY DEF ScheduleTick
    <2>2. due \in SUBSET Schedules /\ [u \in due |-> row[u]] \in [due -> ScheduleRow]
      BY <1>2
    <2>3. x \in TickState(s, due)
      BY <2>2 DEF TickState
    <2> QED
      BY <2>1, <2>2, <2>3 DEF TickOK
  <1>4. tick'[k] = x
    BY <1>0, <1>1 DEF TypeOK
  <1>5. /\ x.pc = "due" /\ DOMAIN x.seen = due
        /\ \A s \in due : x.seen[s] = row[s]
    OBVIOUS
  <1> HIDE DEF x
  <1>6. TickKnows(k)'
    BY <1>1, <1>2, <1>4, <1>5 DEF TickKnows, Known, There
  <1>7. PlanHolds(k)'
    BY <1>4, <1>5 DEF PlanHolds
  <1> QED
    BY <1>1, <1>3, <1>6, <1>7, TickMoves

LEMMA Reckoned ==
  ASSUME IInv, NEW k \in Ticks, NEW s \in Schedules, Reckon(k, s)
  PROVE  IInv'
  <1> DEFINE seen == tick[k].seen
             r == seen[s]
             plan == [selected |-> Selected(r), cursor |-> NextFire(r.zone, now)]
             pc == IF r.policy.overlap = "skip" THEN "reckoned" ELSE "ready"
             x == [pc |-> pc, seen |-> seen, s |-> s, plan |-> plan]
  <1>0. TypeOK /\ TicksKnow
    BY DEF IInv
  <1>1. /\ tick' = [tick EXCEPT ![k] = x] /\ UNCHANGED <<now, row, job, edit, created, edits>>
        /\ tick[k].pc = "due" /\ s \in DOMAIN seen
    BY DEF Reckon
  <1>2. /\ DOMAIN seen \subseteq Schedules
        /\ \A u \in DOMAIN seen : seen[u] \in ScheduleRow
    BY <1>0, <1>1, TickShape
  <1>3. \A u \in DOMAIN seen : Known(u, seen[u]) /\ seen[u].enabled /\ seen[u].next <= now
    BY <1>0, <1>1 DEF TicksKnow, TickKnows
  <1>4. DueRow(r)
    BY <1>1, <1>2, <1>3 DEF DueRow
  <1>5. plan \in Plan /\ Bounded(r, plan) /\ Complete(r, plan) /\ \A u \in plan.selected : u <= now
    BY <1>0, <1>4, PlanIsGood
  <1> HIDE DEF plan
  <1>6. TickOK(x)
    <2>1. seen \in [DOMAIN seen -> ScheduleRow]
      <3>1. \E u \in Schedules, ss \in SUBSET Schedules : tick[k] \in TickState(u, ss)
        BY <1>0, <1>1 DEF TypeOK
      <3> QED
        BY <1>1, <3>1 DEF TickState
    <2>2. x \in TickState(s, DOMAIN seen)
      BY <1>5, <2>1 DEF TickState
    <2> QED
      BY <1>2, <2>2 DEF TickOK
  <1>7. tick'[k] = x
    BY <1>0, <1>1 DEF TypeOK
  <1>8. /\ x.pc = pc /\ x.seen = seen /\ x.s = s /\ x.plan = plan
        /\ pc = "reckoned" => r.policy.overlap = "skip"
        /\ pc = "ready" => r.policy.overlap # "skip"
        /\ pc # "idle"
    OBVIOUS
  <1> HIDE DEF x, pc, seen
  <1>9. TickKnows(k)'
    BY <1>1, <1>3, <1>7, <1>8 DEF TickKnows, Known, There
  <1>10. PlanHolds(k)'
    <2>1. /\ s \in DOMAIN seen
          /\ Bounded(r, plan) /\ Complete(r, plan)
          /\ \A u \in plan.selected : u <= now'
          /\ pc = "reckoned" => r.policy.overlap = "skip"
          /\ ~ (pc = "ready" /\ r.policy.overlap = "skip")
      BY <1>1, <1>5, <1>8
    <2> QED
      BY <1>7, <1>8, <2>1 DEF PlanHolds, Bounded, Complete
  <1> QED
    BY <1>1, <1>6, <1>7, <1>9, <1>10, TickMoves

LEMMA OverlapChecked ==
  ASSUME IInv, NEW k \in Ticks, CheckOverlap(k)
  PROVE  IInv'
  <1> DEFINE s == tick[k].s
             seen == tick[k].seen
             r == seen[s]
             taken == IF \E id \in Keys \cup Triggers : job[s][id] = "active"
                      THEN {} ELSE tick[k].plan.selected
             plan == [tick[k].plan EXCEPT !.selected = taken]
             x == [tick[k] EXCEPT !.pc = "ready", !.plan.selected = taken]
  <1>0. TypeOK /\ TicksKnow /\ PlansHold
    BY DEF IInv
  <1>1. /\ tick' = [tick EXCEPT ![k] = x] /\ UNCHANGED <<now, row, job, edit, created, edits>>
        /\ tick[k].pc = "reckoned"
    BY DEF CheckOverlap
  <1>2. PICK u \in Schedules, ss \in SUBSET Schedules : tick[k] \in TickState(u, ss)
    BY <1>0, <1>1 DEF TypeOK
  <1>3. tick[k] \in [pc : {"reckoned", "ready"}, seen : [ss -> ScheduleRow], s : {u}, plan : Plan]
    BY <1>1, <1>2 DEF TickState
  <1>4. /\ x \in [pc : {"reckoned", "ready"}, seen : [ss -> ScheduleRow], s : {u}, plan : Plan]
        /\ x.pc = "ready" /\ x.seen = seen /\ x.s = s
        /\ x.plan.selected = taken /\ x.plan.cursor = tick[k].plan.cursor
    <2>1. tick[k].plan \in Plan /\ taken \in SUBSET Time
      BY <1>3 DEF Plan
    <2>2. /\ plan \in Plan /\ plan.selected = taken /\ plan.cursor = tick[k].plan.cursor
      BY <2>1 DEF Plan
    <2> HIDE DEF taken, plan
    <2>3. x = [tick[k] EXCEPT !.pc = "ready", !.plan = plan]
      BY <1>3 DEF plan
    <2> QED
      BY <1>3, <2>2, <2>3
  <1>5. TickOK(x)
    BY <1>4 DEF TickOK, TickState
  <1>6. tick'[k] = x
    BY <1>0, <1>1 DEF TypeOK
  <1>7. /\ s \in DOMAIN seen
        /\ Bounded(r, tick[k].plan) /\ Complete(r, tick[k].plan)
        /\ \A v \in tick[k].plan.selected : v <= now
        /\ r.policy.overlap = "skip"
    BY <1>0, <1>1 DEF PlansHold, PlanHolds
  <1>8. \A v \in DOMAIN seen : Known(v, seen[v]) /\ seen[v].enabled /\ seen[v].next <= now
    BY <1>0, <1>1 DEF TicksKnow, TickKnows
  <1>9. /\ Bounded(r, x.plan) /\ Complete(r, x.plan)
        /\ \A v \in x.plan.selected : v <= now'
        /\ x.plan.selected # {} => NoneActive(s)
    <2>1. taken \subseteq tick[k].plan.selected /\ (taken # {} => NoneActive(s))
      BY DEF NoneActive
    <2> HIDE DEF x, taken, s, seen, plan
    <2>2. Bounded(r, x.plan)
      BY <1>4, <1>7, <2>1 DEF Bounded
    <2>3. Complete(r, x.plan)
      BY <1>7 DEF Complete, Thorough
    <2>4. \A v \in x.plan.selected : v <= now'
      BY <1>1, <1>4, <1>7, <2>1
    <2> QED
      BY <1>4, <2>1, <2>2, <2>3, <2>4
  <1> HIDE DEF x, seen, s
  <1>10. TickKnows(k)'
    BY <1>1, <1>4, <1>6, <1>8 DEF TickKnows, Known, There
  <1>11. PlanHolds(k)'
    BY <1>1, <1>4, <1>6, <1>7, <1>9 DEF PlanHolds, Bounded, Complete, NoneActive
  <1> QED
    BY <1>1, <1>5, <1>10, <1>11, TickMoves

\* A tick goes on to the next schedule, or ends, and writes nothing.
LEMMA TickLeaves ==
  ASSUME IInv, NEW k \in Ticks, UNCHANGED <<now, row, job, edit, created, edits>>,
         \/ tick' = [tick EXCEPT ![k] = Idle]
         \/ tick' = [tick EXCEPT ![k] = Rest(k)] /\ tick[k].pc \in {"reckoned", "ready"}
  PROVE  IInv'
  <1>0. TypeOK /\ TicksKnow
    BY DEF IInv
  <1>1. CASE tick' = [tick EXCEPT ![k] = Idle]
    <2>1. tick'[k] = Idle
      BY <1>0, <1>1 DEF TypeOK
    <2> QED
      BY <1>1, <2>1, IdleIsOK, TickMoves
  <1>2. CASE tick' = [tick EXCEPT ![k] = Rest(k)] /\ tick[k].pc \in {"reckoned", "ready"}
    <2>1. tick'[k] = Rest(k)
      BY <1>0, <1>2 DEF TypeOK
    <2>2. /\ TickOK(Rest(k)) /\ Rest(k).pc \in {"idle", "due"}
          /\ Rest(k).pc = "due" => /\ DOMAIN Rest(k).seen \subseteq DOMAIN tick[k].seen
                                   /\ \A s \in DOMAIN Rest(k).seen : Rest(k).seen[s] = tick[k].seen[s]
      BY <1>0, <1>2, RestShape
    <2>3. \A s \in DOMAIN tick[k].seen :
            Known(s, tick[k].seen[s]) /\ tick[k].seen[s].enabled /\ tick[k].seen[s].next <= now
      BY <1>0, <1>2 DEF TicksKnow, TickKnows
    <2> DEFINE x == Rest(k)
    <2> HIDE DEF x
    <2>4. tick'[k] = x /\ tick' = [tick EXCEPT ![k] = x] /\ TickOK(x)
      BY <1>2, <2>1, <2>2 DEF x
    <2>5. \A s \in DOMAIN x.seen : x.pc # "idle" =>
            Known(s, x.seen[s]) /\ x.seen[s].enabled /\ x.seen[s].next <= now
      BY <2>2, <2>3 DEF x
    <2>6. TickKnows(k)'
      BY <2>4, <2>5 DEF TickKnows, Known, There
    <2>7. PlanHolds(k)'
      BY <2>2, <2>4 DEF PlanHolds, x
    <2> QED
      BY <2>4, <2>6, <2>7, TickMoves
  <1> QED
    BY <1>1, <1>2

\* What a tick keeps for later stays known.
LEMMA RestKnows ==
  ASSUME TypeOK, TicksKnow, TypeOK', now' = now, NobodyDisturbed,
         NEW k \in Ticks, tick[k].pc \in {"reckoned", "ready"}, tick'[k] = Rest(k)
  PROVE  TickKnows(k)' /\ PlanHolds(k)'
  <1> DEFINE x == Rest(k)
  <1>1. /\ x.pc \in {"idle", "due"}
        /\ x.pc = "due" => /\ DOMAIN x.seen \subseteq DOMAIN tick[k].seen
                           /\ \A s \in DOMAIN x.seen : x.seen[s] = tick[k].seen[s]
    BY RestShape
  <1>2. \A s \in DOMAIN tick[k].seen :
          /\ s \in Schedules /\ tick[k].seen[s] \in ScheduleRow
          /\ Known(s, tick[k].seen[s]) /\ tick[k].seen[s].enabled /\ tick[k].seen[s].next <= now
    BY TickShape DEF TicksKnow, TickKnows
  <1>3. \A s \in DOMAIN tick[k].seen : StillKnown(s, tick[k].seen[s])
    BY <1>2 DEF NobodyDisturbed, Undisturbed
  <1> HIDE DEF x
  <1>4. tick'[k] = x
    BY DEF x
  <1>5. \A s \in DOMAIN x.seen : x.pc # "idle" =>
          StillKnown(s, x.seen[s]) /\ x.seen[s].enabled /\ x.seen[s].next <= now'
    BY <1>1, <1>2, <1>3
  <1>6. TickKnows(k)'
    BY <1>4, <1>5 DEF TickKnows, Known, StillKnown
  <1>7. PlanHolds(k)'
    BY <1>1, <1>4 DEF PlanHolds
  <1> QED
    BY <1>6, <1>7

\* A schedule that gets a job is enabled, and none of its jobs is active if it skips.
CreatesWell(s) ==
  Creates(s) => /\ There(s) /\ row[s].enabled
                /\ row[s].policy.overlap = "skip" => NoneActive(s)

LEMMA Advances ==
  ASSUME IInv, NEW k \in Ticks, Advance(k)
  PROVE  IInv' /\ \A s \in Schedules : CreatesWell(s)
  <1>0. TypeOK /\ TicksKnow /\ EditsKnow /\ PlansHold /\ HistoryIsSound
    BY DEF IInv
  <1>a. tick[k].pc = "ready"
    BY DEF Advance
  <1>b. PICK s \in Schedules : s = tick[k].s
    BY <1>0, <1>a, TickShape
  <1>c. PICK r \in ScheduleRow : r = tick[k].seen[s]
    BY <1>0, <1>a, <1>b, TickShape DEF PlansHold, PlanHolds
  <1>d. PICK plan \in Plan : plan = tick[k].plan
    BY <1>0, <1>a, TickShape
  <1> DEFINE adv == Advanced(r, plan)
             ids == Ids(s, r, plan)
  <1>1. /\ tick[k].pc = "ready" /\ Fresh(s, r)
        /\ job' = [job EXCEPT ![s] = [id \in DOMAIN @ |-> IF id \in ids THEN "active" ELSE @[id]]]
        /\ row' = [row EXCEPT ![s] = adv]
        /\ created' = [created EXCEPT ![s] =
                         [t \in Time |-> IF t \in plan.selected THEN @[t] + 1 ELSE @[t]]]
        /\ tick' = [tick EXCEPT ![k] = Rest(k)]
        /\ UNCHANGED <<now, edit, edits>>
    BY <1>b, <1>c, <1>d DEF Advance
  <1>2. s \in Schedules /\ plan \in Plan /\ r \in ScheduleRow
    OBVIOUS
  <1>3. /\ s \in DOMAIN tick[k].seen
        /\ Bounded(r, plan) /\ Complete(r, plan)
        /\ \A u \in plan.selected : u <= now
        /\ r.policy.overlap = "skip" /\ plan.selected # {} => NoneActive(s)
    BY <1>0, <1>1, <1>b, <1>c, <1>d DEF PlansHold, PlanHolds
  <1>4. r.enabled /\ Known(s, r)
    BY <1>0, <1>1, <1>3, <1>c DEF TicksKnow, TickKnows
  <1>5. r = row[s] /\ There(s)
    BY <1>1, <1>4 DEF Fresh, Known
  <1>6. /\ adv \in ScheduleRow /\ adv.next = plan.cursor /\ adv.revision = r.revision + 1
        /\ adv.zone = r.zone /\ adv.policy = r.policy /\ adv.since = r.since
    <2>1. r.revision + 1 \in Nat /\ plan.cursor \in 0..(MaxTime + 1)
      BY DEF ScheduleRow, Plan
    <2> QED
      BY <2>1 DEF Advanced, ScheduleRow
  <1>7. TickOK(Rest(k))
    BY <1>0, <1>1, RestShape
  <1> HIDE DEF adv
  <1>8. /\ row'[s] = adv /\ tick'[k] = Rest(k)
        /\ \A u \in Schedules : u # s => row'[u] = row[u] /\ created'[u] = created[u] /\ job'[u] = job[u]
        /\ \A j \in Ticks : j # k => tick'[j] = tick[j]
        /\ \A t \in Time : created'[s][t] = IF t \in plan.selected THEN created[s][t] + 1 ELSE created[s][t]
    BY <1>0, <1>1, <1>2 DEF TypeOK
  <1>9. TypeOK'
    <2>1. row' \in [Schedules -> ScheduleRow \cup {None, Gone}]
      BY <1>0, <1>1, <1>6 DEF TypeOK
    <2>2. job' \in [Schedules -> [Keys \cup Triggers -> {"none", "active", "over"}]]
      BY <1>0, <1>1 DEF TypeOK
    <2>3. created' \in [Schedules -> [Time -> Nat]]
      BY <1>0, <1>1 DEF TypeOK
    <2>4. /\ DOMAIN tick' = Ticks
          /\ \A j \in Ticks : TickOK(tick'[j])
      BY <1>0, <1>1, <1>7 DEF TypeOK, TickOK
    <2> QED
      BY <1>0, <1>1, <2>1, <2>2, <2>3, <2>4 DEF TypeOK, TickOK
  <1>10. NobodyDisturbed
    <2>1. row'[s] # None
      BY <1>6, <1>8, RowsAreThere
    <2> QED
      BY <1>0, <1>2, <1>5, <1>6, <1>8, <2>1, RowMoves
  <1>11. now \in Nat /\ now <= now' /\ now' = now /\ \A t \in Time : t \in Nat
    BY <1>0, <1>1, ScheduleConstants DEF TypeOK, Time
  <1>12. \A j \in Ticks : TickKnows(j)' /\ PlanHolds(j)'
    BY <1>0, <1>1, <1>8, <1>9, <1>10, <1>11, OtherTicks, RestKnows
  <1>13. \A e \in Editors : EditKnows(e)'
    BY <1>0, <1>1, <1>10, OtherEdits
  <1>14. Sound(s)'
    <2>1. JobsArePast(s) /\ Once(s) /\ AllServed(s)
      BY <1>0, <1>2 DEF HistoryIsSound, Sound
    <2>2. /\ plan.selected \subseteq Time /\ r.next \in Nat /\ plan.cursor \in Nat
          /\ \A t \in Time : created[s][t] \in Nat
      BY <1>0, <1>2, ScheduleConstants DEF Plan, ScheduleRow, TypeOK
    <2>3. \A t \in Time : created[s][t] > 0 => t <= now /\ t < r.next
      BY <1>5, <2>1 DEF JobsArePast
    <2>4. \A t \in plan.selected : r.next <= t /\ t < plan.cursor /\ t <= now
      BY <1>3 DEF Bounded
    <2>5. \A t \in Time : created'[s][t] > 0 => t <= now /\ t < plan.cursor
      <3> SUFFICES ASSUME NEW t \in Time, created'[s][t] > 0 PROVE t <= now /\ t < plan.cursor
        OBVIOUS
      <3>1. CASE t \in plan.selected
        BY <2>4, <3>1
      <3>2. CASE t \notin plan.selected
        <4>1. t <= now /\ t < r.next /\ r.next <= plan.cursor /\ t \in Nat
          BY <1>3, <1>8, <1>11, <2>3, <3>2 DEF Bounded
        <4> QED
          BY <2>2, <4>1
      <3> QED
        BY <3>1, <3>2
    <2>6. JobsArePast(s)'
      BY <1>6, <1>8, <1>11, <2>5, RowsAreThere DEF JobsArePast
    <2>7. Once(s)'
      <3> SUFFICES ASSUME NEW t \in Time PROVE created'[s][t] <= 1
        BY DEF Once
      <3>1. CASE t \in plan.selected
        <4>1. ~ (created[s][t] > 0)
          BY <1>11, <2>2, <2>3, <2>4, <3>1
        <4> QED
          BY <1>8, <2>2, <3>1, <4>1
      <3>2. CASE t \notin plan.selected
        BY <1>8, <2>1, <3>2 DEF Once
      <3> QED
        BY <3>1, <3>2
    <2>8. AllServed(s)'
      <3> SUFFICES ASSUME Thorough(adv.policy), NEW t \in Fires[adv.zone],
                          adv.since < t, t < adv.next
                   PROVE  \E u \in Time : created'[s][u] > 0 /\ u >= t /\ Key[adv.zone][u] = Key[adv.zone][t]
        BY <1>8 DEF AllServed
      <3>0. t \in Time /\ t \in Nat
        BY <1>2, <1>6, <1>11, ScheduleConstants DEF ScheduleRow
      <3>1. CASE t < r.next
        <4>1. PICK u \in Time : created[s][u] > 0 /\ u >= t /\ Key[r.zone][u] = Key[r.zone][t]
          BY <1>5, <1>6, <2>1, <3>1 DEF AllServed
        <4>2. created'[s][u] > 0
          BY <1>8, <2>2, <4>1
        <4> QED
          BY <1>6, <4>1, <4>2
      <3>2. CASE r.next <= t
        <4>1. PICK u \in plan.selected : u >= t /\ Key[r.zone][u] = Key[r.zone][t]
          BY <1>3, <1>6, <3>2 DEF Complete, Served
        <4>2. u \in Time /\ created'[s][u] > 0
          BY <1>8, <2>2, <4>1
        <4> QED
          BY <1>6, <4>1, <4>2
      <3> QED
        BY <2>2, <3>0, <3>1, <3>2
    <2> QED
      BY <2>6, <2>7, <2>8 DEF Sound
  <1>15. \A u \in Schedules : Sound(u)'
    BY <1>0, <1>8, <1>9, <1>11, <1>14, SameSchedule
  <1>16. \A u \in Schedules : CreatesWell(u)
    <2> SUFFICES ASSUME NEW u \in Schedules, Creates(u)
                 PROVE  /\ There(u) /\ row[u].enabled
                        /\ row[u].policy.overlap = "skip" => NoneActive(u)
      BY DEF CreatesWell
    <2>1. u = s
      BY <1>8 DEF Creates
    <2>2. plan.selected # {}
      <3> SUFFICES ASSUME plan.selected = {} PROVE FALSE
        OBVIOUS
      <3>1. \A t \in Time : created'[s][t] = created[s][t]
        BY <1>8
      <3>2. created'[s] \in [Time -> Nat] /\ created[s] \in [Time -> Nat]
        BY <1>0, <1>2, <1>9 DEF TypeOK
      <3>3. created'[s] = created[s]
        BY <3>1, <3>2
      <3> QED
        BY <2>1, <3>3 DEF Creates
    <2> QED
      BY <1>3, <1>4, <1>5, <2>1, <2>2
  <1> QED
    BY <1>9, <1>12, <1>13, <1>15, <1>16 DEF IInv, TicksKnow, PlansHold, EditsKnow, HistoryIsSound

-----------------------------------------------------------------------------
(* The steps of the application and of the queue.                          *)

\* Steps that write no schedule, and activate no job that a schedule has created.
LEMMA Calm ==
  ASSUME IInv, UNCHANGED <<row, tick, edit, created, edits>>,
         now' \in Time, now <= now',
         job' \in [Schedules -> [Keys \cup Triggers -> {"none", "active", "over"}]],
         \A s \in Schedules : NoneActive(s) => \A id \in Keys : job'[s][id] # "active"
  PROVE  IInv'
  <1>0. TypeOK /\ TicksKnow /\ EditsKnow /\ PlansHold /\ HistoryIsSound
    BY DEF IInv
  <1>1. TypeOK'
    BY <1>0 DEF TypeOK
  <1>2. NobodyDisturbed
    BY <1>0, RowsStay
  <1>3. \A k \in Ticks : TickKnows(k)' /\ PlanHolds(k)'
    BY <1>0, <1>1, <1>2, OtherTicks
  <1>4. \A e \in Editors : EditKnows(e)'
    BY <1>0, <1>2, OtherEdits
  <1>5. \A s \in Schedules : Sound(s)'
    BY <1>0, <1>1, SameSchedule
  <1> QED
    BY <1>1, <1>3, <1>4, <1>5 DEF IInv, TicksKnow, PlansHold, EditsKnow, HistoryIsSound

\* A job of a schedule gets another state; only a triggered one becomes active this way.
LEMMA JobMoves ==
  ASSUME IInv, UNCHANGED <<now, row, tick, edit, created, edits>>,
         NEW s \in Schedules, NEW id \in Keys \cup Triggers, NEW v \in {"none", "active", "over"},
         job' = [job EXCEPT ![s][id] = v],
         v # "active" \/ id \in Triggers
  PROVE  IInv'
  <1>0. TypeOK
    BY DEF IInv
  <1>1. job' \in [Schedules -> [Keys \cup Triggers -> {"none", "active", "over"}]]
    BY <1>0 DEF TypeOK
  <1>2. \A u \in Schedules, k \in Keys \cup Triggers :
          job'[u][k] = IF u = s /\ k = id THEN v ELSE job[u][k]
    BY <1>0 DEF TypeOK
  <1>3. \A u \in Schedules : NoneActive(u) => \A k \in Keys : job'[u][k] # "active"
    BY <1>2, ScheduleConstants DEF NoneActive
  <1>4. now \in Time /\ now <= now' /\ now' \in Time
    BY <1>0, ScheduleConstants DEF TypeOK, Time
  <1> QED
    BY <1>1, <1>3, <1>4, Calm

LEMMA Creation ==
  ASSUME IInv, NEW s \in Schedules, NEW z \in Zones, NEW policy \in Policies,
         NEW enabled \in BOOLEAN, CreateSchedule(s, z, policy, enabled)
  PROVE  IInv'
  <1> DEFINE new == [enabled |-> enabled, zone |-> z, policy |-> policy, next |-> NextFire(z, now),
                     revision |-> 0, since |-> now]
  <1>0. TypeOK /\ TicksKnow /\ EditsKnow /\ PlansHold /\ HistoryIsSound
    BY DEF IInv
  <1>1. /\ row[s] = None /\ row' = [row EXCEPT ![s] = new]
        /\ UNCHANGED <<now, job, tick, edit, created, edits>>
    BY DEF CreateSchedule
  <1>2. /\ now \in Time /\ now \in Nat /\ now <= now' /\ \A t \in Time : t \in Nat
        /\ NextFire(z, now) \in 0..(MaxTime + 1)
        /\ \A u \in Fires[z] : now < u => NextFire(z, now) <= u
    BY <1>0, <1>1, NextFireIsNext, ScheduleConstants DEF TypeOK, Time
  <1>3. /\ new \in ScheduleRow /\ new.zone = z /\ new.since = now /\ new.next = NextFire(z, now)
    BY <1>2 DEF ScheduleRow
  <1> HIDE DEF new
  <1>4. /\ row'[s] = new
        /\ \A u \in Schedules : u # s => row'[u] = row[u]
    BY <1>0, <1>1 DEF TypeOK
  <1>5. TypeOK'
    BY <1>0, <1>1, <1>3 DEF TypeOK
  <1>6. NobodyDisturbed
    BY <1>0, <1>1, <1>3, <1>4, RowMoves, RowsAreThere
  <1>7. \A k \in Ticks : TickKnows(k)' /\ PlanHolds(k)'
    BY <1>0, <1>1, <1>2, <1>5, <1>6, OtherTicks
  <1>8. \A e \in Editors : EditKnows(e)'
    BY <1>0, <1>1, <1>6, OtherEdits
  <1>9. Sound(s)'
    <2>1. JobsArePast(s) /\ Once(s)
      BY <1>0 DEF HistoryIsSound, Sound
    <2>2. \A t \in Time : ~ (created'[s][t] > 0)
      BY <1>1, <2>1 DEF JobsArePast
    <2>3. JobsArePast(s)' /\ Once(s)'
      BY <1>1, <2>1, <2>2 DEF JobsArePast, Once
    <2>4. AllServed(s)'
      <3> SUFFICES ASSUME NEW t \in Fires[z], now < t, t < NextFire(z, now) PROVE FALSE
        BY <1>3, <1>4 DEF AllServed
      <3>1. t \in Nat /\ NextFire(z, now) \in Nat
        <4>1. t \in Time
          BY ScheduleConstants
        <4> QED
          BY <1>2, <4>1, ScheduleConstants
      <3> QED
        BY <1>2, <3>1
    <2> QED
      BY <2>3, <2>4 DEF Sound
  <1>10. \A u \in Schedules : Sound(u)'
    BY <1>0, <1>1, <1>2, <1>4, <1>5, <1>9, SameSchedule
  <1> QED
    BY <1>5, <1>7, <1>8, <1>10 DEF IInv, TicksKnow, PlansHold, EditsKnow, HistoryIsSound

\* An editor reads a row, for the first time or again.
LEMMA EditorReads ==
  ASSUME IInv, NEW e \in Editors, UNCHANGED <<now, row, job, tick, created>>,
         edits' \in 0..MaxEdits, NEW y \in EditState, edit' = [edit EXCEPT ![e] = y],
         y.pc = "read" => There(y.s) /\ y.row = row[y.s] /\ y.at = now
  PROVE  IInv'
  <1>0. TypeOK /\ TicksKnow /\ EditsKnow /\ PlansHold /\ HistoryIsSound
    BY DEF IInv
  <1>1. edit'[e] = y /\ \A d \in Editors : d # e => edit'[d] = edit[d]
    BY <1>0 DEF TypeOK
  <1>2. TypeOK'
    BY <1>0 DEF TypeOK, EditState
  <1>3. now <= now'
    BY <1>0, ScheduleConstants DEF TypeOK, Time
  <1>4. NobodyDisturbed
    <2>1. \A s \in Schedules : NoneActive(s) => \A id \in Keys : job'[s][id] # "active"
      BY DEF NoneActive
    <2> QED
      BY <1>0, <2>1, RowsStay
  <1>5. EditKnows(e)'
    <2> SUFFICES ASSUME y.pc = "read" PROVE EditKnows(e)'
      BY <1>1 DEF EditKnows
    <2>1. y.s \in Schedules
      BY DEF EditState
    <2>2. row[y.s] \in ScheduleRow /\ row[y.s] # None /\ row[y.s].revision \in Nat
      <3>1. row[y.s] \in ScheduleRow /\ row[y.s] # None
        BY <1>0, <2>1 DEF TypeOK, There
      <3> QED
        BY <3>1 DEF ScheduleRow
    <2>3. \A t \in Time : created[y.s][t] > 0 => t <= now
      BY <1>0, <2>1 DEF HistoryIsSound, Sound, JobsArePast
    <2> QED
      BY <1>1, <2>2, <2>3 DEF EditKnows, Known
  <1>6. \A d \in Editors : EditKnows(d)'
    BY <1>0, <1>1, <1>4, <1>5, OtherEdits
  <1>7. \A k \in Ticks : TickKnows(k)' /\ PlanHolds(k)'
    BY <1>0, <1>2, <1>3, <1>4, OtherTicks
  <1>8. \A s \in Schedules : Sound(s)'
    BY <1>0, <1>2, <1>3, SameSchedule
  <1> QED
    BY <1>2, <1>6, <1>7, <1>8 DEF IInv, TicksKnow, PlansHold, EditsKnow, HistoryIsSound

\* What updateSchedule makes of a row.
LEMMA PatchedRow ==
  ASSUME NEW r \in ScheduleRow, NEW patch \in Patches, NEW at \in Time
  PROVE  LET p == Patched(r, patch, at) IN
         /\ p \in ScheduleRow /\ p.revision = r.revision + 1 /\ p.policy = r.policy
         /\ \/ p.since = at /\ p.next = NextFire(p.zone, at)
            \/ p.since = r.since /\ p.next = r.next /\ p.zone = r.zone
  <1> DEFINE zone == IF patch \in Zones THEN patch ELSE r.zone
             anew == patch \in Zones \/ (patch = "resume" /\ ~ r.enabled)
             enabled == IF patch = "pause" THEN FALSE ELSE IF patch = "resume" THEN TRUE ELSE r.enabled
             next == IF anew THEN NextFire(zone, at) ELSE r.next
             since == IF anew THEN at ELSE r.since
  <1>1. zone \in Zones /\ enabled \in BOOLEAN /\ r.revision + 1 \in Nat /\ since \in Time
        /\ r.policy \in Policies
    <2>1. /\ r.enabled \in BOOLEAN /\ r.zone \in Zones /\ r.revision \in Nat /\ r.since \in Time
          /\ r.policy \in Policies
      BY DEF ScheduleRow
    <2>2. enabled \in BOOLEAN
      BY <2>1, Zenon
    <2>3. zone \in Zones /\ since \in Time
      BY <2>1
    <2>4. r.revision + 1 \in Nat
      BY <2>1
    <2> HIDE DEF zone, anew, enabled, next, since
    <2> QED
      BY <2>1, <2>2, <2>3, <2>4, Zenon
  <1>2. next \in 0..(MaxTime + 1)
    BY <1>1, NextFireIsNext DEF ScheduleRow
  <1>3. Patched(r, patch, at) = [enabled |-> enabled, zone |-> zone, policy |-> r.policy,
                                 next |-> next, revision |-> r.revision + 1, since |-> since]
    BY DEF Patched
  <1>4. \/ since = at /\ next = NextFire(zone, at)
        \/ since = r.since /\ next = r.next /\ zone = r.zone
    OBVIOUS
  <1> HIDE DEF zone, anew, enabled, next, since
  <1> QED
    BY <1>1, <1>2, <1>3, <1>4 DEF ScheduleRow

\* The editor's write gets through.
LEMMA EditorWrites ==
  ASSUME IInv, NEW e \in Editors, EditWrite(e), Fresh(edit[e].s, edit[e].row)
  PROVE  IInv'
  <1>0. TypeOK /\ TicksKnow /\ EditsKnow /\ PlansHold /\ HistoryIsSound
    BY DEF IInv
  <1>a. edit[e].pc = "read"
    BY DEF EditWrite
  <1>b. PICK s \in Schedules : s = edit[e].s
    BY <1>0, <1>a, EditShape
  <1>c. PICK r \in ScheduleRow : r = edit[e].row
    BY <1>0, <1>a, EditShape
  <1>d. PICK patch \in Patches : patch = edit[e].patch
    BY <1>0, <1>a, EditShape
  <1>e. PICK at \in Time : at = edit[e].at
    BY <1>0, <1>a, EditShape
  <1> DEFINE p == Patched(r, patch, at)
             new == IF patch = "delete" THEN Gone ELSE p
  <1>1. /\ edit' = [edit EXCEPT ![e] = Idle]
        /\ row' = [row EXCEPT ![s] = new]
        /\ UNCHANGED <<now, job, tick, created, edits>>
    BY <1>b, <1>c, <1>d, <1>e DEF EditWrite
  <1>2. /\ Known(s, r)
        /\ \A t \in Time : created[s][t] > 0 => t <= at
    BY <1>0, <1>a, <1>b, <1>c, <1>e DEF EditsKnow, EditKnows
  <1>3. r = row[s] /\ There(s)
    BY <1>2, <1>b, <1>c DEF Fresh, Known
  <1>4. /\ p \in ScheduleRow /\ p.revision = r.revision + 1 /\ p.policy = r.policy
        /\ \/ p.since = at /\ p.next = NextFire(p.zone, at)
           \/ p.since = r.since /\ p.next = r.next /\ p.zone = r.zone
    BY PatchedRow
  <1> HIDE DEF p
  <1>5. /\ row'[s] = new /\ edit'[e] = Idle
        /\ \A u \in Schedules : u # s => row'[u] = row[u]
        /\ \A d \in Editors : d # e => edit'[d] = edit[d]
    BY <1>0, <1>1 DEF TypeOK
  <1>6. TypeOK'
    <2>1. Idle \in EditState
      BY DEF Idle, EditState
    <2>2. edit' \in [Editors -> EditState]
      BY <1>0, <1>1, <2>1 DEF TypeOK, EditState
    <2>3. row' \in [Schedules -> ScheduleRow \cup {None, Gone}]
      BY <1>0, <1>1, <1>4 DEF TypeOK
    <2> QED
      BY <1>0, <1>1, <2>2, <2>3 DEF TypeOK, EditState
  <1>7. NobodyDisturbed
    <2>1. Gone # None
      <3>1. "deleted" \in DOMAIN Gone /\ "deleted" \notin DOMAIN None
        BY DEF Gone, None
      <3> QED
        BY <3>1
    <2>2. row'[s] # None
      BY <1>4, <1>5, <2>1, RowsAreThere
    <2> QED
      BY <1>0, <1>1, <1>3, <1>4, <1>5, <2>2, RowMoves
  <1>8. now \in Nat /\ now <= now' /\ \A t \in Time : t \in Nat
    BY <1>0, <1>1, ScheduleConstants DEF TypeOK, Time
  <1>9. \A k \in Ticks : TickKnows(k)' /\ PlanHolds(k)'
    BY <1>0, <1>1, <1>6, <1>7, <1>8, OtherTicks
  <1>10. \A d \in Editors : EditKnows(d)'
    <2>1. EditKnows(e)'
      BY <1>5 DEF EditKnows, Idle
    <2> QED
      BY <1>0, <1>5, <1>7, <2>1, OtherEdits
  <1>11. Sound(s)'
    <2>1. JobsArePast(s) /\ Once(s) /\ AllServed(s)
      BY <1>0 DEF HistoryIsSound, Sound
    <2>2. Once(s)'
      BY <1>1, <2>1 DEF Once
    <2>3. \A t \in Time : created[s][t] > 0 => t <= now /\ t < r.next /\ t <= at
      BY <1>2, <1>3, <2>1 DEF JobsArePast
    <2>4. CASE patch = "delete"
      <3>1. row'[s] = Gone
        BY <1>5, <2>4
      <3>2. Gone # None
        <4>1. "deleted" \in DOMAIN Gone /\ "deleted" \notin DOMAIN None
          BY DEF Gone, None
        <4> QED
          BY <4>1
      <3>3. JobsArePast(s)' /\ AllServed(s)'
        BY <1>1, <2>3, <3>1, <3>2 DEF JobsArePast, AllServed, There
      <3> QED
        BY <2>2, <3>3 DEF Sound
    <2>5. CASE patch # "delete"
      <3>0. row'[s] = p /\ p # None /\ p.zone \in Zones
        BY <1>4, <1>5, <2>5, RowsAreThere DEF ScheduleRow
      <3>1. CASE p.since = at /\ p.next = NextFire(p.zone, at)
        <4>1. /\ p.next \in Nat /\ at < p.next
              /\ \A u \in Fires[p.zone] : at < u => p.next <= u
          BY <3>0, <3>1, NextFireIsNext, ScheduleConstants
        <4>2. \A t \in Time : created[s][t] > 0 => t < p.next
          BY <1>8, <2>3, <4>1
        <4>3. JobsArePast(s)'
          BY <1>1, <2>3, <3>0, <4>2 DEF JobsArePast
        <4>4. AllServed(s)'
          <5> SUFFICES ASSUME NEW t \in Fires[p.zone], at < t, t < p.next PROVE FALSE
            BY <3>0, <3>1 DEF AllServed
          <5>1. t \in Time
            BY <3>0, ScheduleConstants
          <5> QED
            BY <1>8, <4>1, <5>1
        <4> QED
          BY <2>2, <4>3, <4>4 DEF Sound
      <3>2. CASE p.since = r.since /\ p.next = r.next /\ p.zone = r.zone
        <4>1. JobsArePast(s)'
          BY <1>1, <2>3, <3>0, <3>2 DEF JobsArePast
        <4>2. AllServed(s)'
          BY <1>1, <1>3, <1>4, <2>1, <3>0, <3>2 DEF AllServed
        <4> QED
          BY <2>2, <4>1, <4>2 DEF Sound
      <3> QED
        BY <1>4, <3>1, <3>2
    <2> QED
      BY <2>4, <2>5
  <1>12. \A u \in Schedules : Sound(u)'
    BY <1>0, <1>1, <1>5, <1>6, <1>8, <1>11, SameSchedule
  <1> QED
    BY <1>6, <1>9, <1>10, <1>12 DEF IInv, TicksKnow, PlansHold, EditsKnow, HistoryIsSound

-----------------------------------------------------------------------------
(* The theorems.                                                           *)

LEMMA InitIsSound == Init => IInv
  <1> SUFFICES ASSUME Init PROVE IInv
    OBVIOUS
  <1>0. 0 \in Time /\ MaxEdits \in Nat
    BY ScheduleConstants DEF Time
  <1>1. TypeOK
    BY <1>0 DEF Init, TypeOK, Idle
  <1>2. TicksKnow /\ PlansHold /\ EditsKnow
    BY DEF Init, TicksKnow, TickKnows, PlansHold, PlanHolds, EditsKnow, EditKnows, Idle
  <1>3. HistoryIsSound
    BY DEF Init, HistoryIsSound, Sound, JobsArePast, Once, AllServed, There
  <1> QED
    BY <1>1, <1>2, <1>3 DEF IInv

LEMMA NothingCreated ==
  ASSUME UNCHANGED created
  PROVE  \A s \in Schedules : CreatesWell(s)
  BY DEF CreatesWell, Creates

LEMMA Inductive == IInv /\ [Next]_vars => IInv' /\ \A s \in Schedules : CreatesWell(s)
  <1> SUFFICES ASSUME IInv, [Next]_vars PROVE IInv' /\ \A s \in Schedules : CreatesWell(s)
    OBVIOUS
  <1>0. TypeOK
    BY DEF IInv
  <1>1. CASE TimePasses
    <2>1. now' \in Time /\ now <= now' /\ UNCHANGED <<row, job, tick, edit, created, edits>>
      BY <1>0, <1>1, ScheduleConstants DEF TimePasses, TypeOK, Time
    <2>2. \A s \in Schedules : NoneActive(s) => \A id \in Keys : job'[s][id] # "active"
      BY <2>1 DEF NoneActive
    <2>3. job' \in [Schedules -> [Keys \cup Triggers -> {"none", "active", "over"}]]
      BY <1>0, <2>1 DEF TypeOK
    <2> QED
      BY <2>1, <2>2, <2>3, Calm, NothingCreated
  <1>2. ASSUME NEW k \in Ticks, ScheduleTick(k) PROVE IInv' /\ \A s \in Schedules : CreatesWell(s)
    BY <1>2, Listed, NothingCreated DEF ScheduleTick
  <1>3. ASSUME NEW k \in Ticks, NEW s \in Schedules, Reckon(k, s)
        PROVE  IInv' /\ \A u \in Schedules : CreatesWell(u)
    BY <1>3, Reckoned, NothingCreated DEF Reckon
  <1>4. ASSUME NEW k \in Ticks, CheckOverlap(k) PROVE IInv' /\ \A s \in Schedules : CreatesWell(s)
    BY <1>4, OverlapChecked, NothingCreated DEF CheckOverlap
  <1>5. ASSUME NEW k \in Ticks, Advance(k) PROVE IInv' /\ \A s \in Schedules : CreatesWell(s)
    BY <1>5, Advances
  <1>6. ASSUME NEW k \in Ticks, Overtaken(k) PROVE IInv' /\ \A s \in Schedules : CreatesWell(s)
    BY <1>6, TickLeaves, NothingCreated DEF Overtaken
  <1>7. ASSUME NEW k \in Ticks, Conflict(k) PROVE IInv' /\ \A s \in Schedules : CreatesWell(s)
    BY <1>7, TickLeaves, NothingCreated DEF Conflict
  <1>8. ASSUME NEW k \in Ticks, Crash(k) PROVE IInv' /\ \A s \in Schedules : CreatesWell(s)
    BY <1>8, TickLeaves, NothingCreated DEF Crash
  <1>9. ASSUME NEW s \in Schedules, NEW z \in Zones, NEW policy \in Policies, NEW enabled \in BOOLEAN,
               CreateSchedule(s, z, policy, enabled)
        PROVE  IInv' /\ \A u \in Schedules : CreatesWell(u)
    BY <1>9, Creation, NothingCreated DEF CreateSchedule
  <1>10. ASSUME NEW e \in Editors, NEW s \in Schedules, NEW patch \in Patches, EditRead(e, s, patch)
         PROVE  IInv' /\ \A u \in Schedules : CreatesWell(u)
    <2> DEFINE y == [pc |-> "read", s |-> s, row |-> row[s], patch |-> patch, at |-> now]
    <2>1. row[s] \in ScheduleRow /\ now \in Time
      BY <1>0, <1>10 DEF EditRead, There, TypeOK
    <2>2. /\ y \in EditState /\ edit' = [edit EXCEPT ![e] = y]
          /\ y.pc = "read" => There(y.s) /\ y.row = row[y.s] /\ y.at = now
      BY <1>10, <2>1 DEF EditRead, EditState
    <2>3. edits' \in 0..MaxEdits /\ UNCHANGED <<now, row, job, tick, created>>
      BY <1>0, <1>10, ScheduleConstants DEF EditRead, TypeOK
    <2> HIDE DEF y
    <2>4. IInv'
      BY <2>2, <2>3, EditorReads
    <2> QED
      BY <2>3, <2>4, NothingCreated
  <1>11. ASSUME NEW e \in Editors, EditWrite(e) PROVE IInv' /\ \A s \in Schedules : CreatesWell(s)
    <2>1. CASE Fresh(edit[e].s, edit[e].row)
      BY <1>11, <2>1, EditorWrites, NothingCreated DEF EditWrite
    <2>2. CASE ~ Fresh(edit[e].s, edit[e].row)
      <3> DEFINE again == [edit[e] EXCEPT !.row = row[edit[e].s], !.at = now]
                 y == IF ~ There(edit[e].s) THEN Idle ELSE again
      <3>1. UNCHANGED <<now, row, job, tick, created, edits>> /\ edit' = [edit EXCEPT ![e] = y]
        BY <1>11, <2>2 DEF EditWrite
      <3>2. CASE ~ There(edit[e].s)
        <4>1. y \in EditState /\ y.pc # "read"
          BY <3>2 DEF EditState, Idle
        <4>2. edits' \in 0..MaxEdits
          BY <1>0, <3>1 DEF TypeOK
        <4> HIDE DEF y
        <4> QED
          BY <3>1, <4>1, <4>2, EditorReads, NothingCreated
      <3>3. CASE There(edit[e].s)
        <4>1. /\ edit[e].s \in Schedules /\ now \in Time
              /\ edit[e] \in [pc : {"read"}, s : Schedules, row : ScheduleRow, patch : Patches, at : Time]
          BY <1>0, <1>11 DEF EditWrite, TypeOK
        <4>2. row[edit[e].s] \in ScheduleRow
          BY <1>0, <3>3, <4>1 DEF There, TypeOK
        <4>3. again \in EditState /\ again.s = edit[e].s /\ again.row = row[edit[e].s] /\ again.at = now
          BY <4>1, <4>2 DEF EditState
        <4>4. edits' \in 0..MaxEdits /\ y = again
          BY <1>0, <3>1, <3>3 DEF TypeOK
        <4> HIDE DEF y, again
        <4> QED
          BY <3>1, <3>3, <4>3, <4>4, EditorReads, NothingCreated
      <3> QED
        BY <3>2, <3>3
    <2> QED
      BY <2>1, <2>2
  <1>12. ASSUME NEW s \in Schedules, NEW id \in Triggers, TriggerSchedule(s, id)
         PROVE  IInv' /\ \A u \in Schedules : CreatesWell(u)
    BY <1>12, JobMoves, NothingCreated DEF TriggerSchedule
  <1>13. ASSUME NEW s \in Schedules, NEW id \in Keys \cup Triggers, JobEnds(s, id)
         PROVE  IInv' /\ \A u \in Schedules : CreatesWell(u)
    BY <1>13, JobMoves, NothingCreated DEF JobEnds
  <1>14. ASSUME NEW s \in Schedules, NEW id \in Keys \cup Triggers, JobDeleted(s, id)
         PROVE  IInv' /\ \A u \in Schedules : CreatesWell(u)
    BY <1>14, JobMoves, NothingCreated DEF JobDeleted
  <1>15. CASE UNCHANGED vars
    <2>1. /\ now' \in Time /\ now <= now' /\ UNCHANGED <<row, tick, edit, created, edits>>
          /\ job' \in [Schedules -> [Keys \cup Triggers -> {"none", "active", "over"}]]
      <3>1. UNCHANGED <<now, row, job, tick, edit, created, edits>>
        BY <1>15 DEF vars
      <3>2. now \in Time /\ job \in [Schedules -> [Keys \cup Triggers -> {"none", "active", "over"}]]
        BY <1>0 DEF TypeOK
      <3>3. now <= now
        BY <3>2, ScheduleConstants DEF Time
      <3> QED
        BY <3>1, <3>2, <3>3
    <2>2. \A s \in Schedules : NoneActive(s) => \A id \in Keys : job'[s][id] # "active"
      BY <1>15 DEF NoneActive, vars
    <2> QED
      BY <2>1, <2>2, Calm, NothingCreated
  <1> QED
    BY <1>1, <1>2, <1>3, <1>4, <1>5, <1>6, <1>7, <1>8, <1>9, <1>10, <1>11, <1>12, <1>13, <1>14, <1>15
       DEF Next, TickStep

LEMMA Invariant == Spec => []IInv
  <1>1. Init => IInv
    BY InitIsSound
  <1>2. IInv /\ [Next]_vars => IInv'
    BY Inductive
  <1> QED
    BY <1>1, <1>2, PTL DEF Spec

\* The tables of the schedules, and what is in flight, have their types.
THEOREM TypeCorrect == Spec => []TypeOK
  <1>1. IInv => TypeOK
    BY DEF IInv
  <1> QED
    BY <1>1, Invariant, PTL

\* advanceSchedule, for any nodes and edits: an occurrence gets one job at most.
THEOREM OnceCorrect == Spec => []OccurrencesOnce
  <1>1. IInv => OccurrencesOnce
    BY DEF IInv, HistoryIsSound, Sound, Once, OccurrencesOnce
  <1> QED
    BY <1>1, Invariant, PTL

\* advanceSchedule, in spite of crashes and races: under `all` nextRunAt passes no occurrence
\* that has no job.
THEOREM NothingMissedCorrect == Spec => []NothingMissed
  <1>1. IInv => NothingMissed
    BY DEF IInv, HistoryIsSound, Sound, AllServed, Thorough, NothingMissed
  <1> QED
    BY <1>1, Invariant, PTL

LEMMA AllCreateWell == Spec => [][\A s \in Schedules : CreatesWell(s)]_vars
  <1>1. IInv /\ [Next]_vars => [\A s \in Schedules : CreatesWell(s)]_vars
    BY Inductive
  <1> QED
    BY <1>1, Invariant, PTL DEF Spec

\* advanceSchedule: the fence keeps a tick that listed the schedule before it was paused or
\* deleted from creating anything after.
THEOREM PausedCorrect == Spec => PausedStaysQuiet
  <1>1. [\A s \in Schedules : CreatesWell(s)]_vars =>
          [\A s \in Schedules : Creates(s) => There(s) /\ row[s].enabled]_vars
    BY DEF CreatesWell
  <1> QED
    BY <1>1, AllCreateWell, PTL DEF PausedStaysQuiet

\* advanceSchedule: the overlap policy `skip` holds when the batch is applied.
THEOREM SkipCorrect == Spec => SkipsWhileActive
  <1>1. [\A s \in Schedules : CreatesWell(s)]_vars =>
          [\A s \in Schedules : Creates(s) /\ row[s].policy.overlap = "skip"
             => \A id \in Keys : job[s][id] # "active"]_vars
    BY DEF CreatesWell, NoneActive
  <1> QED
    BY <1>1, AllCreateWell, PTL DEF SkipsWhileActive
=============================================================================
