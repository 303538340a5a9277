----------------------------- MODULE MCJobQueue -----------------------------
(* One queue of one slot, and nodes with one tick each; the configurations *)
(* choose the jobs, the attempts, the heartbeats, the ticks, whether jobs  *)
(* are cancelled and whether the first node may close or crash.            *)
EXTENDS JobQueue, TLC

CONSTANTS n1, n2, k1, k2

MCTickNode == [k \in Ticks |-> IF k = k1 THEN n1 ELSE n2]

\* Bound of the run `queue`: one job that the first node works, with every step there is, or
\* the first attempts of two jobs, neither of them cancelled or deleted; or else one job and no
\* heartbeats, the first node closing or crashing at any moment and the second one taking over.
OneJob == \E j \in Jobs : job[j].status = "absent"
OneNode == tick[k2] = Idle /\ node[n1] = "up"
FirstAttempts ==
  /\ \A j \in Jobs : job[j].attempt <= 1 /\ job[j].status # "deleted"
  /\ \A x \in Cancellers : call[x] = Idle
TakenOver ==
  /\ node[n1] # "up"
  /\ \A r \in Runs : beating[r] = NoWrite
  /\ \A j \in Jobs : job[j].status # "deleted" /\ job[j].beat = 0
  /\ \A s \in Slots, j \in Jobs : job[j].status # "absent" =>
       slot[s].revision = 2 * job[j].attempt - (IF job[j].status = "running" THEN 1 ELSE 0)

Bounded == (OneNode /\ (OneJob \/ FirstAttempts)) \/ (OneJob /\ TakenOver)

\* Where no liveness property is checked, jobs are interchangeable.
Symmetry == Permutations(Jobs)
=============================================================================
