---------------------------- MODULE JobLifecycle ----------------------------
(***************************************************************************)
(* What the job queue promises of one row of __queue_jobs, whoever works   *)
(* on it and whatever fails: a job is run in numbered attempts, one at a   *)
(* time and at most MaxAttempts of them, and what is over stays over.      *)
(***************************************************************************)
EXTENDS Naturals

CONSTANTS Jobs, MaxAttempts

VARIABLES status, attempt

lifecycle == <<status, attempt>>

Terminal == {"completed", "failed", "cancelled"}
Status == {"absent", "queued", "running", "deleted"} \cup Terminal

LifecycleType ==
  /\ status \in [Jobs -> Status]
  /\ attempt \in [Jobs -> 0..MaxAttempts]

Init ==
  /\ status = [j \in Jobs |-> "absent"]
  /\ attempt = [j \in Jobs |-> 0]

Move(j, from, to) ==
  /\ status[j] = from
  /\ status' = [status EXCEPT ![j] = to]

Submit(j) == Move(j, "absent", "queued") /\ UNCHANGED attempt

\* One more attempt, never beyond the last one.
Start(j) ==
  /\ Move(j, "queued", "running")
  /\ attempt[j] < MaxAttempts
  /\ attempt' = [attempt EXCEPT ![j] = @ + 1]

\* The attempt failed or its lease ran out, and there is another one to spend.
Requeue(j) ==
  /\ Move(j, "running", "queued")
  /\ attempt[j] < MaxAttempts
  /\ UNCHANGED attempt

Finish(j, outcome) == Move(j, "running", outcome) /\ UNCHANGED attempt

CancelQueued(j) == Move(j, "queued", "cancelled") /\ UNCHANGED attempt

Forget(j) == \E t \in Terminal : Move(j, t, "deleted") /\ attempt' = [attempt EXCEPT ![j] = 0]

Next ==
  \E j \in Jobs :
    \/ Submit(j) \/ Start(j) \/ Requeue(j) \/ CancelQueued(j) \/ Forget(j)
    \/ \E outcome \in Terminal : Finish(j, outcome)

Spec == Init /\ [][Next]_lifecycle
=============================================================================
