---------------------------- MODULE MCSchedules ----------------------------
(* A schedule either makes up for everything it missed, or skips while its *)
(* last run is active.  The cron expression fires at 1 and at 2; in one    *)
(* zone the clock is set back between them, and both have one local time.  *)
EXTENDS Schedules, TLC

CONSTANTS home, away

MCFires == [z \in Zones |-> {1, 2}]
MCKey == [z \in Zones |-> [t \in Time |-> IF z = away /\ t = 2 THEN 1 ELSE t]]
MCPolicies == {[misfire |-> "all", overlap |-> "allow", maxCatchUp |-> 3],
               [misfire |-> "latest", overlap |-> "skip", maxCatchUp |-> 1],
               [misfire |-> "skip", overlap |-> "allow", maxCatchUp |-> 1]}
=============================================================================
