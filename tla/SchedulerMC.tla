---------------------------- MODULE SchedulerMC ----------------------------
(* Scheduler for TLC: a timedelta that a slow turn can run past, a crontab   *)
(* entry, and one whose crontab cannot be parsed.                           *)
EXTENDS Scheduler, TLC

CONSTANTS often, cron, broken

Timedelta(s) == [hours |-> 0, minutes |-> 0, seconds |-> s]
DeltaMC == often :> Timedelta(2)
EveryMC == cron :> 3 @@ broken :> 1
=============================================================================
