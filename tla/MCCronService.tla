--------------------------- MODULE MCCronService ---------------------------
(***************************************************************************)
(* Instances of CronService for TLC.  The clock is coarse: a unit is the   *)
(* shortest backoff.                                                       *)
(***************************************************************************)
EXTENDS CronService, TLC

Once == ScheduleOf("at", 1, 2)
Later == ScheduleOf("at", 1, 3)
Interval == ScheduleOf("every", 2, NoAnchor)
Anchored == ScheduleOf("every", 2, 1)
Expression == ScheduleOf("cron", 2, NoAnchor)
Rejected == ScheduleOf("bad", 1, NoAnchor)

OneShots == {Once, Later}
Mixed == {Once, Interval, Expression}
WithRejected == {Once, Interval, Anchored, Rejected}

\* Names of jobs are alike; sound for the safety properties only.
Alike == Permutations(Job)
=============================================================================
