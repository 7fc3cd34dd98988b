---------------------------- MODULE CronSchedule ----------------------------
(***************************************************************************)
(* src/src/cron/schedule.ts and the parts of cron/service/jobs.ts that     *)
(* decide when a job runs next.  Instants are positive; Never stands for   *)
(* the undefined next run.                                                 *)
(***************************************************************************)
EXTENDS Integers

Never == 0

\* The instant now for an "every" schedule that names no anchor.
NoAnchor == 0

\* kind "at": once at `at`.  "every": all `every` from the anchor `at`.
\* "cron": an expression, abstracted to the multiples of `every`.
\* "bad": an expression that the parser rejects.
Kinds == {"at", "every", "cron", "bad"}
ScheduleOf(kind, every, at) == [kind |-> kind, every |-> every, at |-> at]
IsSchedule(s) ==
  /\ s = ScheduleOf(s.kind, s.every, s.at)
  /\ s.kind \in Kinds /\ s.every \in Nat \ {0} /\ s.at \in Nat

\* An interval with an anchor of its own.
IsAnchored(s) == s.kind = "every" /\ s.at # NoAnchor

\* Mutant: an interval that starts now is already over.
StepsFromZero(e, elapsed) == (elapsed + e - 1) \div e

\* The number of intervals from the anchor to the next run, never 0.
Steps(e, elapsed) ==
  LET up == (elapsed + e - 1) \div e IN IF up < 1 THEN 1 ELSE up

NextEvery(e, anchor, now) ==
  IF now < anchor THEN anchor ELSE anchor + Steps(e, now - anchor) * e

\* The next match of an expression, by the library croner: after now.
NextMatch(e, now) == (now \div e + 1) * e

\* computeNextRunAtMs for the schedules that repeat.
ComputeNextRun(s, now) ==
  IF s.kind = "every"
  THEN NextEvery(s.every, IF s.at = NoAnchor THEN now ELSE s.at, now)
  ELSE NextMatch(s.every, now)

\* computeJobNextRunAtMs of a job whose schedule can be evaluated.
JobNextRun(job, now) ==
  IF ~job.enabled THEN Never
  ELSE IF job.sched.kind # "at" THEN ComputeNextRun(job.sched, now)
  ELSE IF job.lastStatus = "ok" THEN Never ELSE job.sched.at

\* Does computeJobNextRunAtMs throw?
Throws(job) == job.enabled /\ job.sched.kind = "bad"

WithNextRun(job, now) == [job EXCEPT !.next = JobNextRun(job, now)]

EarlierOf(a, b) == IF a < b THEN a ELSE b
LaterOf(a, b) == IF a < b THEN b ELSE a
=============================================================================
