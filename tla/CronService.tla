---------------------------- MODULE CronService ----------------------------
(***************************************************************************)
(* src/src/cron/service: the store of jobs, the one-shot timer that is     *)
(* armed for the earliest of them, the chain of promises that serialises   *)
(* every operation on a store, the runs of the jobs with their backoff,    *)
(* and the replacement of the service by a reload of the configuration.    *)
(* A job runs inside the operation that starts it: every other operation   *)
(* waits for its end.                                                      *)
(***************************************************************************)
EXTENDS CronSchedule, Sequences, FiniteSets

CONSTANTS
  Job,          \* names for jobs
  Schedule,     \* schedules that callers ask for
  MaxTime,      \* bound: the clock stops here
  MaxCalls,     \* bound: calls and crashes
  MaxTimeout,   \* longest delay of a timer, MAX_TIMEOUT_MS
  BackoffBase,  \* BACKOFF_BASE_MS
  BackoffMax,   \* BACKOFF_MAX_MS
  MaxErrors,    \* consecutive errors are counted up to here
  Disturb       \* what happens: subset of {"crash", "reload", "reject", "disk"}

ASSUME ScheduleAssumption == \A s \in Schedule : IsSchedule(s)
ASSUME ClockAssumption == MaxTime \in Nat \ {0} /\ MaxTimeout \in Nat \ {0}
ASSUME CallsAssumption == MaxCalls \in Nat
ASSUME BackoffAssumption ==
  /\ BackoffBase \in Nat \ {0} /\ BackoffMax \in Nat \ {0}
  /\ MaxErrors \in Nat /\ BackoffBase * 2 ^ MaxErrors >= 2 * BackoffMax

\* The service built at startup, that RPC handlers keep in their context, and
\* the one that a reload of the configuration builds.
Service == {"startup", "reloaded"}

VARIABLES
  now,      \* the clock
  calls,    \* calls and crashes so far
  jobs,     \* [Job -> job or Absent] the shared state.store of the services
  disk,     \* what the store file holds
  errors,   \* [Job -> Nat] jobConsecutiveErrors
  timer,    \* [Service -> instant or Never] when state.timer fires
  running,  \* [Service -> BOOLEAN] state.running
  enabled,  \* [Service -> BOOLEAN] deps.cronEnabled
  current,  \* the service of the last configuration
  chain,    \* operations that wait for the lock, oldest first
  op,       \* the operation that runs jobs, or NoOp
  slot      \* history: [Job -> Slot] the latest due time whose run succeeded

jobVars == <<jobs, disk, errors, slot>>
serviceVars == <<timer, running, enabled, current>>
vars == <<now, calls, jobVars, serviceVars, chain, op>>

Absent == [present |-> FALSE]
Present == {j \in Job : jobs[j].present}
NewJob(s, on, delete) ==
  [present |-> TRUE, enabled |-> on, sched |-> s, deleteAfterRun |-> delete,
   next |-> Never, running |-> FALSE, lastRun |-> Never, lastStatus |-> "none"]

\* due: jobs of the tick still to run; job: the one that runs, in {} or {j}.
NoOp == [kind |-> "none"]
TickOp(s, due) == [kind |-> "tick", service |-> s, due |-> due, job |-> {}, start |-> 0]
RunOp(s, j, forced) ==
  [kind |-> IF forced THEN "force" ELSE "run", service |-> s, due |-> {j}, job |-> {}, start |-> 0]

\* nextWakeAtMs of a store.
Pending(js) == {j \in Job : js[j].present /\ js[j].enabled /\ js[j].next # Never}
NextWake(js) ==
  IF Pending(js) = {} THEN Never
  ELSE CHOOSE t \in {js[j].next : j \in Pending(js)} : \A j \in Pending(js) : t <= js[j].next

\* Mutant: a timer that is already set is left alone.
ArmTimerOnce(s, js) ==
  timer' = [timer EXCEPT ![s] =
    IF timer[s] # Never THEN timer[s]
    ELSE IF ~enabled[s] \/ NextWake(js) = Never THEN Never
    ELSE EarlierOf(LaterOf(NextWake(js), now), now + MaxTimeout)]

\* armTimer, after the jobs have become js.
ArmTimer(s, js) ==
  timer' = [timer EXCEPT ![s] =
    IF ~enabled[s] \/ NextWake(js) = Never THEN Never
    ELSE EarlierOf(LaterOf(NextWake(js), now), now + MaxTimeout)]

\* The due time served last, the one of the job in the file, and whether the
\* process died before the file knew of the former.
Slot == [served : Nat, saved : Nat, lost : BOOLEAN]
Unserved == [served |-> Never, saved |-> Never, lost |-> FALSE]
ServedBy(z) == IF z.lost THEN z.saved ELSE z.served

\* History of a job that a caller schedules, of a save, and of the death of the process.
Rescheduled(j) == [slot EXCEPT ![j].served = Never, ![j].lost = FALSE]
Saved(sl) == [j \in Job |-> [sl[j] EXCEPT !.saved = ServedBy(sl[j])]]
Lost == [j \in Job |-> [slot[j] EXCEPT !.lost = @ \/ slot[j].served # slot[j].saved]]

\* Mutant: only the timer is set.
ArmUnsaved(s, js, sl) ==
  /\ UNCHANGED disk /\ slot' = sl
  /\ ArmTimer(s, js) \/ ("disk" \in Disturb /\ UNCHANGED timer)

\* persist and armTimer end every operation; a full disk skips both.
SaveAndArm(s, js, sl) ==
  \/ disk' = js /\ slot' = Saved(sl) /\ ArmTimer(s, js)
  \/ "disk" \in Disturb /\ slot' = sl /\ UNCHANGED <<disk, timer>>

Init ==
  /\ now = 1 /\ calls = 0
  /\ jobs = [j \in Job |-> Absent] /\ disk = jobs
  /\ errors = [j \in Job |-> 0] /\ slot = [j \in Job |-> Unserved]
  /\ timer = [s \in Service |-> Never]
  /\ running = [s \in Service |-> FALSE]
  /\ \E on \in BOOLEAN : enabled = [s \in Service |-> on]
  /\ current = "startup"
  /\ chain = <<<<"startup", "start">>>>
  /\ op = NoOp

-----------------------------------------------------------------------------
(***************************************************************************)
(* The timer, the callers and the operations that end in one step.         *)
(***************************************************************************)
PassTime ==
  /\ now < MaxTime
  /\ now' = now + 1
  /\ UNCHANGED <<calls, jobVars, serviceVars, chain, op>>

\* The timer fires: onTimer, up to the lock.
Fire(s) ==
  /\ timer[s] # Never /\ timer[s] <= now
  /\ timer' = [timer EXCEPT ![s] = Never]
  /\ running' = [running EXCEPT ![s] = TRUE]
  /\ chain' = IF running[s] THEN chain ELSE Append(chain, <<s, "tick">>)
  /\ UNCHANGED <<now, calls, jobVars, enabled, current, op>>

\* An RPC handler or the agent's cron tool calls the service it knows.
Call ==
  /\ calls < MaxCalls
  /\ calls' = calls + 1
  /\ chain' = Append(chain, <<"startup", "call">>)
  /\ UNCHANGED <<now, jobVars, serviceVars, op>>

\* Mutant: an operation does not wait for the one that runs jobs.
LockAtOnce(s, kind) ==
  /\ chain # <<>> /\ Head(chain) = <<s, kind>>
  /\ chain' = Tail(chain)

\* The operation at the head of the chain gets the lock.
Lock(s, kind) ==
  /\ op = NoOp
  /\ chain # <<>> /\ Head(chain) = <<s, kind>>
  /\ chain' = Tail(chain)

\* recomputeNextRuns, of some of the jobs.
Recomputed(some) ==
  [j \in Job |-> IF j \in some THEN [WithNextRun(jobs[j], now) EXCEPT !.running = @ /\ jobs[j].enabled]
                               ELSE jobs[j]]

\* start; a disabled service does nothing.
StartService(s) ==
  /\ Lock(s, "start")
  /\ IF enabled[s]
     THEN /\ \A j \in Present : ~Throws(jobs[j])
          /\ jobs' = Recomputed(Present)
          /\ SaveAndArm(s, jobs', slot)
     ELSE UNCHANGED <<jobs, disk, timer, slot>>
  /\ UNCHANGED <<now, calls, errors, running, enabled, current, op>>

\* start ends at the first job that cannot be evaluated; the order is open.
StartFails(s) ==
  /\ Lock(s, "start")
  /\ enabled[s] /\ \E j \in Present : Throws(jobs[j])
  /\ \E some \in SUBSET {j \in Present : ~Throws(jobs[j])} : jobs' = Recomputed(some)
  /\ UNCHANGED <<now, calls, disk, errors, slot, serviceVars, op>>

\* add, under a fresh id.
Add(s, j, new) ==
  /\ Lock(s, "call")
  /\ j \notin Present /\ ~Throws(new)
  /\ jobs' = [jobs EXCEPT ![j] = WithNextRun(new, now)]
  /\ errors' = [errors EXCEPT ![j] = 0]
  /\ SaveAndArm(s, jobs', Rescheduled(j))
  /\ UNCHANGED <<now, calls, running, enabled, current, op>>

Patched(j, sched, on) == [jobs[j] EXCEPT !.sched = sched, !.enabled = on]

\* update, with a patch that is accepted.
Update(s, j, sched, on) ==
  /\ Lock(s, "call")
  /\ j \in Present /\ ~Throws(Patched(j, sched, on))
  /\ jobs' = [jobs EXCEPT ![j] =
       [WithNextRun(Patched(j, sched, on), now) EXCEPT !.running = @ /\ on]]
  /\ SaveAndArm(s, jobs', Rescheduled(j))
  /\ UNCHANGED <<now, calls, errors, running, enabled, current, op>>

\* update, with a patch that is rejected after it was applied in memory.
UpdateRejected(s, j, sched, on) ==
  /\ Lock(s, "call")
  /\ "reject" \in Disturb
  /\ j \in Present
  /\ jobs' = [jobs EXCEPT ![j] = Patched(j, sched, on)]
  /\ slot' = Rescheduled(j)
  /\ UNCHANGED <<now, calls, disk, errors, serviceVars, op>>

\* remove; an unknown job is no error.
Remove(s, j) ==
  /\ Lock(s, "call")
  /\ jobs' = [jobs EXCEPT ![j] = Absent]
  /\ SaveAndArm(s, jobs', slot)
  /\ UNCHANGED <<now, calls, errors, running, enabled, current, op>>

\* status, list, and operations that find nothing to do.
Look(s) ==
  /\ Lock(s, "call")
  /\ UNCHANGED <<now, calls, jobVars, serviceVars, op>>

-----------------------------------------------------------------------------
(***************************************************************************)
(* Operations that run jobs keep the lock until the last of them has       *)
(* ended.                                                                  *)
(***************************************************************************)
Backoff(j) ==
  IF errors[j] = 0 THEN 0 ELSE EarlierOf(BackoffBase * 2 ^ (errors[j] - 1), BackoffMax)

\* isJobDue.
IsDue(j) ==
  /\ j \in Present
  /\ jobs[j].enabled /\ jobs[j].next # Never /\ jobs[j].next <= now

\* The filter of runDueJobs.
Ready(j) == IsDue(j) /\ ~jobs[j].running /\ now - jobs[j].lastRun >= Backoff(j)

\* onTimer with the lock, up to the choice of the jobs.
BeginTick(s) ==
  /\ Lock(s, "tick")
  /\ op' = TickOp(s, {j \in Job : Ready(j)})
  /\ UNCHANGED <<now, calls, jobVars, serviceVars>>

\* run of a single job.
BeginRun(s, j, forced) ==
  /\ Lock(s, "call")
  /\ j \in Present
  /\ forced \/ IsDue(j)
  /\ op' = RunOp(s, j, forced)
  /\ UNCHANGED <<now, calls, jobVars, serviceVars>>

\* Mutant: the running marker is saved.
StartJobSaved(j) ==
  /\ op # NoOp
  /\ op.job = {} /\ j \in op.due
  /\ op' = [op EXCEPT !.due = @ \ {j}, !.job = {j}, !.start = now]
  /\ jobs' = [jobs EXCEPT ![j].running = TRUE]
  /\ disk' = jobs'
  /\ UNCHANGED <<now, calls, errors, slot, serviceVars, chain>>

\* executeJob, up to the agent or the heartbeat; the order of the jobs is open.
StartJob(j) ==
  /\ op # NoOp
  /\ op.job = {} /\ j \in op.due
  /\ op' = [op EXCEPT !.due = @ \ {j}, !.job = {j}, !.start = now]
  /\ jobs' = [jobs EXCEPT ![j].running = TRUE]
  /\ UNCHANGED <<now, calls, disk, errors, slot, serviceVars, chain>>

Ended(j, status) ==
  [jobs[j] EXCEPT !.running = FALSE, !.lastRun = op.start, !.lastStatus = status]

\* finish: what is left of the job.
AfterRun(j, status) ==
  IF jobs[j].sched.kind # "at" \/ status # "ok" THEN WithNextRun(Ended(j, status), now)
  ELSE IF jobs[j].deleteAfterRun THEN Absent
  ELSE [Ended(j, status) EXCEPT !.enabled = FALSE, !.next = Never]

\* recordJobError and recordJobSuccess.
OneMore(n) == EarlierOf(n + 1, MaxErrors)
ErrorsAfter(n, status) ==
  IF status = "ok" THEN 0 ELSE IF status = "error" THEN OneMore(n) ELSE n

\* finish, and the end of executeJob.
FinishJob(j, status) ==
  /\ op # NoOp /\ op.job = {j}
  /\ ~Throws(jobs[j])
  /\ jobs' = [jobs EXCEPT ![j] = AfterRun(j, status)]
  /\ errors' = [errors EXCEPT ![j] = ErrorsAfter(@, status)]
  /\ slot' = IF status = "ok" /\ op.kind # "force"
             THEN [slot EXCEPT ![j] = [@ EXCEPT !.served = jobs[j].next, !.lost = FALSE]] ELSE slot
  /\ op' = [op EXCEPT !.job = {}]
  /\ UNCHANGED <<now, calls, disk, serviceVars, chain>>

\* The next run cannot be computed: finish throws, and so does the finish of
\* the catch clause.  The operation is over, with nothing saved or armed.
FinishThrows(j, status) ==
  /\ op # NoOp /\ op.job = {j}
  /\ Throws(jobs[j])
  /\ jobs' = [jobs EXCEPT ![j] = Ended(j, "error")]
  /\ errors' = [errors EXCEPT ![j] = OneMore(ErrorsAfter(@, status))]
  /\ running' = [running EXCEPT ![op.service] = @ /\ op.kind # "tick"]
  /\ op' = NoOp
  /\ UNCHANGED <<now, calls, disk, slot, timer, enabled, current, chain>>

\* Mutant: onTimer leaves the running flag set.
EndOpRunning ==
  /\ op # NoOp
  /\ op.due = {} /\ op.job = {}
  /\ SaveAndArm(op.service, jobs, slot)
  /\ op' = NoOp
  /\ UNCHANGED <<now, calls, jobs, errors, running, enabled, current, chain>>

\* The last job is done: persist, armTimer and the finally of onTimer.
EndOp ==
  /\ op # NoOp
  /\ op.due = {} /\ op.job = {}
  /\ SaveAndArm(op.service, jobs, slot)
  /\ running' = [running EXCEPT ![op.service] = @ /\ op.kind # "tick"]
  /\ op' = NoOp
  /\ UNCHANGED <<now, calls, jobs, errors, enabled, current, chain>>

-----------------------------------------------------------------------------
(***************************************************************************)
(* The gateway: reloads of the configuration, and restarts after a crash.  *)
(***************************************************************************)
\* stop of the old service, start of a new one.
Reload(on) ==
  /\ "reload" \in Disturb
  /\ current = "startup"
  /\ timer' = [timer EXCEPT ![current] = Never]
  /\ current' = "reloaded"
  /\ enabled' = [enabled EXCEPT !["reloaded"] = on]
  /\ chain' = Append(chain, <<"reloaded", "start">>)
  /\ UNCHANGED <<now, calls, jobVars, running, op>>

\* A new process loads the file.
Crash ==
  /\ "crash" \in Disturb
  /\ calls < MaxCalls /\ calls' = calls + 1
  /\ jobs' = disk
  /\ errors' = [j \in Job |-> 0] /\ slot' = Lost
  /\ timer' = [s \in Service |-> Never]
  /\ running' = [s \in Service |-> FALSE]
  /\ enabled' = [s \in Service |-> enabled[current]]
  /\ current' = "startup"
  /\ chain' = <<<<"startup", "start">>>>
  /\ op' = NoOp
  /\ UNCHANGED <<now, disk>>

LockedStep(s) ==
  \/ StartService(s) \/ StartFails(s)
  \/ BeginTick(s)
  \/ Look(s)
  \/ \E j \in Job :
       \/ \E sched \in Schedule, on, delete \in BOOLEAN : Add(s, j, NewJob(sched, on, delete))
       \/ \E sched \in Schedule, on \in BOOLEAN : Update(s, j, sched, on) \/ UpdateRejected(s, j, sched, on)
       \/ Remove(s, j)
       \/ \E forced \in BOOLEAN : BeginRun(s, j, forced)

Status == {"ok", "error", "skipped"}
JobStep ==
  \/ \E j \in Job :
       \/ StartJob(j)
       \/ \E status \in Status : FinishJob(j, status) \/ FinishThrows(j, status)
  \/ EndOp

Next ==
  \/ PassTime
  \/ Call
  \/ \E s \in Service : Fire(s) \/ LockedStep(s)
  \/ JobStep
  \/ \E on \in BOOLEAN : Reload(on)
  \/ Crash

Spec == Init /\ [][Next]_vars

\* Timers fire; operations get the lock in their order; every job ends, since
\* agent turns and the wait for a heartbeat have time limits.
FairSpec ==
  /\ Spec
  /\ \A s \in Service : WF_vars(Fire(s)) /\ WF_vars(LockedStep(s))
  /\ WF_vars(JobStep)
-----------------------------------------------------------------------------
JobRecord ==
  [present : {TRUE}, enabled : BOOLEAN, sched : Schedule, deleteAfterRun : BOOLEAN,
   next : Nat, running : BOOLEAN, lastRun : Nat, lastStatus : Status \cup {"none"}]

\* The types of the state of the cron services and of the store file.
TypeOK ==
  /\ now \in 1..MaxTime /\ calls \in 0..MaxCalls
  /\ jobs \in [Job -> JobRecord \cup {Absent}] /\ disk \in [Job -> JobRecord \cup {Absent}]
  /\ errors \in [Job -> 0..MaxErrors] /\ slot \in [Job -> Slot]
  /\ timer \in [Service -> Nat]
  /\ running \in [Service -> BOOLEAN] /\ enabled \in [Service -> BOOLEAN]
  /\ current \in Service
  /\ chain \in Seq(Service \X {"start", "tick", "call"})
  /\ \/ op = NoOp
     \/ op \in [kind : {"tick", "run", "force"}, service : Service, due : SUBSET Job,
                job : {{}} \cup {{j} : j \in Job}, start : Nat]

\* jobs.ts clears a running marker only after two hours.  It never has to: a
\* job in memory is marked only while its operation runs it, and no marker
\* reaches the file, where a crash would leave it for the next process.
MarkedJobsRun ==
  \A j \in Job :
    /\ (j \in Present /\ jobs[j].running) => op # NoOp /\ op.job = {j}
    /\ disk[j].present => ~disk[j].running

\* locked.ts: while an operation goes through the jobs that were due, none of
\* them is removed, disabled, moved or started by another operation.
DueJobsStay ==
  (op # NoOp /\ op.kind = "tick") =>
    \A j \in op.due \cup op.job : IsDue(j) /\ (j \in op.due => ~jobs[j].running)

\* Between operations the file holds what memory holds: the answer to a
\* caller, and the end of a run, are not given before they are saved.
AnsweredIsSaved == op = NoOp => disk = jobs

\* Between operations the timer of the scheduler covers the earliest job:
\* whatever ends an operation, nothing is left to run with no timer.
TimerCoversJobs ==
  (op = NoOp /\ chain = <<>> /\ enabled[current] /\ NextWake(jobs) # Never) =>
    \E s \in Service :
      timer[s] # Never /\ timer[s] <= LaterOf(NextWake(jobs), now)

\* store.ts, of a disabled scheduler: "jobs will not run automatically".  With
\* all operations done, no timer is left to start any.
DisabledSchedulerRests ==
  (op = NoOp /\ chain = <<>> /\ ~enabled[current]) => \A s \in Service : timer[s] = Never

\* A due time is used once, through reloads, rejected patches, full disks and
\* crashes: an unforced run never starts for the time, or an earlier one, that a run
\* has served already.  Two exceptions: when the process died before the end of that
\* run was saved, at the end of the whole tick, the file decides, and the time may be
\* used again, but none that the file had as served; and the grid of an anchored
\* interval may hold the very instant at which its run ends.
StartsUnforced(j) == op.kind \in {"tick", "run"} /\ j \in op.due /\ j \notin op'.due
SlotsServedOnce ==
  [][\A j \in Job : op # NoOp /\ op' # NoOp /\ StartsUnforced(j) =>
       \/ jobs[j].next > ServedBy(slot[j])
       \/ IsAnchored(jobs[j].sched) /\ jobs[j].next = ServedBy(slot[j])]_vars

\* What the code does not keep: no due time is served twice, even when the process
\* dies between the end of a run and its save.
NothingRunsTwice ==
  [][\A j \in Job : op # NoOp /\ op' # NoOp /\ StartsUnforced(j) =>
       jobs[j].next > slot[j].served]_vars

\* Setting a time for a one-shot job schedules it: an enabled job is never
\* left without a next run.
EnabledJobsScheduled ==
  op = NoOp => \A j \in Present : jobs[j].enabled => jobs[j].next # Never

\* A job that is due and not backing off is run, or stops being due, however
\* ticks, callers and the runs of other jobs interleave.
DueJobsRun ==
  \A j \in Job :
    (enabled[current] /\ Ready(j)) ~> (~Ready(j) \/ (op # NoOp /\ op.job = {j}))
=============================================================================
