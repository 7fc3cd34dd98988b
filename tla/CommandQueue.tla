---------------------------- MODULE CommandQueue ----------------------------
(***************************************************************************)
(* src/src/process/command-queue.ts: the in-process lanes every agent run  *)
(* goes through.  A lane is a FIFO of tasks and a concurrency limit.       *)
(*                                                                         *)
(* JavaScript runs one synchronous stretch at a time, so the model keeps   *)
(* the call stack of the current stretch: pump() invocations, and the      *)
(* synchronous prefix of the task a pump has just called, which may itself *)
(* enqueue (an agent run's session-lane task enqueues on the global lane   *)
(* before its first await).  Every other event needs an empty stack.       *)
(***************************************************************************)
EXTENDS Integers, Sequences, FiniteSets

CONSTANTS
  Lane,       \* lane names
  Task,       \* calls of enqueueCommandInLane, each made at most once
  NoTask,     \* the pump was called by drainLane, not by a finished task
  Setting,    \* concurrency values a configuration may ask for
  Clearable,  \* lanes that clearCommandLane is called on
  Nests       \* <<l, m, w>>: the prefix of a task of lane l may enqueue on
              \* lane m, and the task awaits the result iff w

ASSUME LaneAssumption == Lane # {}
ASSUME NoTaskAssumption == NoTask \notin Task
ASSUME SettingAssumption == Setting \subseteq Int
ASSUME FiniteTasks == IsFiniteSet(Task)
ASSUME NestsAssumption == Nests \subseteq Lane \X Lane \X BOOLEAN

VARIABLES
  queue,          \* [Lane -> Seq(Task)]
  active,         \* [Lane -> Int]
  maxConcurrent,  \* [Lane -> Int]
  draining,       \* [Lane -> BOOLEAN]
  stack,          \* Seq(Frame), the innermost call last
  status,         \* [Task -> Status]
  laneOf,         \* [Task -> Lane], meaningful once the task was enqueued
  awaits          \* [Task -> SUBSET Task], results the task is waiting for

laneVars == <<queue, active, maxConcurrent, draining>>
vars == <<queue, active, maxConcurrent, draining, stack, status, laneOf, awaits>>

Settled == {"resolved", "rejected"}
Status == {"new", "queued", "running", "settling", "cleared"} \cup Settled

\* A pump() call, with the promise to settle when it returns, or the prefix of
\* a task the pump below it on the stack has just called.
Frame == [kind : {"pump"}, lane : Lane, task : Task \cup {NoTask}, outcome : Settled]
           \cup [kind : {"prefix"}, lane : Lane, task : Task, outcome : Settled]

Top == stack[Len(stack)]
Pop == SubSeq(stack, 1, Len(stack) - 1)
Idle == stack = <<>>
InPump == stack # <<>> /\ Top.kind = "pump"
InPrefix == stack # <<>> /\ Top.kind = "prefix"

Running(l) == {t \in Task : laneOf[t] = l /\ status[t] = "running"}

-----------------------------------------------------------------------------
Init ==
  /\ queue = [l \in Lane |-> <<>>]
  /\ active = [l \in Lane |-> 0]
  /\ maxConcurrent = [l \in Lane |-> 1]
  /\ draining = [l \in Lane |-> FALSE]
  /\ stack = <<>>
  /\ status = [t \in Task |-> "new"]
  /\ laneOf = [t \in Task |-> CHOOSE l \in Lane : TRUE]
  /\ awaits = [t \in Task |-> {}]

PumpFrame(l) == [kind |-> "pump", lane |-> l, task |-> NoTask, outcome |-> "resolved"]

\* drainLane: nothing when a drain of the lane is under way, else call pump.
DrainLane(l) ==
  IF draining[l]
    THEN UNCHANGED <<draining, stack>>
    ELSE /\ draining' = [draining EXCEPT ![l] = TRUE]
         /\ stack' = Append(stack, PumpFrame(l))

Enqueue(t, l) ==
  /\ status[t] = "new"
  /\ queue' = [queue EXCEPT ![l] = Append(@, t)]
  /\ status' = [status EXCEPT ![t] = "queued"]
  /\ laneOf' = [laneOf EXCEPT ![t] = l]
  /\ DrainLane(l)
  /\ UNCHANGED <<active, maxConcurrent>>

\* enqueueCommandInLane called by an event handler.
EnqueueFromEvent(t, l) ==
  /\ Idle
  /\ Enqueue(t, l)
  /\ UNCHANGED awaits

\* enqueueCommandInLane called by the prefix of a task that is being started.
EnqueueFromTask(t, l, w) ==
  /\ InPrefix
  /\ <<Top.lane, l, w>> \in Nests
  /\ Enqueue(t, l)
  /\ awaits' = IF w THEN [awaits EXCEPT ![Top.task] = @ \cup {t}] ELSE awaits

HasRoom(l) == active[l] < maxConcurrent[l] /\ queue[l] # <<>>

\* Mutant: the newest entry is taken (pop for shift).
PumpStartNewest(l) ==
  /\ InPump
  /\ Top.lane = l
  /\ HasRoom(l)
  /\ LET n == Len(queue[l])
         t == queue[l][n]
     IN /\ status' = [status EXCEPT ![t] = "running"]
        /\ stack' = Append(stack, [kind |-> "prefix", lane |-> l, task |-> t,
                                   outcome |-> "resolved"])
        /\ queue' = [queue EXCEPT ![l] = SubSeq(@, 1, n - 1)]
  /\ active' = [active EXCEPT ![l] = @ + 1]
  /\ UNCHANGED <<maxConcurrent, draining, laneOf, awaits>>

\* One iteration of pump's loop: take the oldest entry and call its task.
PumpStart(l) ==
  /\ InPump
  /\ Top.lane = l
  /\ HasRoom(l)
  /\ LET t == Head(queue[l]) IN
       /\ status' = [status EXCEPT ![t] = "running"]
       /\ stack' = Append(stack, [kind |-> "prefix", lane |-> l, task |-> t,
                                  outcome |-> "resolved"])
  /\ queue' = [queue EXCEPT ![l] = Tail(@)]
  /\ active' = [active EXCEPT ![l] = @ + 1]
  /\ UNCHANGED <<maxConcurrent, draining, laneOf, awaits>>

\* The started task reaches its first await.
PrefixReturn ==
  /\ InPrefix
  /\ stack' = Pop
  /\ UNCHANGED <<laneVars, status, laneOf, awaits>>

\* Mutant: the draining flag is never reset.
PumpReturnStuck(l) ==
  /\ InPump
  /\ Top.lane = l
  /\ ~HasRoom(l)
  /\ stack' = Pop
  /\ status' = IF Top.task = NoTask THEN status
                                    ELSE [status EXCEPT ![Top.task] = Top.outcome]
  /\ UNCHANGED <<laneVars, laneOf, awaits>>

\* The loop ends: pump returns to drainLane, or to a finished task's epilogue,
\* which settles the promise of the task.
PumpReturn(l) ==
  /\ InPump
  /\ Top.lane = l
  /\ ~HasRoom(l)
  /\ draining' = [draining EXCEPT ![l] = FALSE]
  /\ stack' = Pop
  /\ status' = IF Top.task = NoTask THEN status
                                    ELSE [status EXCEPT ![Top.task] = Top.outcome]
  /\ UNCHANGED <<queue, active, maxConcurrent, laneOf, awaits>>

\* Mutant: a failing task keeps its slot.
CompleteLeaking(t, outcome) ==
  /\ Idle
  /\ status[t] = "running"
  /\ \A u \in awaits[t] : status[u] \in Settled
  /\ active' = IF outcome = "resolved" THEN [active EXCEPT ![laneOf[t]] = @ - 1] ELSE active
  /\ status' = [status EXCEPT ![t] = "settling"]
  /\ stack' = <<[kind |-> "pump", lane |-> laneOf[t], task |-> t, outcome |-> outcome]>>
  /\ UNCHANGED <<queue, maxConcurrent, draining, laneOf, awaits>>

\* Mutant: a finished task settles its promise without pumping its lane.
CompleteSilently(t, outcome) ==
  /\ Idle
  /\ status[t] = "running"
  /\ \A u \in awaits[t] : status[u] \in Settled
  /\ active' = [active EXCEPT ![laneOf[t]] = @ - 1]
  /\ status' = [status EXCEPT ![t] = outcome]
  /\ UNCHANGED <<queue, maxConcurrent, draining, stack, laneOf, awaits>>

\* The await in the task's epilogue continues: free the slot and pump.
Complete(t, outcome) ==
  /\ Idle
  /\ status[t] = "running"
  /\ \A u \in awaits[t] : status[u] \in Settled
  /\ active' = [active EXCEPT ![laneOf[t]] = @ - 1]
  /\ status' = [status EXCEPT ![t] = "settling"]
  /\ stack' = <<[kind |-> "pump", lane |-> laneOf[t], task |-> t, outcome |-> outcome]>>
  /\ UNCHANGED <<queue, maxConcurrent, draining, laneOf, awaits>>

\* setCommandLaneConcurrency: the configuration is applied at start and reload.
SetCommandLaneConcurrency(l, n) ==
  /\ Idle
  /\ maxConcurrent' = [maxConcurrent EXCEPT ![l] = IF n < 1 THEN 1 ELSE n]
  /\ DrainLane(l)
  /\ UNCHANGED <<queue, active, status, laneOf, awaits>>

\* clearCommandLane: entries are dropped and their promises never settle.
ClearCommandLane(l) ==
  /\ Idle
  /\ l \in Clearable
  /\ queue' = [queue EXCEPT ![l] = <<>>]
  /\ status' = [t \in Task |->
                  IF laneOf[t] = l /\ status[t] = "queued" THEN "cleared" ELSE status[t]]
  /\ UNCHANGED <<active, maxConcurrent, draining, stack, laneOf, awaits>>

Next ==
  \/ \E t \in Task, l \in Lane :
       \/ EnqueueFromEvent(t, l)
       \/ \E w \in BOOLEAN : EnqueueFromTask(t, l, w)
  \/ \E l \in Lane :
       \/ PumpStart(l)
       \/ PumpReturn(l)
       \/ \E n \in Setting : SetCommandLaneConcurrency(l, n)
       \/ ClearCommandLane(l)
  \/ PrefixReturn
  \/ \E t \in Task, outcome \in Settled : Complete(t, outcome)

Spec == Init /\ [][Next]_vars

\* A synchronous stretch runs to its end, and a task whose awaits are over has
\* its continuation run: microtasks are served in order, whatever else arrives.
Fairness ==
  /\ WF_vars(\E l \in Lane : PumpStart(l) \/ PumpReturn(l))
  /\ WF_vars(PrefixReturn)
  /\ \A t \in Task : SF_vars(\E outcome \in Settled : Complete(t, outcome))

FairSpec == Spec /\ Fairness

-----------------------------------------------------------------------------
TypeOK ==
  /\ queue \in [Lane -> Seq(Task)]
  /\ active \in [Lane -> Int]
  /\ maxConcurrent \in [Lane -> Nat \ {0}]
  /\ draining \in [Lane -> BOOLEAN]
  /\ stack \in Seq(Frame)
  /\ status \in [Task -> Status]
  /\ laneOf \in [Task -> Lane]
  /\ awaits \in [Task -> SUBSET Task]

\* The counter that admission relies on is the number of tasks that really run,
\* on the success and on the failure path, whatever was cleared or reconfigured.
ActiveCounts == \A l \in Lane : active[l] = Cardinality(Running(l))

\* Between two events no lane sits on work it has room for: whatever the order
\* of reentrant enqueues, completions and limit changes, no wake-up is lost
\* (a lane whose draining flag stuck would refuse every later drain).
NoLostWakeup == Idle => \A l \in Lane : ~HasRoom(l) /\ ~draining[l]

IsIn(t, s) == \E i \in 1..Len(s) : s[i] = t

\* No task is both queued and dropped, running or settled, nor queued twice.
QueuedOnce ==
  \A l \in Lane :
    /\ \A i, j \in 1..Len(queue[l]) : queue[l][i] = queue[l][j] => i = j
    /\ \A t \in Task : (status[t] = "queued" /\ laneOf[t] = l) <=> IsIn(t, queue[l])

\* Every enqueued task is eventually settled or was dropped by a clear, as long
\* as tasks nest from session lanes to global lanes only.
EveryTaskSettles ==
  \A t \in Task : status[t] = "queued" ~> status[t] \in Settled \cup {"cleared"}

Executor == INSTANCE LaneExecutor
              WITH waiting <- queue,
                   running <- [l \in Lane |-> Running(l)],
                   limit <- maxConcurrent

\* The lanes implement the abstract executor: FIFO, bounded, work-conserving.
ImplementsExecutor == Executor!Spec
=============================================================================
