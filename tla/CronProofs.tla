----------------------------- MODULE CronProofs -----------------------------
(***************************************************************************)
(* Proofs about CronSchedule and CronService.                              *)
(***************************************************************************)
EXTENDS CronService, TLAPS, WellFoundedInduction

LEMMA DivFacts ==
  ASSUME NEW e \in Nat \ {0}, NEW x \in Nat
  PROVE  /\ x \div e \in Nat
         /\ (x \div e) * e <= x
         /\ x < (x \div e) * e + e
BY SMT

LEMMA ProductFacts ==
  ASSUME NEW a \in Nat, NEW b \in Nat
  PROVE  /\ a * b \in Nat
         /\ (a + 1) * b = a * b + b
BY SMT

\* The interval count: the least one, from 1 on, that reaches the elapsed time.
LEMMA StepsFacts ==
  ASSUME NEW e \in Nat \ {0}, NEW elapsed \in Nat
  PROVE  /\ Steps(e, elapsed) \in Nat \ {0}
         /\ Steps(e, elapsed) * e >= elapsed
         /\ Steps(e, elapsed) = 1 \/ Steps(e, elapsed) * e < elapsed + e
<1> DEFINE up == (elapsed + e - 1) \div e
<1>1. elapsed + e - 1 \in Nat
  OBVIOUS
<1>2. /\ up \in Nat
      /\ up * e <= elapsed + e - 1
      /\ elapsed + e - 1 < up * e + e
  BY <1>1, DivFacts
<1>3. CASE up < 1
  <2>1. Steps(e, elapsed) = 1
    BY <1>3 DEF Steps
  <2>2. elapsed + e - 1 < e
    BY <1>2, <1>3
  <2> QED
    BY <2>1, <2>2
<1>4. CASE ~(up < 1)
  <2>1. Steps(e, elapsed) = up
    BY <1>4 DEF Steps
  <2>2. up \in Nat \ {0} /\ up * e \in Nat
    BY <1>2, <1>4, ProductFacts
  <2>3. up * e >= elapsed /\ up * e < elapsed + e
    BY <1>2, <2>2
  <2> QED
    BY <2>1, <2>2, <2>3
<1> QED
  BY <1>3, <1>4

\* computeNextRunAtMs of an interval: the first instant of the grid of the
\* anchor that is not before now, and never the anchor itself once it is past.
THEOREM EveryOnGrid ==
  ASSUME NEW e \in Nat \ {0}, NEW anchor \in Nat, NEW t \in Nat
  PROVE  /\ NextEvery(e, anchor, t) \in Nat
         /\ NextEvery(e, anchor, t) >= t
         /\ t < anchor => NextEvery(e, anchor, t) = anchor
         /\ t >= anchor =>
              \E k \in Nat \ {0} :
                /\ NextEvery(e, anchor, t) = anchor + k * e
                /\ k = 1 \/ anchor + k * e < t + e
<1>1. CASE t < anchor
  BY <1>1 DEF NextEvery
<1>2. CASE t >= anchor
  <2> DEFINE k == Steps(e, t - anchor)
  <2>1. t - anchor \in Nat
    BY <1>2
  <2>2. k \in Nat \ {0} /\ k * e >= t - anchor /\ (k = 1 \/ k * e < (t - anchor) + e)
    BY <2>1, StepsFacts
  <2>3. NextEvery(e, anchor, t) = anchor + k * e
    BY <1>2 DEF NextEvery
  <2>4. k * e \in Nat
    BY <2>2, ProductFacts
  <2> HIDE DEF k
  <2>5. /\ NextEvery(e, anchor, t) \in Nat
        /\ NextEvery(e, anchor, t) >= t
        /\ k = 1 \/ anchor + k * e < t + e
    BY <2>2, <2>3, <2>4
  <2> QED
    BY <1>2, <2>2, <2>3, <2>5
<1> QED
  BY <1>1, <1>2

\* schedule.test.ts: with no anchor, the next run is one interval from now.
THEOREM IntervalAdvances ==
  ASSUME NEW e \in Nat \ {0}, NEW t \in Nat
  PROVE  NextEvery(e, t, t) = t + e
<1>1. t - t = 0 /\ 0 + e - 1 = e - 1 /\ e - 1 \in Nat
  OBVIOUS
<1>2. Steps(e, 0) = 1
  <2>1. /\ (e - 1) \div e \in Nat
        /\ ((e - 1) \div e) * e <= e - 1
    BY <1>1, DivFacts
  <2>2. (e - 1) \div e < 1
    BY <2>1
  <2> QED
    BY <1>1, <2>2 DEF Steps
<1> QED
  BY <1>1, <1>2 DEF NextEvery

\* Every non-empty set of instants has an earliest one.
LEMMA Earliest ==
  ASSUME NEW T \in SUBSET Nat, T # {}
  PROVE  \E t \in T : \A u \in T : t <= u
<1>1. PICK t \in T : \A u \in T : <<u, t>> \notin OpToRel(<, Nat)
  BY WFMin, NatLessThanWellFounded, Zenon
<1>2. \A u \in T : ~(u < t)
  BY <1>1, Zenon DEF OpToRel
<1> QED
  BY <1>2
-----------------------------------------------------------------------------
(***************************************************************************)
(* Types.                                                                  *)
(***************************************************************************)
Store == [Job -> JobRecord \cup {Absent}]

LEMMA RecordFacts ==
  ASSUME NEW r \in JobRecord \cup {Absent}, r.present
  PROVE  r \in JobRecord
<1>1. r # Absent
  <2>1. Absent.present = FALSE
    BY DEF Absent
  <2> QED
    BY <2>1
<1> QED
  BY <1>1

LEMMA ComputedNat ==
  ASSUME NEW s, IsSchedule(s), NEW t \in Nat
  PROVE  ComputeNextRun(s, t) \in Nat
<1>1. s.every \in Nat \ {0} /\ s.at \in Nat
  BY DEF IsSchedule
<1>2. CASE s.kind = "every"
  BY <1>1, <1>2, EveryOnGrid DEF ComputeNextRun
<1>3. CASE s.kind # "every"
  <2>1. t \div s.every \in Nat
    BY <1>1, DivFacts
  <2>2. (t \div s.every + 1) * s.every \in Nat
    BY <1>1, <2>1, ProductFacts
  <2> QED
    BY <1>3, <2>2 DEF ComputeNextRun, NextMatch
<1> QED
  BY <1>2, <1>3

LEMMA WithNextRunType ==
  ASSUME NEW r \in JobRecord, NEW t \in Nat
  PROVE  WithNextRun(r, t) \in JobRecord
<1>1. r.sched \in Schedule /\ IsSchedule(r.sched)
  BY ScheduleAssumption DEF JobRecord
<1>2. r.sched.at \in Nat
  BY <1>1 DEF IsSchedule
<1>3. ComputeNextRun(r.sched, t) \in Nat
  BY <1>1, ComputedNat
<1>4. JobNextRun(r, t) \in Nat
  BY <1>2, <1>3 DEF JobNextRun, Never
<1> QED
  BY <1>4 DEF WithNextRun, JobRecord

\* The store is armed for a pending job, and for the earliest.
LEMMA NextWakeFacts ==
  ASSUME NEW js \in Store
  PROVE  /\ NextWake(js) \in Nat
         /\ \A j \in Pending(js) : NextWake(js) <= js[j].next
<1> DEFINE T == {js[j].next : j \in Pending(js)}
<1>1. \A j \in Pending(js) : js[j] \in JobRecord
  BY RecordFacts DEF Store, Pending
<1>2. T \in SUBSET Nat
  BY <1>1 DEF JobRecord
<1>3. CASE Pending(js) = {}
  BY <1>3 DEF NextWake, Never
<1>4. CASE Pending(js) # {}
  <2>1. T # {}
    BY <1>4
  <2>2. \E t \in T : \A u \in T : t <= u
    <3> HIDE DEF T
    <3> QED
      BY <1>2, <2>1, Earliest
  <2>3. \E t \in T : \A j \in Pending(js) : t <= js[j].next
    BY <2>2
  <2>4. NextWake(js) = CHOOSE t \in T : \A j \in Pending(js) : t <= js[j].next
    BY <1>4 DEF NextWake
  <2>5. NextWake(js) \in T /\ \A j \in Pending(js) : NextWake(js) <= js[j].next
    <3> HIDE DEF T
    <3> QED
      BY <2>3, <2>4
  <2> QED
    BY <1>2, <2>5
<1> QED
  BY <1>3, <1>4

LEMMA ArmTimerType ==
  ASSUME NEW js \in Store, NEW s \in Service, now \in Nat,
         timer \in [Service -> Nat], ArmTimer(s, js)
  PROVE  timer' \in [Service -> Nat]
<1>1. NextWake(js) \in Nat
  BY NextWakeFacts
<1>2. EarlierOf(LaterOf(NextWake(js), now), now + MaxTimeout) \in Nat
  BY <1>1, ClockAssumption DEF EarlierOf, LaterOf
<1> QED
  BY <1>2 DEF ArmTimer, Never

\* What becomes of the history of due times.
LEMMA SlotTypes ==
  ASSUME NEW sl \in [Job -> Slot]
  PROVE  /\ Saved(sl) \in [Job -> Slot]
         /\ \A j \in Job : sl[j].saved \in Nat /\ sl[j].served \in Nat /\ ServedBy(sl[j]) \in Nat
         /\ \A j \in Job : /\ ServedBy(Saved(sl)[j]) = ServedBy(sl[j])
                           /\ Saved(sl)[j].saved = ServedBy(sl[j])
<1>1. \A j \in Job : /\ sl[j].saved \in Nat /\ sl[j].served \in Nat /\ sl[j].lost \in BOOLEAN
                     /\ ServedBy(sl[j]) \in Nat
  BY DEF Slot, ServedBy
<1>2. \A j \in Job :
        /\ Saved(sl)[j] \in Slot
        /\ ServedBy(Saved(sl)[j]) = ServedBy(sl[j]) /\ Saved(sl)[j].saved = ServedBy(sl[j])
  <2> TAKE j \in Job
  <2>1. Saved(sl)[j] = [sl[j] EXCEPT !.saved = ServedBy(sl[j])]
    BY DEF Saved
  <2>2. /\ Saved(sl)[j] \in Slot /\ Saved(sl)[j].saved = ServedBy(sl[j])
        /\ Saved(sl)[j].served = sl[j].served /\ Saved(sl)[j].lost = sl[j].lost
    BY <1>1, <2>1 DEF Slot
  <2> QED
    BY <2>2 DEF ServedBy
<1>3. Saved(sl) \in [Job -> Slot]
  BY <1>2 DEF Saved
<1> QED
  BY <1>1, <1>2, <1>3

LEMMA RescheduledFacts ==
  ASSUME slot \in [Job -> Slot], NEW j \in Job
  PROVE  /\ Rescheduled(j) \in [Job -> Slot]
         /\ ServedBy(Rescheduled(j)[j]) = Never
         /\ \A k \in Job : Rescheduled(j)[k].saved = slot[k].saved
         /\ \A k \in Job : k # j => Rescheduled(j)[k] = slot[k]
BY DEF Rescheduled, Slot, ServedBy, Never

LEMMA LostFacts ==
  ASSUME slot \in [Job -> Slot]
  PROVE  /\ Lost \in [Job -> Slot]
         /\ \A j \in Job : Lost[j].saved = slot[j].saved /\ ServedBy(Lost[j]) = slot[j].saved
<1>1. \A j \in Job : Lost[j] \in Slot /\ Lost[j].saved = slot[j].saved /\ ServedBy(Lost[j]) = slot[j].saved
  <2> TAKE j \in Job
  <2>1. Lost[j] = [slot[j] EXCEPT !.lost = @ \/ slot[j].served # slot[j].saved]
    BY DEF Lost
  <2>2. /\ Lost[j].saved = slot[j].saved /\ Lost[j].served = slot[j].served
        /\ Lost[j].lost = (slot[j].lost \/ slot[j].served # slot[j].saved)
        /\ Lost[j] \in Slot
    BY <2>1 DEF Slot
  <2> QED
    BY <2>2 DEF ServedBy
<1> QED
  BY <1>1 DEF Lost

LEMMA SaveAndArmType ==
  ASSUME NEW js \in Store, NEW s \in Service, NEW sl \in [Job -> Slot], now \in Nat,
         disk \in Store, timer \in [Service -> Nat], SaveAndArm(s, js, sl)
  PROVE  disk' \in Store /\ timer' \in [Service -> Nat] /\ slot' \in [Job -> Slot]
BY ArmTimerType, SlotTypes DEF SaveAndArm

LEMMA LockType ==
  ASSUME chain \in Seq(Service \X {"start", "tick", "call"}), NEW s, NEW kind, Lock(s, kind)
  PROVE  chain' \in Seq(Service \X {"start", "tick", "call"}) /\ s \in Service
BY DEF Lock

LEMMA InitTyped == Init => TypeOK
<1> SUFFICES ASSUME Init PROVE TypeOK
  OBVIOUS
<1>1. jobs \in Store /\ disk \in Store
  BY DEF Init, Store
<1>2. chain \in Seq(Service \X {"start", "tick", "call"})
  BY DEF Init, Service
<1>3. /\ now \in 1..MaxTime /\ calls \in 0..MaxCalls
      /\ errors \in [Job -> 0..MaxErrors] /\ slot \in [Job -> Slot]
  BY ClockAssumption, CallsAssumption, BackoffAssumption DEF Init, Never, Slot, Unserved
<1>4. /\ timer \in [Service -> Nat] /\ running \in [Service -> BOOLEAN]
      /\ enabled \in [Service -> BOOLEAN] /\ current \in Service /\ op = NoOp
  BY DEF Init, Service, Never
<1> QED
  BY <1>1, <1>2, <1>3, <1>4 DEF TypeOK, Store

\* The operation with the lock works on jobs of the store; on due ones unless a
\* caller forces the run; on each of them once.
OpInv ==
  op # NoOp =>
    /\ op.due \cup op.job \subseteq Present
    /\ op.kind # "force" => \A j \in op.due \cup op.job : IsDue(j)
    /\ op.due \cap op.job = {}

LEMMA StepTyped == TypeOK /\ OpInv /\ [Next]_vars => TypeOK'
<1> SUFFICES ASSUME TypeOK, OpInv, [Next]_vars PROVE TypeOK'
  OBVIOUS
<1> USE DEF TypeOK, Store
<1>t. now \in Nat
  BY ClockAssumption
<1>0. CASE UNCHANGED vars
  BY <1>0 DEF vars, jobVars, serviceVars
<1>1. CASE PassTime
  BY <1>1, ClockAssumption DEF PassTime, jobVars, serviceVars
<1>2. CASE Call
  BY <1>2, CallsAssumption DEF Call, jobVars, serviceVars, Service
<1>3. ASSUME NEW s \in Service, Fire(s) PROVE TypeOK'
  <2>1. chain' \in Seq(Service \X {"start", "tick", "call"})
    BY <1>3 DEF Fire
  <2> QED
    BY <1>3, <2>1 DEF Fire, jobVars, Never
<1>4. ASSUME NEW s \in Service, StartService(s) \/ StartFails(s) PROVE TypeOK'
  <2>1. Lock(s, "start")
    BY <1>4 DEF StartService, StartFails
  <2>2. ASSUME NEW some \in SUBSET Present PROVE Recomputed(some) \in Store
    <3>1. \A j \in Present : [WithNextRun(jobs[j], now) EXCEPT !.running = @ /\ jobs[j].enabled] \in JobRecord
      <4> TAKE j \in Present
      <4>1. jobs[j] \in JobRecord
        BY RecordFacts DEF Present
      <4>2. WithNextRun(jobs[j], now) \in JobRecord
        BY <1>t, <4>1, WithNextRunType
      <4> QED
        BY <4>1, <4>2 DEF JobRecord
    <3> QED
      BY <3>1 DEF Recomputed, Present
  <2>3. jobs' \in Store
    <3>1. CASE StartService(s)
      <4>1. jobs' = Recomputed(Present) \/ jobs' = jobs
        BY <3>1 DEF StartService
      <4> QED
        BY <2>2, <4>1
    <3>2. CASE StartFails(s)
      <4>1. PICK some \in SUBSET Present : jobs' = Recomputed(some)
        BY <3>2 DEF StartFails
      <4> QED
        BY <2>2, <4>1
    <3> QED
      BY <1>4, <3>1, <3>2
  <2>4. disk' \in Store /\ timer' \in [Service -> Nat] /\ slot' \in [Job -> Slot]
    <3>1. SaveAndArm(s, jobs', slot) \/ UNCHANGED <<disk, timer, slot>>
      BY <1>4 DEF StartService, StartFails, serviceVars
    <3> QED
      BY <1>t, <2>3, <3>1, SaveAndArmType
  <2> QED
    BY <1>4, <2>1, <2>3, <2>4, LockType DEF StartService, StartFails, serviceVars
<1>5. ASSUME NEW s \in Service, BeginTick(s) PROVE TypeOK'
  <2>1. op' \in [kind : {"tick"}, service : Service, due : SUBSET Job, job : {{}}, start : Nat]
    BY <1>5 DEF BeginTick, TickOp
  <2> QED
    BY <1>5, <2>1, LockType DEF BeginTick, jobVars, serviceVars
<1>6. ASSUME NEW s \in Service, Look(s) PROVE TypeOK'
  BY <1>6, LockType DEF Look, jobVars, serviceVars
<1>7. ASSUME NEW s \in Service, NEW j \in Job, NEW sched \in Schedule,
             NEW on \in BOOLEAN, NEW delete \in BOOLEAN,
             Add(s, j, NewJob(sched, on, delete))
      PROVE  TypeOK'
  <2>1. NewJob(sched, on, delete) \in JobRecord
    BY DEF NewJob, JobRecord, Never
  <2>2. jobs' \in Store
    BY <1>7, <1>t, <2>1, WithNextRunType DEF Add
  <2>3. disk' \in Store /\ timer' \in [Service -> Nat] /\ slot' \in [Job -> Slot]
    BY <1>7, <1>t, <2>2, SaveAndArmType, RescheduledFacts DEF Add
  <2>4. errors' \in [Job -> 0..MaxErrors]
    BY <1>7, BackoffAssumption DEF Add
  <2> QED
    BY <1>7, <2>2, <2>3, <2>4, LockType DEF Add
<1>8. ASSUME NEW s \in Service, NEW j \in Job, NEW sched \in Schedule,
             NEW on \in BOOLEAN, Update(s, j, sched, on) \/ UpdateRejected(s, j, sched, on)
      PROVE  TypeOK'
  <2>1. j \in Present
    BY <1>8 DEF Update, UpdateRejected
  <2>2. jobs[j] \in JobRecord
    BY <2>1, RecordFacts DEF Present
  <2>3. Patched(j, sched, on) \in JobRecord
    BY <2>2 DEF Patched, JobRecord
  <2>5. CASE Update(s, j, sched, on)
    <3>1. WithNextRun(Patched(j, sched, on), now) \in JobRecord
      BY <1>t, <2>3, WithNextRunType
    <3>2. [WithNextRun(Patched(j, sched, on), now) EXCEPT !.running = @ /\ on] \in JobRecord
      BY <3>1 DEF JobRecord
    <3>3. jobs' \in Store
      BY <2>5, <3>2 DEF Update
    <3>4. disk' \in Store /\ timer' \in [Service -> Nat] /\ slot' \in [Job -> Slot]
      BY <2>5, <1>t, <3>3, SaveAndArmType, RescheduledFacts DEF Update
    <3> QED
      BY <2>5, <3>3, <3>4, LockType DEF Update
  <2>6. CASE UpdateRejected(s, j, sched, on)
    <3>1. jobs' \in Store
      BY <2>3, <2>6 DEF UpdateRejected
    <3> QED
      BY <2>6, <3>1, LockType, RescheduledFacts DEF UpdateRejected, serviceVars
  <2> QED
    BY <1>8, <2>5, <2>6
<1>9. ASSUME NEW s \in Service, NEW j \in Job, Remove(s, j) PROVE TypeOK'
  <2>1. jobs' \in Store
    BY <1>9 DEF Remove
  <2>2. disk' \in Store /\ timer' \in [Service -> Nat] /\ slot' \in [Job -> Slot]
    BY <1>9, <1>t, <2>1, SaveAndArmType DEF Remove
  <2> QED
    BY <1>9, <2>1, <2>2, LockType DEF Remove
<1>10. ASSUME NEW s \in Service, NEW j \in Job, NEW forced \in BOOLEAN, BeginRun(s, j, forced)
       PROVE  TypeOK'
  <2>1. op' \in [kind : {"run", "force"}, service : Service, due : SUBSET Job, job : {{}}, start : Nat]
    BY <1>10 DEF BeginRun, RunOp
  <2> QED
    BY <1>10, <2>1, LockType DEF BeginRun, jobVars, serviceVars
<1>b. op # NoOp =>
        op \in [kind : {"tick", "run", "force"}, service : Service, due : SUBSET Job,
                job : {{}} \cup {{j} : j \in Job}, start : Nat]
  OBVIOUS
<1>11. ASSUME NEW j \in Job, StartJob(j) PROVE TypeOK'
  <2>1. op' \in [kind : {"tick", "run", "force"}, service : Service, due : SUBSET Job,
                 job : {{}} \cup {{k} : k \in Job}, start : Nat]
    BY <1>11, <1>t, <1>b DEF StartJob
  <2>2. jobs' \in Store
    <3>1. CASE jobs[j] \in JobRecord
      BY <1>11, <3>1 DEF StartJob, JobRecord
    <3>2. CASE jobs[j] = Absent
      <4>1. [jobs[j] EXCEPT !.running = TRUE] = Absent
        BY <3>2 DEF Absent
      <4> QED
        BY <1>11, <4>1 DEF StartJob
    <3> QED
      BY <3>1, <3>2
  <2> QED
    BY <1>11, <2>1, <2>2 DEF StartJob, serviceVars
<1>12. ASSUME NEW j \in Job, op # NoOp, op.job = {j}
       PROVE  jobs[j] \in JobRecord
  <2>1. j \in Present
    BY <1>12 DEF OpInv
  <2> QED
    BY <2>1, RecordFacts DEF Present
<1>13. ASSUME NEW j \in Job, NEW status \in Status \cup {"none"}, op # NoOp, op.job = {j}
       PROVE  Ended(j, status) \in JobRecord
  <2>1. op.start \in Nat /\ jobs[j] \in JobRecord
    BY <1>13, <1>b, <1>12
  <2> QED
    BY <2>1 DEF Ended, JobRecord, Status
<1>14. ASSUME NEW n \in 0..MaxErrors, NEW status \in Status
       PROVE  ErrorsAfter(n, status) \in 0..MaxErrors /\ OneMore(n) \in 0..MaxErrors
  <2>1. OneMore(n) \in 0..MaxErrors
    BY BackoffAssumption DEF OneMore, EarlierOf
  <2> QED
    BY <2>1, BackoffAssumption DEF ErrorsAfter, Status
<1>15. ASSUME NEW j \in Job, NEW status \in Status, FinishJob(j, status) PROVE TypeOK'
  <2>1. op # NoOp /\ op.job = {j} /\ jobs[j] \in JobRecord /\ Ended(j, status) \in JobRecord
    BY <1>12, <1>13, <1>15 DEF FinishJob
  <2>2. WithNextRun(Ended(j, status), now) \in JobRecord
    BY <1>t, <2>1, WithNextRunType
  <2>3. [Ended(j, status) EXCEPT !.enabled = FALSE, !.next = Never] \in JobRecord
    BY <2>1 DEF JobRecord, Never
  <2>4. AfterRun(j, status) \in JobRecord \cup {Absent}
    BY <2>2, <2>3 DEF AfterRun
  <2>5. jobs' \in Store
    BY <1>15, <2>4 DEF FinishJob
  <2>6. errors' \in [Job -> 0..MaxErrors]
    BY <1>14, <1>15 DEF FinishJob
  <2>7. slot' \in [Job -> Slot]
    <3>1. jobs[j].next \in Nat
      BY <2>1 DEF JobRecord
    <3>2. [slot[j] EXCEPT !.served = jobs[j].next, !.lost = FALSE] \in Slot
      <4> HIDE DEF TypeOK, Store
      <4>1. slot[j] \in Slot
        BY DEF TypeOK
      <4> QED
        BY <3>1, <4>1 DEF Slot
    <3>3. \/ slot' = slot
          \/ slot' = [slot EXCEPT ![j] = [slot[j] EXCEPT !.served = jobs[j].next, !.lost = FALSE]]
      BY <1>15 DEF FinishJob
    <3> QED
      BY <3>2, <3>3
  <2>8. op' \in [kind : {"tick", "run", "force"}, service : Service, due : SUBSET Job,
                 job : {{}} \cup {{k} : k \in Job}, start : Nat]
    BY <1>15, <1>b DEF FinishJob
  <2> QED
    BY <1>15, <2>5, <2>6, <2>7, <2>8 DEF FinishJob, serviceVars
<1>16. ASSUME NEW j \in Job, NEW status \in Status, FinishThrows(j, status) PROVE TypeOK'
  <2>1. op # NoOp /\ op.job = {j}
    BY <1>16 DEF FinishThrows
  <2>2. Ended(j, "error") \in JobRecord
    BY <1>13, <2>1 DEF Status
  <2>3. jobs' \in Store
    BY <1>16, <2>2 DEF FinishThrows
  <2>4. errors' \in [Job -> 0..MaxErrors]
    BY <1>14, <1>16 DEF FinishThrows
  <2>5. running' \in [Service -> BOOLEAN]
    BY <1>16, <1>b DEF FinishThrows
  <2> QED
    BY <1>16, <2>3, <2>4, <2>5 DEF FinishThrows
<1>17. CASE EndOp
  <2>1. op.service \in Service
    BY <1>17, <1>b DEF EndOp
  <2>2. disk' \in Store /\ timer' \in [Service -> Nat] /\ slot' \in [Job -> Slot]
    BY <1>17, <1>t, <2>1, SaveAndArmType DEF EndOp
  <2>3. running' \in [Service -> BOOLEAN]
    BY <1>17, <2>1 DEF EndOp
  <2> QED
    BY <1>17, <2>2, <2>3 DEF EndOp
<1>18. ASSUME NEW on \in BOOLEAN, Reload(on) PROVE TypeOK'
  <2>1. chain' \in Seq(Service \X {"start", "tick", "call"})
    BY <1>18 DEF Reload, Service
  <2> QED
    BY <1>18, <2>1 DEF Reload, jobVars, Service, Never
<1>19. CASE Crash
  <2>1. chain' \in Seq(Service \X {"start", "tick", "call"})
    BY <1>19 DEF Crash, Service
  <2>2. /\ calls' \in 0..MaxCalls
        /\ errors' \in [Job -> 0..MaxErrors] /\ slot' \in [Job -> Slot]
        /\ timer' \in [Service -> Nat]
    BY <1>19, CallsAssumption, BackoffAssumption, LostFacts DEF Crash, Never
  <2> QED
    BY <1>19, <2>1, <2>2 DEF Crash, Service
<1> HIDE DEF TypeOK, Store
<1>20. ASSUME NEW s \in Service, LockedStep(s) PROVE TypeOK'
  BY <1>4, <1>5, <1>6, <1>7, <1>8, <1>9, <1>10, <1>20, Zenon DEF LockedStep
<1>21. CASE JobStep
  BY <1>11, <1>15, <1>16, <1>17, <1>21 DEF JobStep
<1>22. CASE Next
  BY <1>1, <1>2, <1>3, <1>18, <1>19, <1>20, <1>21, <1>22 DEF Next
<1> QED
  BY <1>0, <1>22

-----------------------------------------------------------------------------
(***************************************************************************)
(* The lock.                                                               *)
(***************************************************************************)
NoneMarked(js) == \A j \in Job : js[j].present => ~js[j].running

LEMMA FieldFacts ==
  ASSUME NEW r \in JobRecord, NEW t
  PROVE  /\ WithNextRun(r, t).running = r.running
         /\ WithNextRun(r, t).present
BY DEF WithNextRun, JobRecord

\* Between operations nothing is marked, in memory or in the file.
LEMMA IdleUnmarked ==
  ASSUME MarkedJobsRun
  PROVE  NoneMarked(disk) /\ (op = NoOp => NoneMarked(jobs))
BY DEF MarkedJobsRun, NoneMarked, Present

LEMMA UnmarkedStep ==
  ASSUME MarkedJobsRun, NoneMarked(jobs'), disk' = disk \/ disk' = jobs'
  PROVE  MarkedJobsRun'
BY DEF MarkedJobsRun, NoneMarked, Present

LEMMA SavedOrNot ==
  ASSUME NEW s, NEW sl, SaveAndArm(s, jobs', sl)
  PROVE  disk' = disk \/ disk' = jobs'
BY DEF SaveAndArm

LEMMA InitLocked == Init => OpInv /\ MarkedJobsRun
<1> SUFFICES ASSUME Init PROVE OpInv /\ MarkedJobsRun
  OBVIOUS
<1>1. Absent.present = FALSE
  BY DEF Absent
<1> QED
  BY <1>1 DEF Init, OpInv, MarkedJobsRun, Present

LEMMA StepMarked == TypeOK /\ OpInv /\ MarkedJobsRun /\ [Next]_vars => MarkedJobsRun'
<1> SUFFICES ASSUME TypeOK, OpInv, MarkedJobsRun, [Next]_vars PROVE MarkedJobsRun'
  OBVIOUS
<1>t. /\ now \in Nat
      /\ \A j \in Present : jobs[j] \in JobRecord
      /\ jobs \in Store
  BY RecordFacts, ClockAssumption DEF TypeOK, Present, Store
<1>a. Absent.present = FALSE
  BY DEF Absent
<1>b. NoneMarked(disk) /\ (op = NoOp => NoneMarked(jobs))
  BY IdleUnmarked
<1>0. CASE UNCHANGED vars
  BY <1>0 DEF vars, jobVars, serviceVars, MarkedJobsRun, Present
<1>1. CASE PassTime \/ Call
  BY <1>1 DEF PassTime, Call, jobVars, MarkedJobsRun, Present
<1>2. ASSUME NEW s \in Service, Fire(s) PROVE MarkedJobsRun'
  BY <1>2 DEF Fire, jobVars, MarkedJobsRun, Present
<1>3. ASSUME NEW s \in Service, StartService(s) \/ StartFails(s) PROVE MarkedJobsRun'
  <2>1. op = NoOp
    BY <1>3 DEF StartService, StartFails, Lock
  <2>2. ASSUME NEW some \in SUBSET Present PROVE NoneMarked(Recomputed(some))
    <3>1. ASSUME NEW j \in Present
          PROVE  ~[WithNextRun(jobs[j], now) EXCEPT !.running = @ /\ jobs[j].enabled].running
      <4>1. ~jobs[j].running
        BY <1>b, <2>1 DEF NoneMarked, Present
      <4>2. WithNextRun(jobs[j], now) \in JobRecord
        BY <1>t, WithNextRunType
      <4>3. ~WithNextRun(jobs[j], now).running
        BY <1>t, <4>1, FieldFacts
      <4> QED
        BY <4>2, <4>3 DEF JobRecord
    <3> QED
      BY <1>b, <2>1, <3>1 DEF NoneMarked, Recomputed
  <2>3. NoneMarked(jobs')
    BY <1>3, <1>b, <2>1, <2>2 DEF StartService, StartFails
  <2>4. disk' = disk \/ disk' = jobs'
    BY <1>3, SavedOrNot DEF StartService, StartFails
  <2> QED
    BY <2>3, <2>4, UnmarkedStep
<1>4. ASSUME NEW s \in Service, BeginTick(s) \/ Look(s) PROVE MarkedJobsRun'
  BY <1>4, <1>b, UnmarkedStep DEF BeginTick, Look, Lock, jobVars
<1>5. ASSUME NEW s \in Service, NEW j \in Job, NEW forced \in BOOLEAN, BeginRun(s, j, forced)
      PROVE  MarkedJobsRun'
  BY <1>5, <1>b, UnmarkedStep DEF BeginRun, Lock, jobVars
<1>6. ASSUME NEW s \in Service, NEW j \in Job, NEW sched \in Schedule,
             NEW on \in BOOLEAN, NEW delete \in BOOLEAN,
             Add(s, j, NewJob(sched, on, delete))
      PROVE  MarkedJobsRun'
  <2>1. NewJob(sched, on, delete) \in JobRecord /\ ~NewJob(sched, on, delete).running
    BY DEF NewJob, JobRecord, Never
  <2>2. ~WithNextRun(NewJob(sched, on, delete), now).running
    BY <2>1, FieldFacts
  <2>3. NoneMarked(jobs')
    BY <1>6, <1>b, <1>t, <2>2 DEF Add, Lock, NoneMarked, Store
  <2> QED
    BY <1>6, <2>3, SavedOrNot, UnmarkedStep DEF Add
<1>7. ASSUME NEW s \in Service, NEW j \in Job, NEW sched \in Schedule, NEW on \in BOOLEAN,
             j \in Present, op = NoOp
      PROVE  /\ Patched(j, sched, on) \in JobRecord
             /\ ~Patched(j, sched, on).running
  BY <1>7, <1>b, <1>t DEF Patched, JobRecord, NoneMarked, Present
<1>8. ASSUME NEW s \in Service, NEW j \in Job, NEW sched \in Schedule, NEW on \in BOOLEAN,
             Update(s, j, sched, on)
      PROVE  MarkedJobsRun'
  <2>1. op = NoOp /\ j \in Present
    BY <1>8 DEF Update, Lock
  <2>2. ~WithNextRun(Patched(j, sched, on), now).running
    BY <1>7, <2>1, FieldFacts
  <2>3. WithNextRun(Patched(j, sched, on), now) \in JobRecord
    BY <1>7, <1>t, <2>1, WithNextRunType
  <2>4. ~[WithNextRun(Patched(j, sched, on), now) EXCEPT !.running = @ /\ on].running
    BY <2>2, <2>3 DEF JobRecord
  <2>5. NoneMarked(jobs')
    BY <1>8, <1>b, <1>t, <2>1, <2>4 DEF Update, NoneMarked, Store
  <2> QED
    BY <1>8, <2>5, SavedOrNot, UnmarkedStep DEF Update
<1>9. ASSUME NEW s \in Service, NEW j \in Job, NEW sched \in Schedule, NEW on \in BOOLEAN,
             UpdateRejected(s, j, sched, on)
      PROVE  MarkedJobsRun'
  <2>1. op = NoOp /\ j \in Present
    BY <1>9 DEF UpdateRejected, Lock
  <2>2. NoneMarked(jobs')
    BY <1>7, <1>9, <1>b, <1>t, <2>1 DEF UpdateRejected, NoneMarked, Store
  <2> QED
    BY <1>9, <2>2, UnmarkedStep DEF UpdateRejected
<1>10. ASSUME NEW s \in Service, NEW j \in Job, Remove(s, j) PROVE MarkedJobsRun'
  <2>1. NoneMarked(jobs')
    BY <1>10, <1>a, <1>b, <1>t DEF Remove, Lock, NoneMarked, Store
  <2> QED
    BY <1>10, <2>1, SavedOrNot, UnmarkedStep DEF Remove
<1>11. ASSUME NEW j \in Job, StartJob(j) PROVE MarkedJobsRun'
  <2>1. op # NoOp /\ op.job = {} /\ op \in [kind : {"tick", "run", "force"}, service : Service,
           due : SUBSET Job, job : {{}} \cup {{k} : k \in Job}, start : Nat]
    BY <1>11 DEF StartJob, TypeOK
  <2>2. op' # NoOp /\ op'.job = {j}
    <3>1. op'.job = {j} /\ op'.kind # "none"
      BY <1>11, <2>1 DEF StartJob
    <3>2. NoOp.kind = "none"
      BY DEF NoOp
    <3> QED
      BY <3>1, <3>2
  <2>3. \A k \in Present : ~jobs[k].running
    BY <2>1 DEF MarkedJobsRun, Present
  <2>4. \A k \in Job : k # j => jobs'[k] = jobs[k]
    BY <1>11, <1>t DEF StartJob, Store
  <2>5. \A k \in Job : (jobs'[k].present /\ jobs'[k].running) => k = j
    BY <2>3, <2>4 DEF Present
  <2> QED
    BY <1>11, <2>2, <2>5 DEF StartJob, MarkedJobsRun, Present
<1>12. ASSUME NEW j \in Job, op.job = {j}, op # NoOp,
              \A k \in Job : k # j => jobs'[k] = jobs[k],
              jobs'[j] = Absent \/ ~jobs'[j].running
       PROVE  NoneMarked(jobs')
  <2>1. \A k \in Present : k # j => ~jobs[k].running
    BY <1>12 DEF MarkedJobsRun, Present
  <2> QED
    BY <1>12, <1>a, <2>1 DEF NoneMarked, Present
<1>13. ASSUME NEW j \in Job, NEW status \in Status, op.job = {j}, op # NoOp
       PROVE  Ended(j, status) \in JobRecord /\ ~Ended(j, status).running
  <2>1. jobs[j] \in JobRecord
    BY <1>13, <1>t DEF OpInv
  <2>2. op.start \in Nat
    BY <1>13 DEF TypeOK
  <2> QED
    BY <2>1, <2>2 DEF Ended, JobRecord, Status
<1>14. ASSUME NEW j \in Job, NEW status \in Status, FinishJob(j, status) PROVE MarkedJobsRun'
  <2>1. op.job = {j} /\ op # NoOp
    BY <1>14 DEF FinishJob
  <2>2. Ended(j, status) \in JobRecord /\ ~Ended(j, status).running
    BY <1>13, <2>1
  <2>3. ~WithNextRun(Ended(j, status), now).running
    BY <2>2, FieldFacts
  <2>4. ~[Ended(j, status) EXCEPT !.enabled = FALSE, !.next = Never].running
    BY <2>2 DEF JobRecord
  <2>5. AfterRun(j, status) = Absent \/ ~AfterRun(j, status).running
    BY <2>3, <2>4 DEF AfterRun
  <2>6. NoneMarked(jobs')
    BY <1>12, <1>14, <1>t, <2>1, <2>5 DEF FinishJob, Store
  <2> QED
    BY <1>14, <2>6, UnmarkedStep DEF FinishJob
<1>15. ASSUME NEW j \in Job, NEW status \in Status, FinishThrows(j, status) PROVE MarkedJobsRun'
  <2>1. op.job = {j} /\ op # NoOp
    BY <1>15 DEF FinishThrows
  <2>2. ~Ended(j, "error").running
    BY <1>13, <2>1 DEF Status
  <2>3. NoneMarked(jobs')
    BY <1>12, <1>15, <1>t, <2>1, <2>2 DEF FinishThrows, Store
  <2> QED
    BY <1>15, <2>3, UnmarkedStep DEF FinishThrows
<1>16. CASE EndOp
  <2>1. NoneMarked(jobs)
    BY <1>16 DEF EndOp, MarkedJobsRun, NoneMarked, Present
  <2>2. SaveAndArm(op.service, jobs', slot) /\ NoneMarked(jobs')
    BY <1>16, <2>1 DEF EndOp
  <2> QED
    BY <2>2, SavedOrNot, UnmarkedStep
<1>17. ASSUME NEW on \in BOOLEAN, Reload(on) PROVE MarkedJobsRun'
  BY <1>17 DEF Reload, jobVars, MarkedJobsRun, Present
<1>18. CASE Crash
  BY <1>18, <1>b, UnmarkedStep DEF Crash
<1>19. ASSUME NEW s \in Service, LockedStep(s) PROVE MarkedJobsRun'
  BY <1>3, <1>4, <1>5, <1>6, <1>8, <1>9, <1>10, <1>19, Zenon DEF LockedStep
<1>20. CASE JobStep
  BY <1>11, <1>14, <1>15, <1>16, <1>20 DEF JobStep
<1>21. CASE Next
  BY <1>1, <1>2, <1>17, <1>18, <1>19, <1>20, <1>21 DEF Next
<1> QED
  BY <1>0, <1>21

LEMMA StepOp == TypeOK /\ OpInv /\ [Next]_vars => OpInv'
<1> SUFFICES ASSUME TypeOK, OpInv, [Next]_vars PROVE OpInv'
  OBVIOUS
<1>t. now \in Nat /\ jobs \in Store /\ \A j \in Present : jobs[j] \in JobRecord
  BY RecordFacts, ClockAssumption DEF TypeOK, Present, Store
<1>b. op # NoOp =>
        op \in [kind : {"tick", "run", "force"}, service : Service, due : SUBSET Job,
                job : {{}} \cup {{j} : j \in Job}, start : Nat]
  BY DEF TypeOK
<1>n. NoOp.kind = "none"
  BY DEF NoOp
<1>0. CASE op' = NoOp
  BY <1>0 DEF OpInv
<1>1. CASE op' = op /\ jobs' = jobs /\ now' = now
  BY <1>1 DEF OpInv, Present, IsDue
<1>2. CASE PassTime
  <2>1. op' = op /\ jobs' = jobs /\ now' = now + 1
    BY <1>2 DEF PassTime, jobVars
  <2>2. \A j \in Job : IsDue(j) => IsDue(j)'
    <3> SUFFICES ASSUME NEW j \in Job, IsDue(j) PROVE IsDue(j)'
      OBVIOUS
    <3>1. jobs[j].next \in Nat /\ jobs[j].next <= now
      BY <1>t DEF IsDue, JobRecord
    <3>2. jobs[j].next <= now + 1
      BY <1>t, <3>1
    <3> QED
      BY <2>1, <3>2 DEF IsDue, Present
  <2>3. op # NoOp => op.due \cup op.job \subseteq Job
    BY DEF OpInv, Present
  <2> QED
    BY <2>1, <2>2, <2>3 DEF OpInv, Present
<1>3. ASSUME NEW s \in Service, BeginTick(s) PROVE OpInv'
  <2>1. op'.due \subseteq {j \in Job : IsDue(j)} /\ op'.job = {}
    BY <1>3 DEF BeginTick, TickOp, Ready
  <2> QED
    BY <1>3, <2>1 DEF BeginTick, OpInv, IsDue, Present, jobVars
<1>4. ASSUME NEW s \in Service, NEW j \in Job, NEW forced \in BOOLEAN, BeginRun(s, j, forced)
      PROVE  OpInv'
  <2>1. /\ op'.due = {j} /\ op'.job = {} /\ j \in Present
        /\ op'.kind # "force" => IsDue(j)
    BY <1>4 DEF BeginRun, RunOp
  <2> QED
    BY <1>4, <2>1 DEF BeginRun, OpInv, IsDue, Present, jobVars
<1>5. ASSUME NEW j \in Job, StartJob(j) PROVE OpInv'
  <2>1. /\ op # NoOp /\ op.job = {} /\ j \in op.due
        /\ op'.due = op.due \ {j} /\ op'.job = {j} /\ op'.kind = op.kind
        /\ op.due \subseteq Job
    BY <1>5, <1>b DEF StartJob
  <2>2. j \in Present /\ jobs[j] \in JobRecord
    BY <1>t, <2>1 DEF OpInv
  <2>3. \A k \in Job :
          /\ jobs'[k].present = jobs[k].present
          /\ jobs'[k].enabled = jobs[k].enabled
          /\ jobs'[k].next = jobs[k].next
    <3>1. jobs'[j] = [jobs[j] EXCEPT !.running = TRUE] /\ \A k \in Job : k # j => jobs'[k] = jobs[k]
      BY <1>5, <1>t DEF StartJob, Store
    <3>2. /\ jobs'[j].present = jobs[j].present
          /\ jobs'[j].enabled = jobs[j].enabled
          /\ jobs'[j].next = jobs[j].next
      BY <2>2, <3>1 DEF JobRecord
    <3> QED
      BY <3>1, <3>2
  <2>4. \A k \in Job : (k \in Present => (k \in Present)') /\ (IsDue(k) => IsDue(k)')
    BY <1>5, <2>3 DEF StartJob, IsDue, Present
  <2> QED
    BY <2>1, <2>4 DEF OpInv
<1>6. ASSUME NEW j \in Job, NEW status \in Status, FinishJob(j, status) PROVE OpInv'
  <2>1. /\ op # NoOp /\ op.job = {j} /\ op.due \subseteq Job
        /\ op'.due = op.due /\ op'.job = {} /\ op'.kind = op.kind
    BY <1>6, <1>b DEF FinishJob
  <2>2. \A k \in op.due : jobs'[k] = jobs[k]
    BY <1>6, <1>t, <2>1 DEF FinishJob, Store, OpInv
  <2>3. \A k \in op.due : (k \in Present => (k \in Present)') /\ (IsDue(k) => IsDue(k)')
    BY <1>6, <2>1, <2>2 DEF FinishJob, IsDue, Present
  <2> QED
    BY <2>1, <2>3 DEF OpInv
<1>7. ASSUME NEW s \in Service, LockedStep(s) PROVE OpInv'
  <2>1. CASE op' = op
    <3>1. op = NoOp \/ op' # op
      BY <1>7 DEF LockedStep, Lock, StartService, StartFails, BeginTick, Look, Add, Update, UpdateRejected,
                  Remove, BeginRun
    <3> QED
      BY <1>0, <2>1, <3>1
  <2>2. CASE op' # op
    BY <1>3, <1>4, <1>7, <2>2
       DEF LockedStep, StartService, StartFails, Look, Add, Update, UpdateRejected, Remove
  <2> QED
    BY <2>1, <2>2
<1>8. CASE JobStep
  <2>1. ASSUME NEW j \in Job, NEW status \in Status, FinishThrows(j, status) PROVE op' = NoOp
    BY <2>1 DEF FinishThrows
  <2>2. CASE EndOp
    BY <1>0, <2>2 DEF EndOp
  <2> QED
    BY <1>0, <1>5, <1>6, <1>8, <2>1, <2>2 DEF JobStep
<1>9. ASSUME NEW s \in Service, Fire(s) PROVE OpInv'
  BY <1>1, <1>9 DEF Fire, jobVars
<1>10. CASE Call
  BY <1>1, <1>10 DEF Call, jobVars
<1>11. ASSUME NEW on \in BOOLEAN, Reload(on) PROVE OpInv'
  BY <1>1, <1>11 DEF Reload, jobVars
<1>12. CASE Crash
  BY <1>0, <1>12 DEF Crash
<1>13. CASE UNCHANGED vars
  BY <1>1, <1>13 DEF vars, jobVars
<1>14. CASE Next
  BY <1>2, <1>7, <1>8, <1>9, <1>10, <1>11, <1>12, <1>14 DEF Next
<1> QED
  BY <1>13, <1>14

-----------------------------------------------------------------------------
\* The inductive invariant of the lock.
IInv == TypeOK /\ OpInv /\ MarkedJobsRun

LEMMA Inductive == Spec => []IInv
<1>1. Init => IInv
  BY InitTyped, InitLocked DEF IInv
<1>2. IInv /\ [Next]_vars => IInv'
  BY StepTyped, StepMarked, StepOp DEF IInv
<1> QED
  BY <1>1, <1>2, PTL DEF Spec

\* The types of the state of CronService.
THEOREM TypesKept == Spec => []TypeOK
BY Inductive, PTL DEF IInv

\* timer.ts and locked.ts: a running marker belongs to the operation that runs
\* the job, and is never saved, whatever is rejected, fails or crashes.
THEOREM MarkersKept == Spec => []MarkedJobsRun
BY Inductive, PTL DEF IInv

\* locked.ts: what was due when a tick began stays due until it is run.
THEOREM DueKept == Spec => []DueJobsStay
<1>1. IInv => DueJobsStay
  <2> SUFFICES ASSUME OpInv, MarkedJobsRun, op # NoOp, op.kind = "tick",
                      NEW j \in op.due \cup op.job
               PROVE  IsDue(j) /\ (j \in op.due => ~jobs[j].running)
    BY DEF IInv, DueJobsStay
  <2>1. IsDue(j) /\ j \in Present /\ j \in Job
    BY DEF OpInv, Present
  <2>2. op.due \cap op.job = {}
    BY DEF OpInv
  <2>3. jobs[j].running => op.job = {j}
    BY <2>1 DEF MarkedJobsRun
  <2> QED
    BY <2>1, <2>2, <2>3
<1> QED
  BY <1>1, Inductive, PTL
-----------------------------------------------------------------------------
(***************************************************************************)
(* What has been saved.  A save fails when the disk is full; a rejected    *)
(* patch and a schedule that cannot be evaluated end an operation before   *)
(* its save.                                                               *)
(***************************************************************************)
SavesSucceed ==
  /\ "disk" \notin Disturb /\ "reject" \notin Disturb
  /\ \A s \in Schedule : s.kind # "bad"

\* No job of the store makes computeJobNextRunAtMs throw.
LEMMA NothingThrows ==
  ASSUME SavesSucceed, TypeOK, NEW j \in Present
  PROVE  ~Throws(jobs[j])
<1>1. jobs[j] \in JobRecord
  BY RecordFacts DEF Present, TypeOK
<1> QED
  BY <1>1 DEF JobRecord, SavesSucceed, Throws

\* An operation under way is told from none by its kind.
LEMMA OpTyped ==
  ASSUME TypeOK, op # NoOp
  PROVE  op \in [kind : {"tick", "run", "force"}, service : Service, due : SUBSET Job,
                 job : {{}} \cup {{k} : k \in Job}, start : Nat]
BY DEF TypeOK

\* A job that starts or ends leaves the operation under way.
LEMMA OpGoesOn ==
  ASSUME TypeOK, op # NoOp, NEW j,
         StartJob(j) \/ \E status \in Status : FinishJob(j, status)
  PROVE  op' # NoOp /\ op'.kind = op.kind /\ op'.service = op.service
<1>1. op'.kind = op.kind /\ op'.service = op.service
  BY OpTyped DEF StartJob, FinishJob
<1>2. op.kind # "none"
  BY OpTyped
<1> QED
  BY <1>1, <1>2 DEF NoOp

LEMMA StepSaved == SavesSucceed /\ IInv /\ AnsweredIsSaved /\ [Next]_vars => AnsweredIsSaved'
<1> SUFFICES ASSUME SavesSucceed, TypeOK, OpInv, AnsweredIsSaved, [Next]_vars
             PROVE  AnsweredIsSaved'
  BY DEF IInv
<1>1. CASE op' = op /\ jobs' = jobs /\ disk' = disk
  BY <1>1 DEF AnsweredIsSaved
<1>2. CASE disk' = jobs'
  BY <1>2 DEF AnsweredIsSaved
<1>3. CASE UNCHANGED vars \/ PassTime \/ Call
  BY <1>1, <1>3 DEF vars, PassTime, Call, jobVars
<1>4. ASSUME NEW s \in Service, Fire(s) PROVE AnsweredIsSaved'
  BY <1>1, <1>4 DEF Fire, jobVars
<1>5. ASSUME NEW s \in Service, LockedStep(s) PROVE AnsweredIsSaved'
  <2>1. op = NoOp
    BY <1>5 DEF LockedStep, Lock, StartService, StartFails, BeginTick, Look, Add, Update,
                UpdateRejected, Remove, BeginRun
  <2>2. disk = jobs
    BY <2>1 DEF AnsweredIsSaved
  <2>3. ~StartFails(s)
    BY NothingThrows DEF StartFails
  <2>4. \A j \in Job, sched \in Schedule, on \in BOOLEAN : ~UpdateRejected(s, j, sched, on)
    BY DEF UpdateRejected, SavesSucceed
  <2>5. ASSUME NEW js, NEW sl, SaveAndArm(s, js, sl) PROVE disk' = js
    BY <2>5 DEF SaveAndArm, SavesSucceed
  <2>6. CASE StartService(s)
    BY <2>2, <2>5, <2>6, <1>2 DEF StartService
  <2>7. CASE BeginTick(s) \/ Look(s)
    BY <2>2, <2>7, <1>2 DEF BeginTick, Look, jobVars
  <2>8. ASSUME NEW j \in Job, NEW forced \in BOOLEAN, BeginRun(s, j, forced)
        PROVE  AnsweredIsSaved'
    BY <2>2, <2>8, <1>2 DEF BeginRun, jobVars
  <2>9. ASSUME NEW j \in Job, NEW sched \in Schedule, NEW on \in BOOLEAN, NEW delete \in BOOLEAN,
               Add(s, j, NewJob(sched, on, delete))
        PROVE  AnsweredIsSaved'
    BY <1>2, <2>5, <2>9 DEF Add
  <2>10. ASSUME NEW j \in Job, NEW sched \in Schedule, NEW on \in BOOLEAN,
                Update(s, j, sched, on) \/ UpdateRejected(s, j, sched, on)
         PROVE  AnsweredIsSaved'
    BY <1>2, <2>4, <2>5, <2>10 DEF Update
  <2>11. ASSUME NEW j \in Job, Remove(s, j) PROVE AnsweredIsSaved'
    BY <1>2, <2>5, <2>11 DEF Remove
  <2> QED
    BY <1>5, <2>3, <2>6, <2>7, <2>8, <2>9, <2>10, <2>11, Zenon DEF LockedStep
<1>6. ASSUME NEW j \in Job, StartJob(j) \/ \E status \in Status : FinishJob(j, status)
      PROVE  AnsweredIsSaved'
  <2>1. op # NoOp
    BY <1>6 DEF StartJob, FinishJob
  <2> QED
    BY <1>6, <2>1, OpGoesOn DEF AnsweredIsSaved
<1>7. ASSUME NEW j \in Job, NEW status \in Status PROVE ~FinishThrows(j, status)
  <2>1. FinishThrows(j, status) => j \in Present
    BY DEF FinishThrows, OpInv
  <2> QED
    BY <2>1, NothingThrows DEF FinishThrows
<1>8. CASE EndOp
  BY <1>2, <1>8 DEF EndOp, SaveAndArm, SavesSucceed
<1>9. CASE JobStep
  BY <1>6, <1>7, <1>8, <1>9 DEF JobStep
<1>10. ASSUME NEW on \in BOOLEAN, Reload(on) PROVE AnsweredIsSaved'
  BY <1>1, <1>10 DEF Reload, jobVars
<1>11. CASE Crash
  BY <1>2, <1>11 DEF Crash
<1> QED
  BY <1>3, <1>4, <1>5, <1>9, <1>10, <1>11 DEF Next

\* store.ts, timer.ts: as long as saves succeed, whatever is answered is saved,
\* through ticks, failing jobs, reloads and crashes.
THEOREM SavedFirst == SavesSucceed /\ Spec => []AnsweredIsSaved
<1> SUFFICES ASSUME SavesSucceed PROVE Spec => []AnsweredIsSaved
  OBVIOUS
<1>1. Init => AnsweredIsSaved
  BY DEF Init, AnsweredIsSaved
<1>2. IInv /\ AnsweredIsSaved /\ [Next]_vars => AnsweredIsSaved'
  BY StepSaved
<1> QED
  BY <1>1, <1>2, Inductive, PTL DEF Spec
-----------------------------------------------------------------------------
(***************************************************************************)
(* Due times that have been served.                                        *)
(***************************************************************************)
\* The next run of a job, given the due time served and the clock: later than
\* that time, but for intervals with an anchor, whose grid may hold the instant
\* of the end of a run; and a one-shot job has none once it has run.
SlotOf(r, served, t) ==
  /\ served <= t
  /\ r.present /\ r.enabled =>
       /\ r.sched.kind = "at" => served = Never
       /\ r.next # Never =>
            served <= r.next /\ (~IsAnchored(r.sched) => served < r.next)

\* Memory goes by what has been served, the file by what had been when it was saved.
Served(js, sl) == \A j \in Job : SlotOf(js[j], ServedBy(sl[j]), now)
SlotInv ==
  /\ Served(jobs, slot)
  /\ \A j \in Job : SlotOf(disk[j], slot[j].saved, now)

\* Where nothing has been served any next run will do.
LEMMA NothingServed ==
  ASSUME NEW r \in JobRecord \cup {Absent}, NEW t \in Nat
  PROVE  SlotOf(r, Never, t)
<1>1. r.present => r.next \in Nat
  BY RecordFacts DEF JobRecord
<1> QED
  BY <1>1 DEF SlotOf, Never

LEMMA NothingToRun ==
  ASSUME NEW r, NEW served, NEW t, served <= t, ~r.present \/ ~r.enabled
  PROVE  SlotOf(r, served, t)
BY DEF SlotOf

\* The parts of a record that its slot depends on.
LEMMA SameSlot ==
  ASSUME NEW r, NEW q, NEW served, NEW t, SlotOf(r, served, t),
         q.present = r.present, q.enabled = r.enabled, q.sched = r.sched, q.next = r.next
  PROVE  SlotOf(q, served, t)
BY DEF SlotOf

\* computeNextRunAtMs: strictly after now, but for an anchored interval.
LEMMA ComputedLater ==
  ASSUME NEW s, IsSchedule(s), NEW t \in Nat \ {0}
  PROVE  ComputeNextRun(s, t) >= t /\ (~IsAnchored(s) => ComputeNextRun(s, t) > t)
<1>1. s.every \in Nat \ {0} /\ s.at \in Nat
  BY DEF IsSchedule
<1>2. CASE s.kind = "every" /\ s.at = NoAnchor
  <2>1. NextEvery(s.every, t, t) = t + s.every
    BY <1>1, IntervalAdvances
  <2>2. ComputeNextRun(s, t) = t + s.every
    BY <1>2, <2>1 DEF ComputeNextRun
  <2> QED
    BY <1>1, <2>2
<1>3. CASE IsAnchored(s)
  <2>1. ComputeNextRun(s, t) = NextEvery(s.every, s.at, t)
    BY <1>3 DEF ComputeNextRun, IsAnchored
  <2>2. NextEvery(s.every, s.at, t) >= t
    BY <1>1, EveryOnGrid
  <2> QED
    BY <1>3, <2>1, <2>2
<1>4. CASE s.kind # "every"
  <2> DEFINE n == t \div s.every
  <2>1. n \in Nat /\ t < n * s.every + s.every
    BY <1>1, DivFacts
  <2>2. (n + 1) * s.every = n * s.every + s.every /\ n * s.every \in Nat
    BY <1>1, <2>1, ProductFacts
  <2>3. ComputeNextRun(s, t) = (n + 1) * s.every
    BY <1>4 DEF ComputeNextRun, NextMatch
  <2> HIDE DEF n
  <2> QED
    BY <1>1, <2>1, <2>2, <2>3
<1> QED
  BY <1>2, <1>3, <1>4 DEF IsAnchored

\* Recomputing the next run never yields what has been served.
LEMMA NextSlot ==
  ASSUME NEW r \in JobRecord, NEW served \in Nat, NEW t \in Nat \ {0}, served <= t,
         r.enabled /\ r.sched.kind = "at" => served = Never
  PROVE  SlotOf(WithNextRun(r, t), served, t)
<1> DEFINE w == WithNextRun(r, t)
<1>1. /\ w \in JobRecord /\ w.enabled = r.enabled /\ w.sched = r.sched
      /\ w.next = JobNextRun(r, t)
  <2>1. w \in JobRecord
    BY WithNextRunType
  <2> QED
    BY <2>1 DEF WithNextRun, JobRecord
<1>2. CASE ~r.enabled \/ r.sched.kind = "at"
  <2>1. ~r.enabled \/ served = Never
    BY <1>2
  <2> HIDE DEF w
  <2>2. SlotOf(w, served, t)
    BY <1>1, <2>1, NothingServed, NothingToRun
  <2> QED
    BY <2>2 DEF w
<1>3. CASE r.enabled /\ r.sched.kind # "at"
  <2>1. IsSchedule(r.sched)
    BY ScheduleAssumption DEF JobRecord
  <2>2. w.next = ComputeNextRun(r.sched, t)
    BY <1>1, <1>3 DEF JobNextRun
  <2>3. w.next \in Nat /\ w.next >= t /\ (~IsAnchored(r.sched) => w.next > t)
    BY <2>1, <2>2, ComputedNat, ComputedLater
  <2> HIDE DEF w
  <2>4. SlotOf(w, served, t)
    BY <1>1, <1>3, <2>3 DEF SlotOf
  <2> QED
    BY <2>4 DEF w
<1> QED
  BY <1>2, <1>3

\* A step that touches the job j only.
LEMMA OneSlot ==
  ASSUME SlotInv, NEW sl, NEW j \in Job, SlotOf(jobs'[j], ServedBy(sl[j]), now),
         \A k \in Job : k # j => jobs'[k] = jobs[k] /\ sl[k] = slot[k]
  PROVE  Served(jobs', sl)
BY DEF SlotInv, Served

\* Jobs and history change, then the store is saved, or not.
LEMMA SaveSlot ==
  ASSUME SlotInv, now' = now, NEW sl \in [Job -> Slot], Served(jobs', sl),
         \A k \in Job : sl[k].saved = slot[k].saved,
         \/ disk' = disk /\ slot' = sl
         \/ \E s : SaveAndArm(s, jobs', sl)
  PROVE  SlotInv'
<1>1. CASE disk' = disk /\ slot' = sl
  BY <1>1 DEF SlotInv, Served
<1>2. CASE disk' = jobs' /\ slot' = Saved(sl)
  <2>1. \A j \in Job : ServedBy(slot'[j]) = ServedBy(sl[j]) /\ slot'[j].saved = ServedBy(sl[j])
    BY <1>2, SlotTypes
  <2> QED
    BY <1>2, <2>1 DEF SlotInv, Served
<1> QED
  BY <1>1, <1>2 DEF SaveAndArm

LEMMA StepSlot == IInv /\ SlotInv /\ [Next]_vars => SlotInv'
<1> SUFFICES ASSUME TypeOK, OpInv, TypeOK', SlotInv, [Next]_vars PROVE SlotInv'
  BY StepTyped DEF IInv
<1>t. /\ now \in Nat \ {0} /\ jobs \in Store /\ slot \in [Job -> Slot] /\ disk \in Store
      /\ \A j \in Present : j \in Job /\ jobs[j] \in JobRecord
  BY RecordFacts, ClockAssumption DEF TypeOK, Present, Store
<1>n. \A j \in Job : slot[j].saved \in Nat /\ ServedBy(slot[j]) \in Nat
  BY <1>t, SlotTypes
<1>1. CASE now' = now /\ jobs' = jobs /\ slot' = slot /\ disk' = disk
  BY <1>1 DEF SlotInv, Served
<1>2. CASE PassTime
  <2>1. now' = now + 1 /\ jobs' = jobs /\ slot' = slot /\ disk' = disk
    BY <1>2 DEF PassTime, jobVars
  <2>2. \A j \in Job : ServedBy(slot[j]) <= now /\ slot[j].saved <= now
    BY DEF SlotInv, Served, SlotOf
  <2>3. \A j \in Job : ServedBy(slot[j]) <= now + 1 /\ slot[j].saved <= now + 1
    BY <1>t, <1>n, <2>2
  <2> QED
    BY <2>1, <2>3 DEF SlotInv, Served, SlotOf
<1>3. ASSUME NEW some \in SUBSET Present, jobs' = Recomputed(some) PROVE Served(jobs', slot)
  <2> SUFFICES ASSUME NEW j \in Job PROVE SlotOf(jobs'[j], ServedBy(slot[j]), now)
    BY DEF Served
  <2>1. CASE j \notin some
    BY <1>3, <2>1 DEF Recomputed, SlotInv, Served
  <2>2. CASE j \in some
    <3> DEFINE w == WithNextRun(jobs[j], now)
    <3>1. jobs[j] \in JobRecord /\ jobs[j].present /\ ServedBy(slot[j]) \in Nat
      BY <1>t, <1>n, <2>2 DEF Present
    <3>2. /\ ServedBy(slot[j]) <= now
          /\ jobs[j].enabled /\ jobs[j].sched.kind = "at" => ServedBy(slot[j]) = Never
      BY <3>1 DEF SlotInv, Served, SlotOf
    <3>3. SlotOf(w, ServedBy(slot[j]), now) /\ w \in JobRecord
      BY <1>t, <3>1, <3>2, NextSlot, WithNextRunType
    <3>4. jobs'[j] = [w EXCEPT !.running = @ /\ jobs[j].enabled]
      BY <1>3, <2>2 DEF Recomputed
    <3> HIDE DEF w
    <3>5. /\ jobs'[j].present = w.present /\ jobs'[j].enabled = w.enabled
          /\ jobs'[j].sched = w.sched /\ jobs'[j].next = w.next
      BY <3>3, <3>4 DEF JobRecord
    <3> QED
      BY <3>3, <3>5, SameSlot
  <2> QED
    BY <2>1, <2>2
<1>4. ASSUME NEW s \in Service, StartService(s) \/ StartFails(s) PROVE SlotInv'
  <2>1. /\ now' = now
        /\ \/ disk' = disk /\ slot' = slot
           \/ SaveAndArm(s, jobs', slot)
    BY <1>4 DEF StartService, StartFails
  <2>2. \/ jobs' = jobs
        \/ \E some \in SUBSET Present : jobs' = Recomputed(some)
    <3>1. CASE StartService(s)
      BY <3>1 DEF StartService
    <3>2. CASE StartFails(s)
      <4>1. PICK some \in SUBSET {j \in Present : ~Throws(jobs[j])} : jobs' = Recomputed(some)
        BY <3>2 DEF StartFails
      <4> QED
        BY <4>1
    <3> QED
      BY <1>4, <3>1, <3>2
  <2>3. Served(jobs', slot)
    BY <1>3, <2>2 DEF SlotInv, Served
  <2> QED
    BY <1>t, <2>1, <2>3, SaveSlot
<1>5. ASSUME NEW s \in Service, BeginTick(s) \/ Look(s) PROVE SlotInv'
  BY <1>1, <1>5 DEF BeginTick, Look, jobVars
<1>6. ASSUME NEW s \in Service, NEW j \in Job, NEW forced \in BOOLEAN, BeginRun(s, j, forced)
      PROVE  SlotInv'
  BY <1>1, <1>6 DEF BeginRun, jobVars
<1>7. ASSUME NEW j \in Job, NEW r, now' = now,
             jobs' = [jobs EXCEPT ![j] = r],
             \/ disk' = disk /\ slot' = Rescheduled(j)
             \/ \E s : SaveAndArm(s, jobs', Rescheduled(j))
      PROVE  SlotInv'
  <2> DEFINE sl == Rescheduled(j)
  <2>1. SlotOf(jobs'[j], Never, now)
    BY <1>t, NothingServed DEF TypeOK, Store
  <2>2. /\ sl \in [Job -> Slot] /\ ServedBy(sl[j]) = Never
        /\ \A k \in Job : sl[k].saved = slot[k].saved
        /\ \A k \in Job : k # j => jobs'[k] = jobs[k] /\ sl[k] = slot[k]
    BY <1>7, <1>t, RescheduledFacts DEF Store
  <2> HIDE DEF sl
  <2>3. Served(jobs', sl)
    BY <2>1, <2>2, OneSlot
  <2> QED
    BY <1>7, <2>2, <2>3, SaveSlot DEF sl
<1>8. ASSUME NEW s \in Service, NEW j \in Job, NEW sched \in Schedule,
             NEW on \in BOOLEAN, NEW delete \in BOOLEAN,
             Add(s, j, NewJob(sched, on, delete))
      PROVE  SlotInv'
  BY <1>7, <1>8 DEF Add
<1>9. ASSUME NEW s \in Service, NEW j \in Job, NEW sched \in Schedule,
             NEW on \in BOOLEAN, Update(s, j, sched, on) \/ UpdateRejected(s, j, sched, on)
      PROVE  SlotInv'
  BY <1>7, <1>9 DEF Update, UpdateRejected
<1>10. ASSUME NEW s \in Service, NEW j \in Job, Remove(s, j) PROVE SlotInv'
  <2>1. /\ jobs'[j] = Absent /\ SaveAndArm(s, jobs', slot) /\ now' = now
        /\ \A k \in Job : k # j => jobs'[k] = jobs[k]
    BY <1>10, <1>t DEF Remove, Store
  <2>2. ServedBy(slot[j]) <= now
    BY DEF SlotInv, Served, SlotOf
  <2>3. SlotOf(jobs'[j], ServedBy(slot[j]), now)
    BY <2>1, <2>2, NothingToRun DEF Absent
  <2> QED
    BY <1>t, <2>1, <2>3, OneSlot, SaveSlot
<1>11. ASSUME NEW j \in Job, StartJob(j) PROVE SlotInv'
  <2>1. /\ jobs[j] \in JobRecord /\ slot' = slot /\ now' = now /\ disk' = disk
        /\ jobs'[j] = [jobs[j] EXCEPT !.running = TRUE]
        /\ \A k \in Job : k # j => jobs'[k] = jobs[k]
    BY <1>11, <1>t DEF StartJob, OpInv, Store
  <2>2. /\ jobs'[j].present = jobs[j].present /\ jobs'[j].enabled = jobs[j].enabled
        /\ jobs'[j].sched = jobs[j].sched /\ jobs'[j].next = jobs[j].next
    BY <2>1 DEF JobRecord
  <2>3. SlotOf(jobs'[j], ServedBy(slot[j]), now)
    BY <2>1, <2>2, SameSlot DEF SlotInv, Served
  <2> QED
    BY <1>t, <2>1, <2>3, OneSlot, SaveSlot
<1>12. ASSUME NEW j \in Job, NEW status, op # NoOp, op.job = {j}, status \in Status
       PROVE  /\ jobs[j] \in JobRecord /\ Ended(j, status) \in JobRecord
              /\ Ended(j, status).present = jobs[j].present
              /\ Ended(j, status).enabled = jobs[j].enabled
              /\ Ended(j, status).sched = jobs[j].sched
              /\ Ended(j, status).next = jobs[j].next
  <2>1. jobs[j] \in JobRecord /\ op.start \in Nat
    BY <1>12, <1>t, OpTyped DEF OpInv
  <2> QED
    BY <1>12, <2>1 DEF Ended, JobRecord, Status
<1>13. ASSUME NEW j \in Job, NEW status \in Status, FinishJob(j, status) PROVE SlotInv'
  <2> DEFINE r == Ended(j, status)
  <2> DEFINE new == ServedBy(slot'[j])
  <2>1. /\ op # NoOp /\ op.job = {j} /\ now' = now /\ disk' = disk
        /\ jobs'[j] = AfterRun(j, status)
        /\ \A k \in Job : k # j => jobs'[k] = jobs[k] /\ slot'[k] = slot[k]
        /\ \A k \in Job : slot'[k].saved = slot[k].saved
        /\ \/ slot'[j] = slot[j]
           \/ slot'[j] = [slot[j] EXCEPT !.served = jobs[j].next, !.lost = FALSE]
              /\ status = "ok" /\ op.kind # "force"
    <3>1. slot' \in [Job -> Slot]
      BY DEF TypeOK
    <3> QED
      BY <1>13, <1>t, <3>1 DEF FinishJob, Store, Slot
  <2>n. /\ new \in Nat /\ slot' \in [Job -> Slot]
        /\ \/ new = ServedBy(slot[j])
           \/ new = jobs[j].next /\ status = "ok" /\ op.kind # "force"
    <3>1. slot' \in [Job -> Slot]
      BY DEF TypeOK
    <3> QED
      BY <1>t, <2>1, <3>1, SlotTypes DEF Slot, ServedBy
  <2>s. SlotOf(jobs[j], ServedBy(slot[j]), now)
    BY DEF SlotInv, Served
  <2> HIDE DEF new
  <2>2. /\ jobs[j] \in JobRecord /\ r \in JobRecord /\ r.present /\ jobs[j].present
        /\ r.enabled = jobs[j].enabled /\ r.sched = jobs[j].sched
    BY <1>12, <2>1 DEF JobRecord
  <2>3. new <= now
    <3>1. ServedBy(slot[j]) <= now
      BY <2>s DEF SlotOf
    <3>2. op.kind # "force" => jobs[j].next <= now
      BY <2>1 DEF OpInv, IsDue
    <3> QED
      BY <2>n, <3>1, <3>2
  <2>o. ASSUME SlotOf(jobs'[j], new, now) PROVE SlotInv'
    <3>1. Served(jobs', slot')
      BY <2>1, <2>o, OneSlot DEF new
    <3> QED
      BY <2>1, <2>n, <3>1, SaveSlot
  <2>4. CASE r.sched.kind # "at" \/ status # "ok"
    <3>1. r.enabled /\ r.sched.kind = "at" => new = Never
      BY <2>n, <2>s, <2>2, <2>4 DEF SlotOf
    <3>2. jobs'[j] = WithNextRun(r, now)
      BY <2>1, <2>2, <2>4 DEF AfterRun
    <3> HIDE DEF r
    <3>3. SlotOf(WithNextRun(r, now), new, now)
      BY <1>t, <2>n, <2>2, <2>3, <3>1, NextSlot
    <3> QED
      BY <2>o, <3>2, <3>3
  <2>5. CASE ~(r.sched.kind # "at" \/ status # "ok")
    <3>1. jobs'[j] = Absent \/ jobs'[j] = [r EXCEPT !.enabled = FALSE, !.next = Never]
      BY <2>1, <2>2, <2>5 DEF AfterRun
    <3> HIDE DEF r
    <3>2. ~[r EXCEPT !.enabled = FALSE, !.next = Never].enabled
      BY <2>2 DEF JobRecord
    <3>3. ~Absent.present
      BY DEF Absent
    <3>4. ~jobs'[j].present \/ ~jobs'[j].enabled
      BY <3>1, <3>2, <3>3
    <3>5. SlotOf(jobs'[j], new, now)
      BY <2>3, <3>4, NothingToRun
    <3> QED
      BY <2>o, <3>5
  <2> QED
    BY <2>4, <2>5
<1>14. ASSUME NEW j \in Job, NEW status \in Status, FinishThrows(j, status) PROVE SlotInv'
  <2>1. /\ op # NoOp /\ op.job = {j} /\ slot' = slot /\ now' = now /\ disk' = disk
        /\ jobs'[j] = Ended(j, "error")
        /\ \A k \in Job : k # j => jobs'[k] = jobs[k]
    BY <1>14, <1>t DEF FinishThrows, Store
  <2>2. SlotOf(jobs'[j], ServedBy(slot[j]), now)
    BY <1>12, <2>1, SameSlot DEF SlotInv, Served, Status
  <2> QED
    BY <1>t, <2>1, <2>2, OneSlot, SaveSlot
<1>15. CASE EndOp
  <2>1. now' = now /\ jobs' = jobs /\ SaveAndArm(op.service, jobs', slot)
    BY <1>15 DEF EndOp
  <2>2. Served(jobs', slot)
    BY <2>1 DEF SlotInv, Served
  <2> QED
    BY <1>t, <2>1, <2>2, SaveSlot
<1>16. CASE Crash
  <2>1. jobs' = disk /\ disk' = disk /\ now' = now /\ slot' = Lost
    BY <1>16 DEF Crash
  <2>2. \A j \in Job : slot'[j].saved = slot[j].saved /\ ServedBy(slot'[j]) = slot[j].saved
    BY <1>t, <2>1, LostFacts
  <2> QED
    BY <2>1, <2>2 DEF SlotInv, Served
<1>17. ASSUME NEW s \in Service, LockedStep(s) PROVE SlotInv'
  BY <1>4, <1>5, <1>6, <1>8, <1>9, <1>10, <1>17, Zenon DEF LockedStep
<1>18. CASE JobStep
  BY <1>11, <1>13, <1>14, <1>15, <1>18 DEF JobStep
<1>19. CASE UNCHANGED vars \/ Call
  BY <1>1, <1>19 DEF vars, Call, jobVars
<1>20. ASSUME NEW s \in Service, Fire(s) PROVE SlotInv'
  BY <1>1, <1>20 DEF Fire, jobVars
<1>21. ASSUME NEW on \in BOOLEAN, Reload(on) PROVE SlotInv'
  BY <1>1, <1>21 DEF Reload, jobVars
<1> QED
  BY <1>2, <1>16, <1>17, <1>18, <1>19, <1>20, <1>21 DEF Next

LEMMA SlotsKept == Spec => [](IInv /\ SlotInv)
<1>1. Init => SlotInv
  <2> SUFFICES ASSUME Init, NEW j \in Job
               PROVE  SlotOf(jobs[j], ServedBy(slot[j]), now) /\ SlotOf(disk[j], slot[j].saved, now)
    BY DEF SlotInv, Served
  <2>1. /\ jobs[j] = Absent /\ disk[j] = Absent /\ now \in Nat
        /\ ServedBy(slot[j]) = Never /\ slot[j].saved = Never
    BY DEF Init, ServedBy, Unserved
  <2> QED
    BY <2>1, NothingServed
<1> QED
  BY <1>1, StepSlot, Inductive, PTL DEF Spec

\* An unforced run starts for a job that is due, hence for its slot.
LEMMA RunsItsSlot ==
  ASSUME IInv, SlotInv, NEW j \in Job, op # NoOp, StartsUnforced(j)
  PROVE  \/ jobs[j].next > ServedBy(slot[j])
         \/ IsAnchored(jobs[j].sched) /\ jobs[j].next = ServedBy(slot[j])
<1>1. IsDue(j) /\ j \in Present
  BY DEF IInv, OpInv, StartsUnforced
<1>2. jobs[j].next \in Nat /\ ServedBy(slot[j]) \in Nat
  <2>1. jobs[j] \in JobRecord \cup {Absent} /\ slot \in [Job -> Slot]
    BY DEF IInv, TypeOK
  <2>2. jobs[j] \in JobRecord
    BY <1>1, <2>1, RecordFacts DEF Present
  <2> QED
    BY <2>1, <2>2, SlotTypes DEF JobRecord
<1>3. /\ ServedBy(slot[j]) <= jobs[j].next
      /\ ~IsAnchored(jobs[j].sched) => ServedBy(slot[j]) < jobs[j].next
  BY <1>1 DEF IsDue, Present, SlotInv, Served, SlotOf
<1> QED
  BY <1>2, <1>3

\* timer.ts: a due time is served once, through reloads, rejected patches, full
\* disks and crashes, for any schedules, but for what a crash loses before it is
\* saved and for an anchored interval in the instant of its grid.
THEOREM ServedOnce == Spec => SlotsServedOnce
<1>1. IInv /\ SlotInv =>
        [\A j \in Job : op # NoOp /\ op' # NoOp /\ StartsUnforced(j) =>
           \/ jobs[j].next > ServedBy(slot[j])
           \/ IsAnchored(jobs[j].sched) /\ jobs[j].next = ServedBy(slot[j])]_vars
  BY RunsItsSlot
<1> QED
  BY <1>1, SlotsKept, PTL DEF SlotsServedOnce
-----------------------------------------------------------------------------
(***************************************************************************)
(* The timer, of a scheduler that no reload replaces and whose saves       *)
(* succeed.                                                                *)
(***************************************************************************)
OneService == SavesSucceed /\ "reload" \notin Disturb

Queued(kind) == \E i \in 1 .. Len(chain) : chain[i] = <<"startup", kind>>

StartupOnly ==
  /\ current = "startup"
  /\ \A i \in 1 .. Len(chain) : chain[i][1] = "startup"
  /\ op # NoOp => op.service = "startup"
  /\ timer["reloaded"] = Never

\* state.running is left set only by a tick that is still to come or under way.
RunningTicks ==
  running["startup"] => Queued("tick") \/ (op # NoOp /\ op.kind = "tick")

Covers(js) ==
  timer["startup"] # Never /\ timer["startup"] <= LaterOf(NextWake(js), now)

\* Where the timer does not cover the earliest job, an operation that will arm it
\* is under way or waits for the lock.
TimerOrOperation ==
  (enabled["startup"] /\ NextWake(jobs) # Never) =>
    op # NoOp \/ Queued("start") \/ Queued("tick") \/ Covers(jobs)

TimerInv == StartupOnly /\ RunningTicks /\ TimerOrOperation

Operation == Service \X {"start", "tick", "call"}

\* The one that gets the lock leaves the queue to the others.
LEMMA LockTakes ==
  ASSUME chain \in Seq(Operation), StartupOnly, NEW s, NEW kind, Lock(s, kind)
  PROVE  /\ op = NoOp /\ s = "startup"
         /\ \A i \in 1 .. Len(chain') : chain'[i][1] = "startup"
         /\ \A k \in {"start", "tick"} : k # kind /\ Queued(k) => Queued(k)'
<1>1. /\ op = NoOp /\ chain # <<>> /\ Head(chain) = <<s, kind>> /\ chain' = Tail(chain)
  BY DEF Lock
<1>2. /\ Len(chain) \in Nat \ {0} /\ chain[1] = <<s, kind>>
      /\ Len(chain') = Len(chain) - 1
      /\ \A i \in 1 .. Len(chain') : chain'[i] = chain[i + 1]
  BY <1>1
<1>3. s = "startup"
  BY <1>2 DEF StartupOnly
<1>4. \A i \in 1 .. Len(chain') : chain'[i][1] = "startup"
  <2>1. \A i \in 1 .. Len(chain') : i + 1 \in 1 .. Len(chain)
    BY <1>2
  <2> QED
    BY <1>2, <2>1 DEF StartupOnly
<1>5. ASSUME NEW k \in {"start", "tick"}, k # kind, Queued(k) PROVE Queued(k)'
  <2>1. PICK i \in 1 .. Len(chain) : chain[i] = <<"startup", k>>
    BY <1>5 DEF Queued
  <2>2. i # 1
    BY <1>2, <1>5, <2>1
  <2>3. i - 1 \in 1 .. Len(chain') /\ chain'[i - 1] = chain[i]
    BY <1>2, <2>2
  <2> QED
    BY <2>1, <2>3 DEF Queued
<1> QED
  BY <1>1, <1>3, <1>4, <1>5

\* Who asks for the lock is behind the others.
LEMMA JoinsLast ==
  ASSUME chain \in Seq(Operation), StartupOnly, NEW kind \in {"start", "tick", "call"},
         chain' = Append(chain, <<"startup", kind>>)
  PROVE  /\ \A i \in 1 .. Len(chain') : chain'[i][1] = "startup"
         /\ \A k \in {"start", "tick"} : Queued(k) => Queued(k)'
         /\ Queued(kind)'
<1>1. /\ Len(chain) \in Nat /\ Len(chain') = Len(chain) + 1
      /\ \A i \in 1 .. Len(chain) : chain'[i] = chain[i]
      /\ chain'[Len(chain')] = <<"startup", kind>>
  BY DEF Operation, Service
<1>2. \A i \in 1 .. Len(chain') : i \in 1 .. Len(chain) \/ i = Len(chain')
  BY <1>1
<1>3. \A i \in 1 .. Len(chain) : i \in 1 .. Len(chain')
  BY <1>1
<1>4. \A i \in 1 .. Len(chain') : chain'[i][1] = "startup"
  BY <1>1, <1>2 DEF StartupOnly
<1>5. \A k \in {"start", "tick"} : Queued(k) => Queued(k)'
  BY <1>1, <1>3 DEF Queued
<1>6. Len(chain') \in 1 .. Len(chain')
  BY <1>1
<1>7. Queued(kind)'
  BY <1>1, <1>6 DEF Queued
<1> QED
  BY <1>4, <1>5, <1>7

\* armTimer covers the earliest job.
LEMMA ArmedCovers ==
  ASSUME TypeOK, NEW js \in Store, now' = now, ArmTimer("startup", js)
  PROVE  /\ enabled["startup"] /\ NextWake(js) # Never =>
              timer'["startup"] # Never /\ timer'["startup"] <= LaterOf(NextWake(js), now)
         /\ timer'["reloaded"] = timer["reloaded"]
<1>1. NextWake(js) \in Nat /\ now \in Nat \ {0} /\ timer \in [Service -> Nat]
  BY NextWakeFacts, ClockAssumption DEF TypeOK
<1> DEFINE due == LaterOf(NextWake(js), now)
           at == EarlierOf(due, now + MaxTimeout)
<1>2. due \in Nat \ {0}
  BY <1>1 DEF LaterOf
<1>3. at # Never /\ at <= due
  <2> HIDE DEF due
  <2> QED
    BY <1>1, <1>2, ClockAssumption DEF EarlierOf, Never
<1>4. enabled["startup"] /\ NextWake(js) # Never => timer'["startup"] = at
  BY <1>1 DEF ArmTimer, Service
<1>5. timer'["reloaded"] = timer["reloaded"]
  BY <1>1 DEF ArmTimer, Service
<1> HIDE DEF at, due
<1>6. enabled["startup"] /\ NextWake(js) # Never =>
        timer'["startup"] # Never /\ timer'["startup"] <= due
  BY <1>3, <1>4
<1> QED
  BY <1>5, <1>6 DEF due

\* An operation that saves and arms what it leaves.
LEMMA EndsArmed ==
  ASSUME OneService, TypeOK, TypeOK', StartupOnly, RunningTicks, NEW kind \in {"start", "call"},
         Lock("startup", kind), NEW sl, SaveAndArm("startup", jobs', sl),
         UNCHANGED <<now, running, enabled, current, op>>
  PROVE  TimerInv'
<1>1. chain \in Seq(Operation) /\ jobs' \in Store
  BY DEF TypeOK, Operation, Store
<1>2. /\ op' = NoOp /\ \A i \in 1 .. Len(chain') : chain'[i][1] = "startup"
      /\ Queued("tick") => Queued("tick")'
  BY <1>1, LockTakes
<1>3. ArmTimer("startup", jobs')
  BY DEF SaveAndArm, OneService, SavesSucceed
<1>4. StartupOnly'
  BY <1>1, <1>2, <1>3, ArmedCovers DEF StartupOnly
<1>5. RunningTicks'
  <2>1. op = NoOp
    BY DEF Lock
  <2> QED
    BY <1>2, <2>1 DEF RunningTicks
<1>6. TimerOrOperation'
  BY <1>1, <1>3, ArmedCovers DEF TimerOrOperation, Covers
<1> QED
  BY <1>4, <1>5, <1>6 DEF TimerInv

LEMMA LockedTimer ==
  ASSUME OneService, TypeOK, TypeOK', TimerInv, NEW s \in Service, LockedStep(s)
  PROVE  TimerInv'
<1>1. chain \in Seq(Operation) /\ StartupOnly /\ RunningTicks /\ TimerOrOperation
  BY DEF TypeOK, Operation, TimerInv
<1>2. s = "startup" /\ op = NoOp
  <2>1. \E kind : Lock(s, kind)
    BY DEF LockedStep, StartService, StartFails, BeginTick, Look, Add, Update,
           UpdateRejected, Remove, BeginRun
  <2> QED
    BY <1>1, <2>1, LockTakes
<1>3. CASE StartService(s)
  <2>1. CASE enabled[s]
    BY <1>1, <1>2, <1>3, <2>1, EndsArmed DEF StartService
  <2>2. CASE ~enabled[s]
    <3>1. /\ UNCHANGED <<now, running, enabled, current, op, jobs, timer>>
          /\ ~enabled["startup"] /\ Lock(s, "start")
      BY <1>2, <1>3, <2>2 DEF StartService
    <3>2. /\ \A i \in 1 .. Len(chain') : chain'[i][1] = "startup"
          /\ Queued("tick") => Queued("tick")'
      BY <1>1, <3>1, LockTakes
    <3> QED
      BY <1>1, <1>2, <3>1, <3>2 DEF TimerInv, StartupOnly, RunningTicks, TimerOrOperation
  <2> QED
    BY <2>1, <2>2
<1>4. ~StartFails(s)
  BY NothingThrows DEF StartFails, OneService
<1>5. CASE BeginTick(s)
  <2>1. /\ UNCHANGED <<now, running, enabled, current, jobs, timer>>
        /\ Lock(s, "tick") /\ op' = TickOp(s, {j \in Job : Ready(j)})
    BY <1>5 DEF BeginTick, jobVars, serviceVars
  <2>2. \A i \in 1 .. Len(chain') : chain'[i][1] = "startup"
    BY <1>1, <2>1, LockTakes
  <2>3. op'.kind = "tick" /\ op'.service = "startup"
    BY <1>2, <2>1 DEF TickOp
  <2>4. op' # NoOp
    BY <2>3 DEF NoOp
  <2> QED
    BY <1>1, <2>1, <2>2, <2>3, <2>4 DEF TimerInv, StartupOnly, RunningTicks, TimerOrOperation
<1>6. CASE Look(s)
  <2>1. UNCHANGED <<now, running, enabled, current, jobs, timer, op>> /\ Lock(s, "call")
    BY <1>6 DEF Look, jobVars, serviceVars
  <2>2. /\ \A i \in 1 .. Len(chain') : chain'[i][1] = "startup"
        /\ \A k \in {"start", "tick"} : Queued(k) => Queued(k)'
    BY <1>1, <2>1, LockTakes
  <2>3. StartupOnly' /\ RunningTicks'
    BY <1>1, <2>1, <2>2 DEF StartupOnly, RunningTicks
  <2>4. TimerOrOperation'
    BY <1>1, <2>1, <2>2 DEF TimerOrOperation, Covers
  <2> QED
    BY <2>3, <2>4 DEF TimerInv
<1>7. ASSUME NEW j \in Job, NEW forced \in BOOLEAN, BeginRun(s, j, forced) PROVE TimerInv'
  <2>1. /\ UNCHANGED <<now, running, enabled, current, jobs, timer>>
        /\ Lock(s, "call") /\ op' = RunOp(s, j, forced)
    BY <1>7 DEF BeginRun, jobVars, serviceVars
  <2>2. /\ \A i \in 1 .. Len(chain') : chain'[i][1] = "startup"
        /\ Queued("tick") => Queued("tick")'
    BY <1>1, <2>1, LockTakes
  <2>3. op'.kind # "none" /\ op'.service = "startup"
    BY <1>2, <2>1 DEF RunOp
  <2>4. op' # NoOp
    BY <2>3 DEF NoOp
  <2> QED
    BY <1>1, <1>2, <2>1, <2>2, <2>3, <2>4
      DEF TimerInv, StartupOnly, RunningTicks, TimerOrOperation
<1>8. ASSUME NEW j \in Job, NEW sched \in Schedule, NEW on \in BOOLEAN, NEW delete \in BOOLEAN,
             Add(s, j, NewJob(sched, on, delete))
      PROVE  TimerInv'
  BY <1>1, <1>2, <1>8, EndsArmed DEF Add
<1>9. ASSUME NEW j \in Job, NEW sched \in Schedule, NEW on \in BOOLEAN,
             Update(s, j, sched, on) \/ UpdateRejected(s, j, sched, on)
      PROVE  TimerInv'
  <2>1. ~UpdateRejected(s, j, sched, on)
    BY DEF UpdateRejected, OneService, SavesSucceed
  <2> QED
    BY <1>1, <1>2, <1>9, <2>1, EndsArmed DEF Update
<1>10. ASSUME NEW j \in Job, Remove(s, j) PROVE TimerInv'
  BY <1>1, <1>2, <1>10, EndsArmed DEF Remove
<1> QED
  BY <1>3, <1>4, <1>5, <1>6, <1>7, <1>8, <1>9, <1>10, Zenon DEF LockedStep

LEMMA StepTimer == OneService /\ IInv /\ TimerInv /\ [Next]_vars => TimerInv'
<1> SUFFICES ASSUME OneService, TypeOK, OpInv, TypeOK', TimerInv, [Next]_vars PROVE TimerInv'
  BY StepTyped DEF IInv
<1>t. /\ chain \in Seq(Operation) /\ StartupOnly /\ RunningTicks /\ TimerOrOperation
      /\ now \in Nat /\ jobs \in Store
  BY ClockAssumption DEF TypeOK, Operation, TimerInv, Store
<1>1. CASE UNCHANGED vars
  BY <1>1 DEF vars, jobVars, serviceVars, TimerInv, StartupOnly, RunningTicks,
              TimerOrOperation, Covers, Queued
<1>2. CASE PassTime
  <2>1. UNCHANGED <<jobs, timer, running, enabled, current, chain, op>> /\ now' = now + 1
    BY <1>2 DEF PassTime, jobVars, serviceVars
  <2>2. NextWake(jobs) \in Nat /\ timer["startup"] \in Nat
    BY <1>t, NextWakeFacts DEF TypeOK, Service
  <2>3. LaterOf(NextWake(jobs), now) <= LaterOf(NextWake(jobs), now + 1)
    BY <1>t, <2>2 DEF LaterOf
  <2>4. LaterOf(NextWake(jobs), now) \in Nat /\ LaterOf(NextWake(jobs), now + 1) \in Nat
    BY <1>t, <2>2 DEF LaterOf
  <2>5. Covers(jobs) => Covers(jobs)'
    BY <2>1, <2>2, <2>3, <2>4 DEF Covers
  <2> QED
    BY <1>t, <2>1, <2>5 DEF TimerInv, StartupOnly, RunningTicks, TimerOrOperation, Queued
<1>3. CASE Call
  <2>1. /\ UNCHANGED <<now, jobs, timer, running, enabled, current, op>>
        /\ chain' = Append(chain, <<"startup", "call">>)
    BY <1>3 DEF Call, jobVars, serviceVars
  <2>2. /\ \A i \in 1 .. Len(chain') : chain'[i][1] = "startup"
        /\ \A k \in {"start", "tick"} : Queued(k) => Queued(k)'
    BY <1>t, <2>1, JoinsLast
  <2> QED
    BY <1>t, <2>1, <2>2 DEF TimerInv, StartupOnly, RunningTicks, TimerOrOperation, Covers
<1>4. ASSUME NEW s \in Service, Fire(s) PROVE TimerInv'
  <2>1. s = "startup"
    BY <1>4, <1>t DEF Fire, Service, StartupOnly
  <2>2. /\ UNCHANGED <<now, jobs, enabled, current, op>>
        /\ timer'["reloaded"] = timer["reloaded"]
        /\ chain' = IF running["startup"] THEN chain ELSE Append(chain, <<"startup", "tick">>)
    BY <1>4, <2>1 DEF Fire, jobVars, Service, TypeOK
  <2>3. CASE running["startup"]
    <3>1. chain' = chain /\ (Queued("tick")' <=> Queued("tick"))
      BY <2>2, <2>3 DEF Queued
    <3>2. Queued("tick") \/ (op # NoOp /\ op.kind = "tick")
      BY <1>t, <2>3 DEF RunningTicks
    <3> QED
      BY <1>t, <2>2, <3>1, <3>2 DEF TimerInv, StartupOnly, RunningTicks, TimerOrOperation
  <2>4. CASE ~running["startup"]
    <3>1. /\ \A i \in 1 .. Len(chain') : chain'[i][1] = "startup"
          /\ Queued("tick")'
      BY <1>t, <2>2, <2>4, JoinsLast
    <3> QED
      BY <1>t, <2>2, <3>1 DEF TimerInv, StartupOnly, RunningTicks, TimerOrOperation
  <2> QED
    BY <2>3, <2>4
<1>5. ASSUME NEW j \in Job, StartJob(j) \/ \E status \in Status : FinishJob(j, status)
      PROVE  TimerInv'
  <2>1. /\ UNCHANGED <<timer, running, enabled, current, chain>> /\ op # NoOp
    BY <1>5 DEF StartJob, FinishJob, serviceVars
  <2>2. op' # NoOp /\ op'.kind = op.kind /\ op'.service = op.service
    BY <1>5, <2>1, OpGoesOn
  <2> QED
    BY <1>t, <2>1, <2>2 DEF TimerInv, StartupOnly, RunningTicks, TimerOrOperation, Queued
<1>6. ASSUME NEW j \in Job, NEW status \in Status PROVE ~FinishThrows(j, status)
  <2>1. FinishThrows(j, status) => j \in Present
    BY DEF FinishThrows, OpInv
  <2> QED
    BY <2>1, NothingThrows DEF FinishThrows, OneService
<1>7. CASE EndOp
  <2>1. op.service = "startup" /\ op # NoOp
    BY <1>7, <1>t DEF EndOp, StartupOnly
  <2>2. /\ UNCHANGED <<now, jobs, enabled, current, chain>> /\ op' = NoOp
        /\ ArmTimer("startup", jobs)
    BY <1>7, <2>1 DEF EndOp, SaveAndArm, OneService, SavesSucceed
  <2>3. running'["startup"] => running["startup"] /\ op.kind # "tick"
    BY <1>7, <2>1 DEF EndOp, TypeOK, Service
  <2>4. RunningTicks'
    BY <1>t, <2>2, <2>3 DEF RunningTicks, Queued
  <2>5. StartupOnly'
    BY <1>t, <2>2, ArmedCovers DEF StartupOnly
  <2>6. TimerOrOperation'
    BY <1>t, <2>2, ArmedCovers DEF TimerOrOperation, Covers
  <2> QED
    BY <2>4, <2>5, <2>6 DEF TimerInv
<1>8. CASE JobStep
  BY <1>5, <1>6, <1>7, <1>8 DEF JobStep
<1>9. \A on \in BOOLEAN : ~Reload(on)
  BY DEF Reload, OneService
<1>10. CASE Crash
  <2>1. /\ current' = "startup" /\ chain' = <<<<"startup", "start">>>> /\ op' = NoOp
        /\ timer'["reloaded"] = Never /\ ~running'["startup"]
    BY <1>10 DEF Crash, Service
  <2>2. Len(chain') = 1 /\ chain'[1] = <<"startup", "start">>
    BY <2>1
  <2>3. Queued("start")' /\ \A i \in 1 .. Len(chain') : chain'[i][1] = "startup"
    BY <2>2 DEF Queued
  <2> QED
    BY <2>1, <2>3 DEF TimerInv, StartupOnly, RunningTicks, TimerOrOperation
<1> QED
  BY <1>1, <1>2, <1>3, <1>4, <1>8, <1>9, <1>10, LockedTimer DEF Next

\* timer.ts: as long as saves succeed and one service has the store, whatever
\* ends an operation leaves a timer that covers the earliest job.
THEOREM TimerKept == OneService /\ Spec => []TimerCoversJobs
<1> SUFFICES ASSUME OneService PROVE Spec => []TimerCoversJobs
  OBVIOUS
<1>1. Init => TimerInv
  <2> SUFFICES ASSUME Init PROVE TimerInv
    OBVIOUS
  <2>1. /\ current = "startup" /\ chain = <<<<"startup", "start">>>> /\ op = NoOp
        /\ timer["reloaded"] = Never /\ ~running["startup"]
    BY DEF Init, Service
  <2>2. Len(chain) = 1 /\ chain[1] = <<"startup", "start">>
    BY <2>1
  <2>3. Queued("start") /\ \A i \in 1 .. Len(chain) : chain[i][1] = "startup"
    BY <2>2 DEF Queued
  <2> QED
    BY <2>1, <2>3 DEF TimerInv, StartupOnly, RunningTicks, TimerOrOperation
<1>2. IInv /\ TimerInv /\ [Next]_vars => TimerInv'
  BY StepTimer
<1>3. TimerInv => TimerCoversJobs
  <2> SUFFICES ASSUME TimerInv, op = NoOp, chain = <<>>, enabled[current], NextWake(jobs) # Never
               PROVE  \E s \in Service :
                        timer[s] # Never /\ timer[s] <= LaterOf(NextWake(jobs), now)
    BY DEF TimerCoversJobs
  <2>1. ~Queued("start") /\ ~Queued("tick") /\ enabled["startup"]
    BY DEF Queued, TimerInv, StartupOnly
  <2>2. Covers(jobs)
    BY <2>1 DEF TimerInv, TimerOrOperation
  <2> QED
    BY <2>2 DEF Covers, Service
<1> QED
  BY <1>1, <1>2, <1>3, Inductive, PTL DEF Spec
=============================================================================
