------------------------- MODULE CommandQueueProofs -------------------------
(***************************************************************************)
(* Proofs about CommandQueue, for any lanes, tasks, settings and nesting.  *)
(***************************************************************************)
EXTENDS CommandQueue, FiniteSetTheorems, SequenceTheorems, TLAPS

\* Dropping the last element of a sequence leaves the others in place.
LEMMA FrontProperties ==
  ASSUME NEW S, NEW s \in Seq(S), s # <<>>, NEW n \in Int, n = Len(s) - 1
  PROVE  /\ SubSeq(s, 1, n) \in Seq(S)
         /\ Len(SubSeq(s, 1, n)) = n
         /\ \A i \in 1..n : SubSeq(s, 1, n)[i] = s[i]
PROOF
<1>1. SubSeq(s, 1, n) \in Seq(S) OBVIOUS
<1>2. Len(SubSeq(s, 1, n)) = n OBVIOUS
<1>3. \A i \in 1..n : SubSeq(s, 1, n)[i] = s[i] OBVIOUS
<1> QED BY <1>1, <1>2, <1>3

NoRepeat(s) == \A i, j \in 1..Len(s) : s[i] = s[j] => i = j

\* Appending a new element adds it and keeps the elements distinct.
LEMMA AppendElements ==
  ASSUME NEW S, NEW s \in Seq(S), NoRepeat(s), NEW t \in S, ~IsIn(t, s)
  PROVE  /\ NoRepeat(Append(s, t))
         /\ \A u \in S : IsIn(u, Append(s, t)) <=> u = t \/ IsIn(u, s)
PROOF
<1>1. /\ Len(s) \in Nat
      /\ Len(Append(s, t)) = Len(s) + 1
      /\ \A i \in 1..Len(s) : Append(s, t)[i] = s[i]
      /\ Append(s, t)[Len(s) + 1] = t
  BY AppendProperties
<1> QED BY <1>1 DEF NoRepeat, IsIn

\* Removing the first of distinct elements removes exactly that element.
LEMMA TailElements ==
  ASSUME NEW S, NEW s \in Seq(S), NoRepeat(s), s # <<>>
  PROVE  /\ Head(s) \in S /\ IsIn(Head(s), s)
         /\ NoRepeat(Tail(s))
         /\ \A u \in S : IsIn(u, Tail(s)) <=> u # Head(s) /\ IsIn(u, s)
PROOF
<1>1. /\ Len(s) \in Nat \ {0}
      /\ Head(s) = s[1]
      /\ Len(Tail(s)) = Len(s) - 1
      /\ \A i \in 1..(Len(s) - 1) : Tail(s)[i] = s[i + 1]
  BY HeadTailProperties
<1>2. \A u \in S : IsIn(u, Tail(s)) => u # Head(s) /\ IsIn(u, s)
  BY <1>1 DEF NoRepeat, IsIn
<1>3. ASSUME NEW i \in 1..Len(s), s[i] # Head(s)
      PROVE  IsIn(s[i], Tail(s))
  <2>1. i - 1 \in 1..(Len(s) - 1) /\ (i - 1) + 1 = i
    BY <1>1, <1>3
  <2> QED BY <1>1, <2>1 DEF IsIn
<1>4. NoRepeat(Tail(s))
  BY <1>1 DEF NoRepeat
<1>5. Head(s) \in S /\ IsIn(Head(s), s)
  BY <1>1 DEF IsIn
<1> QED BY <1>2, <1>3, <1>4, <1>5 DEF IsIn

\* The stack only ever shrinks by its last frame.
LEMMA PopProperties ==
  ASSUME TypeOK, stack # <<>>
  PROVE  /\ Top \in Frame
         /\ Len(stack) \in Nat \ {0}
         /\ Pop \in Seq(Frame)
         /\ Len(Pop) = Len(stack) - 1
         /\ \A i \in 1..(Len(stack) - 1) : Pop[i] = stack[i]
PROOF
<1>1. stack \in Seq(Frame) BY DEF TypeOK
<1>2. Len(stack) \in Nat \ {0} BY <1>1
<1>3. Top \in Frame BY <1>1, <1>2 DEF Top
<1>4. Len(stack) - 1 \in Int BY <1>2
<1> QED BY <1>1, <1>2, <1>3, <1>4, FrontProperties DEF Pop

\* What drainLane leaves behind, called with any well-typed state.
LEMMA DrainLaneType ==
  ASSUME TypeOK, NEW l \in Lane, DrainLane(l)
  PROVE  draining' \in [Lane -> BOOLEAN] /\ stack' \in Seq(Frame)
PROOF
<1>1. PumpFrame(l) \in Frame
  BY DEF PumpFrame, Frame, Settled
<1>2. Append(stack, PumpFrame(l)) \in Seq(Frame)
  BY <1>1, AppendProperties DEF TypeOK
<1> QED BY <1>2 DEF TypeOK, DrainLane

\* Type correctness: every state of the lanes is one the code's types allow.
THEOREM TypeCorrect == Spec => []TypeOK
PROOF
<1>1. Init => TypeOK
  BY LaneAssumption DEF Init, TypeOK, Status
<1>2. TypeOK /\ [Next]_vars => TypeOK'
  <2> SUFFICES ASSUME TypeOK, [Next]_vars PROVE TypeOK'
    OBVIOUS
  <2>1. ASSUME NEW t \in Task, NEW l \in Lane, Enqueue(t, l),
               awaits' \in [Task -> SUBSET Task]
        PROVE  TypeOK'
    BY <2>1, DrainLaneType DEF Enqueue, TypeOK, Status
  <2>2. ASSUME NEW t \in Task, NEW l \in Lane, EnqueueFromEvent(t, l)
        PROVE  TypeOK'
    BY <2>1, <2>2 DEF EnqueueFromEvent, TypeOK
  <2>3. ASSUME NEW t \in Task, NEW l \in Lane, NEW w \in BOOLEAN, EnqueueFromTask(t, l, w)
        PROVE  TypeOK'
    <3>1. Top.task \in Task
      BY <2>3, PopProperties DEF EnqueueFromTask, InPrefix, Frame
    <3>2. awaits' \in [Task -> SUBSET Task]
      BY <2>3, <3>1 DEF EnqueueFromTask, TypeOK
    <3> QED BY <2>1, <2>3, <3>2 DEF EnqueueFromTask
  <2>4. ASSUME NEW l \in Lane, PumpStart(l)
        PROVE  TypeOK'
    <3>1. Head(queue[l]) \in Task /\ Tail(queue[l]) \in Seq(Task)
      BY <2>4 DEF PumpStart, HasRoom, TypeOK
    <3>2. status' \in [Task -> Status]
      BY <2>4, <3>1 DEF PumpStart, TypeOK, Status
    <3>3. queue' \in [Lane -> Seq(Task)] /\ active' \in [Lane -> Int]
      BY <2>4, <3>1 DEF PumpStart, TypeOK
    <3>4. stack' \in Seq(Frame)
      BY <2>4, <3>1 DEF PumpStart, TypeOK, Frame, Settled
    <3> QED BY <2>4, <3>2, <3>3, <3>4 DEF PumpStart, TypeOK
  <2>5. ASSUME NEW l \in Lane, PumpReturn(l)
        PROVE  TypeOK'
    <3>1. Top \in Frame /\ Pop \in Seq(Frame)
      BY <2>5, PopProperties DEF PumpReturn, InPump
    <3>2. status' \in [Task -> Status]
      BY <2>5, <3>1 DEF PumpReturn, TypeOK, Frame, Status
    <3> QED BY <2>5, <3>1, <3>2 DEF PumpReturn, TypeOK
  <2>6. ASSUME NEW l \in Lane, NEW n \in Setting, SetCommandLaneConcurrency(l, n)
        PROVE  TypeOK'
    <3>1. (IF n < 1 THEN 1 ELSE n) \in Nat \ {0}
      BY SettingAssumption
    <3> QED BY <2>6, <3>1, DrainLaneType DEF SetCommandLaneConcurrency, TypeOK
  <2>7. ASSUME NEW l \in Lane, ClearCommandLane(l)
        PROVE  TypeOK'
    BY <2>7 DEF ClearCommandLane, TypeOK, Status
  <2>8. ASSUME PrefixReturn
        PROVE  TypeOK'
    BY <2>8, PopProperties DEF PrefixReturn, InPrefix, laneVars, TypeOK
  <2>9. ASSUME NEW t \in Task, NEW outcome \in Settled, Complete(t, outcome)
        PROVE  TypeOK'
    BY <2>9 DEF Complete, TypeOK, Status, Frame
  <2>10. CASE UNCHANGED vars
    BY <2>10 DEF vars, TypeOK
  <2> QED BY <2>2, <2>3, <2>4, <2>5, <2>6, <2>7, <2>8, <2>9, <2>10 DEF Next
<1> QED BY <1>1, <1>2, PTL DEF Spec

-----------------------------------------------------------------------------
(***************************************************************************)
(* The inductive invariant.  ActiveCounts needs to know that a started     *)
(* task was queued and not yet running (QueuedOnce) and that a task being  *)
(* settled is no longer running (FramesOK); NoLostWakeup speaks of the     *)
(* empty stack only, so WakeupOK says who will serve a lane meanwhile.     *)
(***************************************************************************)

\* Only the bottom frame settles a task: completions find the stack empty.
FramesOK ==
  \A i \in 1..Len(stack) :
    stack[i].kind = "pump" /\ stack[i].task # NoTask =>
      i = 1 /\ status[stack[i].task] = "settling"

Pumped(l) == \E i \in 1..Len(stack) : stack[i].kind = "pump" /\ stack[i].lane = l

\* A lane with room for waiting work, or marked draining, is being pumped.
WakeupOK == \A l \in Lane : HasRoom(l) \/ draining[l] => Pumped(l)

IndInv == TypeOK /\ QueuedOnce /\ FramesOK /\ ActiveCounts /\ WakeupOK

\* Running sets are finite, so their cardinalities are numbers.
LEMMA RunningFinite == \A l \in Lane : IsFiniteSet(Running(l))
BY FiniteTasks, FS_Subset DEF Running

\* Pushing a frame keeps the lanes that were being pumped so.
LEMMA PushPumped ==
  ASSUME TypeOK, NEW f \in Frame, stack' = Append(stack, f)
  PROVE  /\ \A l \in Lane : Pumped(l) => Pumped(l)'
         /\ f.kind = "pump" => Pumped(f.lane)'
         /\ Len(stack') = Len(stack) + 1
         /\ \A i \in 1..Len(stack) : stack'[i] = stack[i]
         /\ stack'[Len(stack) + 1] = f
PROOF
<1>1. stack \in Seq(Frame) /\ Len(stack) \in Nat BY DEF TypeOK
<1>2. /\ Len(stack') = Len(stack) + 1
      /\ \A i \in 1..Len(stack) : stack'[i] = stack[i]
      /\ stack'[Len(stack) + 1] = f
  BY <1>1, AppendProperties
<1> QED BY <1>1, <1>2 DEF Pumped

\* drainLane leaves the lane pumped, and pushes no frame with a task to settle.
LEMMA DrainLaneStep ==
  ASSUME IndInv, NEW l \in Lane, DrainLane(l)
  PROVE  /\ Pumped(l)'
         /\ \A m \in Lane : Pumped(m) => Pumped(m)'
         /\ \A m \in Lane : m # l => draining'[m] = draining[m]
         /\ \A i \in 1..Len(stack') :
              \/ i \in 1..Len(stack) /\ stack'[i] = stack[i]
              \/ stack'[i].task = NoTask
PROOF
<1>1. CASE draining[l]
  <2>1. UNCHANGED stack /\ UNCHANGED draining
    BY <1>1 DEF DrainLane
  <2>2. Pumped(l)
    BY <1>1 DEF IndInv, WakeupOK
  <2> QED BY <2>1, <2>2 DEF Pumped
<1>2. CASE ~draining[l]
  <2>1. /\ stack' = Append(stack, PumpFrame(l))
        /\ draining' = [draining EXCEPT ![l] = TRUE]
    BY <1>2 DEF DrainLane
  <2>2. PumpFrame(l) \in Frame
    BY DEF PumpFrame, Frame, Settled
  <2>3. /\ Pumped(l)'
        /\ \A m \in Lane : Pumped(m) => Pumped(m)'
        /\ Len(stack') = Len(stack) + 1
        /\ \A i \in 1..Len(stack) : stack'[i] = stack[i]
        /\ stack'[Len(stack) + 1] = PumpFrame(l)
    BY <2>1, <2>2, PushPumped DEF IndInv, PumpFrame
  <2>4. Len(stack) \in Nat
    BY DEF IndInv, TypeOK
  <2> QED BY <2>1, <2>3, <2>4 DEF IndInv, TypeOK, PumpFrame
<1> QED BY <1>1, <1>2

-----------------------------------------------------------------------------
\* A step that leaves the set of running tasks and the counters alone.
LEMMA SameRunning ==
  ASSUME ActiveCounts, UNCHANGED active, \A l \in Lane : Running(l)' = Running(l)
  PROVE  ActiveCounts'
BY DEF ActiveCounts

\* A call of enqueueCommandInLane keeps the invariant.
LEMMA EnqueueStep ==
  ASSUME IndInv, TypeOK', NEW t \in Task, NEW l \in Lane, Enqueue(t, l)
  PROVE  IndInv'
PROOF
<1> USE DEF IndInv
<1>1. /\ status[t] = "new"
      /\ queue' = [queue EXCEPT ![l] = Append(@, t)]
      /\ status' = [status EXCEPT ![t] = "queued"]
      /\ laneOf' = [laneOf EXCEPT ![t] = l]
      /\ DrainLane(l)
      /\ UNCHANGED <<active, maxConcurrent>>
  BY DEF Enqueue
<1>2. QueuedOnce'
  <2>1. \A m \in Lane : queue[m] \in Seq(Task) /\ NoRepeat(queue[m]) /\ ~IsIn(t, queue[m])
    BY <1>1 DEF TypeOK, QueuedOnce, NoRepeat
  <2>2. \A m \in Lane : queue'[m] = IF m = l THEN Append(queue[l], t) ELSE queue[m]
    BY <1>1 DEF TypeOK
  <2>3. /\ NoRepeat(Append(queue[l], t))
        /\ \A u \in Task : IsIn(u, Append(queue[l], t)) <=> u = t \/ IsIn(u, queue[l])
    BY <2>1, AppendElements
  <2>4. \A m \in Lane : NoRepeat(queue'[m])
    BY <2>1, <2>2, <2>3
  <2>5. ASSUME NEW m \in Lane, NEW u \in Task
        PROVE  (status'[u] = "queued" /\ laneOf'[u] = m) <=> IsIn(u, queue'[m])
    <3>1. CASE u = t
      BY <3>1, <1>1, <2>1, <2>2, <2>3 DEF TypeOK
    <3>2. CASE u # t
      BY <3>2, <1>1, <2>2, <2>3 DEF TypeOK, QueuedOnce
    <3> QED BY <3>1, <3>2
  <2> QED BY <2>4, <2>5 DEF QueuedOnce, NoRepeat
<1>3. FramesOK'
  <2>1. \A u \in Task : status[u] = "settling" => status'[u] = "settling"
    BY <1>1 DEF TypeOK
  <2>2. \A i \in 1..Len(stack) : stack[i] \in Frame
    BY DEF TypeOK
  <2>3. \A i \in 1..Len(stack') :
          \/ i \in 1..Len(stack) /\ stack'[i] = stack[i]
          \/ stack'[i].task = NoTask
    BY <1>1, DrainLaneStep
  <2> QED BY <2>1, <2>2, <2>3 DEF FramesOK, Frame
<1>4. ActiveCounts'
  <2>1. \A m \in Lane : Running(m)' = Running(m)
    BY <1>1 DEF Running, TypeOK
  <2> QED BY <1>1, <2>1, SameRunning
<1>5. WakeupOK'
  <2>1. \A m \in Lane \ {l} : HasRoom(m)' <=> HasRoom(m)
    BY <1>1 DEF HasRoom, TypeOK
  <2> QED BY <1>1, <2>1, DrainLaneStep DEF WakeupOK
<1> QED BY <1>2, <1>3, <1>4, <1>5

\* Starting the oldest entry of a lane keeps the invariant.
LEMMA PumpStartStep ==
  ASSUME IndInv, TypeOK', NEW l \in Lane, PumpStart(l)
  PROVE  IndInv'
PROOF
<1> USE DEF IndInv
<1> DEFINE t == Head(queue[l])
           f == [kind |-> "prefix", lane |-> l, task |-> t, outcome |-> "resolved"]
<1>1. /\ queue[l] # <<>>
      /\ stack # <<>>
      /\ Top.kind = "pump"
      /\ Top.lane = l
      /\ status' = [status EXCEPT ![t] = "running"]
      /\ stack' = Append(stack, f)
      /\ queue' = [queue EXCEPT ![l] = Tail(@)]
      /\ active' = [active EXCEPT ![l] = @ + 1]
      /\ UNCHANGED <<maxConcurrent, draining, laneOf, awaits>>
  BY DEF PumpStart, HasRoom, InPump
<1>2. \A m \in Lane : queue[m] \in Seq(Task) /\ NoRepeat(queue[m])
  BY DEF TypeOK, QueuedOnce, NoRepeat
<1>3. /\ t \in Task /\ IsIn(t, queue[l])
      /\ NoRepeat(Tail(queue[l]))
      /\ \A u \in Task : IsIn(u, Tail(queue[l])) <=> u # t /\ IsIn(u, queue[l])
  BY <1>1, <1>2, TailElements
<1>4. status[t] = "queued" /\ laneOf[t] = l
  BY <1>3 DEF QueuedOnce
<1> HIDE DEF t
<1>5. f \in Frame
  BY <1>3 DEF Frame, Settled
<1>6. QueuedOnce'
  <2>1. \A m \in Lane : queue'[m] = IF m = l THEN Tail(queue[l]) ELSE queue[m]
    BY <1>1 DEF TypeOK
  <2>2. \A m \in Lane : NoRepeat(queue'[m])
    BY <1>2, <1>3, <2>1
  <2>3. ASSUME NEW m \in Lane, NEW u \in Task
        PROVE  (status'[u] = "queued" /\ laneOf'[u] = m) <=> IsIn(u, queue'[m])
    <3>1. (status[u] = "queued" /\ laneOf[u] = m) <=> IsIn(u, queue[m])
      BY DEF QueuedOnce
    <3>2. status'[u] = (IF u = t THEN "running" ELSE status[u]) /\ laneOf'[u] = laneOf[u]
      BY <1>1, <1>3 DEF TypeOK
    <3>3. CASE m = l
      BY <3>1, <3>2, <3>3, <1>3, <2>1
    <3>4. CASE m # l
      BY <3>1, <3>2, <3>4, <1>4, <2>1
    <3> QED BY <3>3, <3>4
  <2> QED BY <2>2, <2>3 DEF QueuedOnce, NoRepeat
<1>7. FramesOK'
  <2>0. stack' = Append(stack, f) /\ Len(stack) \in Nat
    BY <1>1 DEF TypeOK
  <2>1. /\ Len(stack) \in Nat
        /\ Len(stack') = Len(stack) + 1
        /\ \A i \in 1..Len(stack) : stack'[i] = stack[i]
        /\ stack'[Len(stack) + 1] = f
    BY <2>0, <1>5, PushPumped
  <2>2. \A u \in Task : status[u] = "settling" => status'[u] = "settling"
    BY <1>1, <1>3, <1>4 DEF TypeOK
  <2>3. \A i \in 1..Len(stack) : stack[i] \in Frame
    BY DEF TypeOK
  <2> QED BY <2>1, <2>2, <2>3 DEF FramesOK, Frame
<1>8. ActiveCounts'
  <2>1. Running(l)' = Running(l) \cup {t} /\ t \notin Running(l)
    BY <1>1, <1>3, <1>4 DEF Running, TypeOK
  <2>2. \A m \in Lane \ {l} : Running(m)' = Running(m)
    BY <1>1, <1>3, <1>4 DEF Running, TypeOK
  <2>3. Cardinality(Running(l)') = Cardinality(Running(l)) + 1
    BY <2>1, RunningFinite, FS_AddElement
  <2> QED BY <1>1, <2>2, <2>3 DEF ActiveCounts, TypeOK
<1>9. WakeupOK'
  <2>1. Pumped(l)
    BY <1>1, PopProperties DEF Pumped, Top
  <2>2. \A m \in Lane \ {l} : HasRoom(m)' <=> HasRoom(m)
    BY <1>1 DEF HasRoom, TypeOK
  <2> QED BY <1>1, <1>5, <2>1, <2>2, PushPumped DEF WakeupOK
<1> QED BY <1>6, <1>7, <1>8, <1>9

\* Popping a frame: only the lane of that frame can lose its pump.
LEMMA PopStep ==
  ASSUME TypeOK, stack # <<>>, stack' = Pop
  PROVE  /\ Len(stack') = Len(stack) - 1
         /\ \A i \in 1..Len(stack') : i \in 1..Len(stack) /\ stack'[i] = stack[i]
         /\ \A l \in Lane : Pumped(l) /\ ~(Top.kind = "pump" /\ Top.lane = l) => Pumped(l)'
PROOF
<1>1. /\ Len(stack) \in Nat \ {0}
      /\ Len(stack') = Len(stack) - 1
      /\ \A i \in 1..(Len(stack) - 1) : stack'[i] = stack[i]
  BY PopProperties
<1> QED BY <1>1 DEF Pumped, Top

\* The end of pump's loop keeps the invariant.
LEMMA PumpReturnStep ==
  ASSUME IndInv, TypeOK', NEW l \in Lane, PumpReturn(l)
  PROVE  IndInv'
PROOF
<1> USE DEF IndInv
<1>1. /\ stack # <<>> /\ Top.kind = "pump" /\ Top.lane = l
      /\ ~HasRoom(l)
      /\ draining' = [draining EXCEPT ![l] = FALSE]
      /\ stack' = Pop
      /\ UNCHANGED <<queue, active, maxConcurrent, laneOf, awaits>>
  BY DEF PumpReturn, InPump
<1>2. Top \in Frame /\ Len(stack) \in Nat \ {0}
  BY <1>1, PopProperties
<1>3. CASE Top.task = NoTask
  <2>1. UNCHANGED status
    BY <1>3 DEF PumpReturn
  <2>2. QueuedOnce'
    BY <1>1, <2>1 DEF QueuedOnce, IsIn
  <2>3. FramesOK'
    BY <1>1, <2>1, PopStep DEF FramesOK
  <2>4. ActiveCounts'
    BY <1>1, <2>1 DEF ActiveCounts, Running
  <2>5. WakeupOK'
    BY <1>1, PopStep DEF WakeupOK, HasRoom, TypeOK
  <2> QED BY <2>2, <2>3, <2>4, <2>5
<1>4. CASE Top.task # NoTask
  <2>1. /\ Top.task \in Task
        /\ status' = [status EXCEPT ![Top.task] = Top.outcome]
        /\ Top.outcome \in Settled
    BY <1>1, <1>2, <1>4 DEF PumpReturn, Frame
  <2>2. Len(stack) = 1 /\ status[Top.task] = "settling"
    <3>1. Len(stack) \in 1..Len(stack)
      BY <1>2
    <3> QED BY <1>1, <1>4, <3>1 DEF FramesOK, Top
  <2>3. QueuedOnce'
    <3>1. \A u \in Task : status'[u] = "queued" <=> status[u] = "queued"
      BY <2>1, <2>2 DEF TypeOK, Settled
    <3> QED BY <1>1, <3>1 DEF QueuedOnce, IsIn
  <2>4. FramesOK'
    BY <1>1, <2>2, PopStep DEF FramesOK
  <2>5. ActiveCounts'
    <3>1. \A m \in Lane : Running(m)' = Running(m)
      BY <1>1, <2>1, <2>2 DEF Running, TypeOK, Settled
    <3> QED BY <1>1, <3>1, SameRunning
  <2>6. WakeupOK'
    BY <1>1, PopStep DEF WakeupOK, HasRoom, TypeOK
  <2> QED BY <2>3, <2>4, <2>5, <2>6
<1> QED BY <1>3, <1>4

\* The return of a task's prefix keeps the invariant.
LEMMA PrefixReturnStep ==
  ASSUME IndInv, TypeOK', PrefixReturn
  PROVE  IndInv'
PROOF
<1> USE DEF IndInv
<1>1. /\ stack # <<>> /\ Top.kind = "prefix"
      /\ stack' = Pop
      /\ UNCHANGED <<queue, active, maxConcurrent, draining, status, laneOf, awaits>>
  BY DEF PrefixReturn, InPrefix, laneVars
<1>2. QueuedOnce'
  BY <1>1 DEF QueuedOnce, IsIn
<1>3. FramesOK'
  BY <1>1, PopStep DEF FramesOK
<1>4. ActiveCounts'
  BY <1>1 DEF ActiveCounts, Running
<1>5. WakeupOK'
  BY <1>1, PopStep DEF WakeupOK, HasRoom
<1> QED BY <1>2, <1>3, <1>4, <1>5

\* A finished task gives its slot back and pumps: the invariant holds again.
LEMMA CompleteStep ==
  ASSUME IndInv, TypeOK', NEW t \in Task, NEW outcome \in Settled, Complete(t, outcome)
  PROVE  IndInv'
PROOF
<1> USE DEF IndInv
<1> DEFINE l == laneOf[t]
           f == [kind |-> "pump", lane |-> l, task |-> t, outcome |-> outcome]
<1>1. /\ stack = <<>> /\ status[t] = "running"
      /\ active' = [active EXCEPT ![l] = @ - 1]
      /\ status' = [status EXCEPT ![t] = "settling"]
      /\ stack' = <<f>>
      /\ UNCHANGED <<queue, maxConcurrent, draining, laneOf, awaits>>
  BY DEF Complete, Idle
<1>2. l \in Lane
  BY DEF TypeOK
<1>3. Len(stack') = 1 /\ stack'[1] = f
  BY <1>1
<1>4. QueuedOnce'
  <2>1. \A u \in Task : status'[u] = "queued" <=> status[u] = "queued"
    BY <1>1 DEF TypeOK
  <2> QED BY <1>1, <2>1 DEF QueuedOnce, IsIn
<1>5. FramesOK'
  BY <1>1, <1>3 DEF FramesOK, TypeOK
<1>6. ActiveCounts'
  <2>1. Running(l)' = Running(l) \ {t} /\ t \in Running(l)
    BY <1>1 DEF Running, TypeOK
  <2>2. \A m \in Lane \ {l} : Running(m)' = Running(m)
    BY <1>1 DEF Running, TypeOK
  <2>3. Cardinality(Running(l)') = Cardinality(Running(l)) - 1
    BY <1>2, <2>1, RunningFinite, FS_RemoveElement
  <2> QED BY <1>1, <1>2, <2>2, <2>3 DEF ActiveCounts, TypeOK
<1>7. WakeupOK'
  <2>1. \A m \in Lane : ~HasRoom(m) /\ ~draining[m]
    BY <1>1 DEF WakeupOK, Pumped
  <2>2. \E i \in 1..Len(stack') : stack'[i].kind = "pump" /\ stack'[i].lane = laneOf[t]
    BY <1>3
  <2>3. ASSUME NEW m \in Lane, m # laneOf[t]
        PROVE  ~HasRoom(m)' /\ ~draining'[m]
    BY <1>1, <2>1, <2>3 DEF HasRoom, TypeOK
  <2> QED BY <2>2, <2>3 DEF WakeupOK, Pumped
<1> QED BY <1>4, <1>5, <1>6, <1>7

\* A change of a lane's limit keeps the invariant.
LEMMA SetConcurrencyStep ==
  ASSUME IndInv, TypeOK', NEW l \in Lane, NEW n \in Setting, SetCommandLaneConcurrency(l, n)
  PROVE  IndInv'
PROOF
<1> USE DEF IndInv
<1>1. /\ \A m \in Lane \ {l} : maxConcurrent'[m] = maxConcurrent[m]
      /\ DrainLane(l)
      /\ UNCHANGED <<queue, active, status, laneOf, awaits>>
  BY DEF SetCommandLaneConcurrency, TypeOK
<1>2. QueuedOnce'
  BY <1>1 DEF QueuedOnce, IsIn
<1>3. FramesOK'
  <2>1. \A i \in 1..Len(stack) : stack[i] \in Frame
    BY DEF TypeOK
  <2>2. \A i \in 1..Len(stack') :
          \/ i \in 1..Len(stack) /\ stack'[i] = stack[i]
          \/ stack'[i].task = NoTask
    BY <1>1, DrainLaneStep
  <2> QED BY <1>1, <2>1, <2>2 DEF FramesOK
<1>4. ActiveCounts'
  BY <1>1 DEF ActiveCounts, Running
<1>5. WakeupOK'
  <2>1. \A m \in Lane \ {l} : HasRoom(m)' <=> HasRoom(m)
    BY <1>1 DEF HasRoom
  <2> QED BY <1>1, <2>1, DrainLaneStep DEF WakeupOK
<1> QED BY <1>2, <1>3, <1>4, <1>5

\* Clearing a lane keeps the invariant.
LEMMA ClearStep ==
  ASSUME IndInv, TypeOK', NEW l \in Lane, ClearCommandLane(l)
  PROVE  IndInv'
PROOF
<1> USE DEF IndInv
<1>1. /\ stack = <<>>
      /\ queue' = [queue EXCEPT ![l] = <<>>]
      /\ status' = [t \in Task |->
                      IF laneOf[t] = l /\ status[t] = "queued" THEN "cleared" ELSE status[t]]
      /\ UNCHANGED <<active, maxConcurrent, draining, stack, laneOf, awaits>>
  BY DEF ClearCommandLane, Idle
<1>2. QueuedOnce'
  <2>1. \A m \in Lane : queue'[m] = IF m = l THEN <<>> ELSE queue[m]
    BY <1>1 DEF TypeOK
  <2>2. ASSUME NEW m \in Lane, NEW u \in Task
        PROVE  (status'[u] = "queued" /\ laneOf'[u] = m) <=> IsIn(u, queue'[m])
    <3>1. CASE m = l
      BY <3>1, <1>1, <2>1 DEF IsIn
    <3>2. CASE m # l
      BY <3>2, <1>1, <2>1 DEF QueuedOnce, TypeOK
    <3> QED BY <3>1, <3>2
  <2> QED BY <2>1, <2>2 DEF QueuedOnce
<1>3. FramesOK'
  BY <1>1 DEF FramesOK
<1>4. ActiveCounts'
  <2>1. \A m \in Lane : Running(m)' = Running(m)
    BY <1>1 DEF Running
  <2> QED BY <1>1, <2>1, SameRunning
<1>5. WakeupOK'
  BY <1>1 DEF WakeupOK, HasRoom, Pumped, TypeOK
<1> QED BY <1>2, <1>3, <1>4, <1>5

\* The inductive invariant holds in every reachable state.
THEOREM Inductive == Spec => []IndInv
PROOF
<1>1. Init => IndInv
  <2> SUFFICES ASSUME Init PROVE IndInv
    OBVIOUS
  <2>1. TypeOK
    BY LaneAssumption DEF Init, TypeOK, Status
  <2>2. QueuedOnce
    BY DEF Init, QueuedOnce, IsIn
  <2>3. ActiveCounts
    <3>1. \A l \in Lane : Running(l) = {}
      BY DEF Init, Running
    <3> QED BY <3>1, FS_EmptySet DEF Init, ActiveCounts
  <2>4. FramesOK /\ WakeupOK
    BY DEF Init, FramesOK, WakeupOK, HasRoom
  <2> QED BY <2>1, <2>2, <2>3, <2>4 DEF IndInv
<1>2. IndInv /\ TypeOK' /\ [Next]_vars => IndInv'
  <2> SUFFICES ASSUME IndInv, TypeOK', [Next]_vars PROVE IndInv'
    OBVIOUS
  <2>1. CASE \E t \in Task, l \in Lane : EnqueueFromEvent(t, l)
    BY <2>1, EnqueueStep DEF EnqueueFromEvent
  <2>2. CASE \E t \in Task, l \in Lane, w \in BOOLEAN : EnqueueFromTask(t, l, w)
    BY <2>2, EnqueueStep DEF EnqueueFromTask
  <2>3. CASE \E l \in Lane : PumpStart(l)
    BY <2>3, PumpStartStep
  <2>4. CASE \E l \in Lane : PumpReturn(l)
    BY <2>4, PumpReturnStep
  <2>5. CASE \E l \in Lane, n \in Setting : SetCommandLaneConcurrency(l, n)
    BY <2>5, SetConcurrencyStep
  <2>6. CASE \E l \in Lane : ClearCommandLane(l)
    BY <2>6, ClearStep
  <2>7. CASE PrefixReturn
    BY <2>7, PrefixReturnStep
  <2>8. CASE \E t \in Task, outcome \in Settled : Complete(t, outcome)
    BY <2>8, CompleteStep
  <2>9. CASE UNCHANGED vars
    BY <2>9 DEF vars, IndInv, TypeOK, QueuedOnce, IsIn, FramesOK, ActiveCounts, Running,
                WakeupOK, HasRoom, Pumped
  <2> QED BY <2>1, <2>2, <2>3, <2>4, <2>5, <2>6, <2>7, <2>8, <2>9 DEF Next
<1> QED BY <1>1, <1>2, TypeCorrect, PTL DEF Spec

\* Admission counts the tasks that really run, for any nesting and any clears.
THEOREM CountsCorrect == Spec => []ActiveCounts
BY Inductive, PTL DEF IndInv

\* No lane sits on work it has room for once the synchronous stretch is over.
THEOREM WakeupCorrect == Spec => []NoLostWakeup
PROOF
<1>1. IndInv => NoLostWakeup
  BY DEF IndInv, WakeupOK, Pumped, NoLostWakeup, Idle
<1> QED BY <1>1, Inductive, PTL

\* The queues and the tasks' statuses never disagree.
THEOREM QueueCorrect == Spec => []QueuedOnce
BY Inductive, PTL DEF IndInv

-----------------------------------------------------------------------------
(***************************************************************************)
(* CommandQueue implements LaneExecutor: a step either moves one lane of   *)
(* the executor or leaves all of them alone.                               *)
(***************************************************************************)
RunningMap == [l \in Lane |-> Running(l)]

\* Where the running sets and the limits do not change, neither does the map.
LEMMA SameMap ==
  ASSUME \A l \in Lane : Running(l)' = Running(l)
  PROVE  RunningMap' = RunningMap
BY DEF RunningMap

LEMMA EnqueueSimulates ==
  ASSUME IndInv, NEW t \in Task, NEW l \in Lane, Enqueue(t, l)
  PROVE  Executor!Submit(l, t)
PROOF
<1>1. \A m \in Lane : Running(m)' = Running(m)
  BY DEF Enqueue, IndInv, Running, TypeOK
<1> QED BY <1>1, SameMap DEF Enqueue, Executor!Submit, RunningMap

LEMMA PumpStartSimulates ==
  ASSUME IndInv, NEW l \in Lane, PumpStart(l)
  PROVE  Executor!Begin(l)
PROOF
<1> DEFINE t == Head(queue[l])
<1>1. queue[l] \in Seq(Task) /\ queue[l] # <<>> /\ NoRepeat(queue[l])
  BY DEF IndInv, TypeOK, QueuedOnce, NoRepeat, PumpStart, HasRoom
<1>2. t \in Task /\ status[t] = "queued" /\ laneOf[t] = l
  BY <1>1, TailElements DEF IndInv, QueuedOnce
<1>3. /\ status' = [status EXCEPT ![t] = "running"]
      /\ queue' = [queue EXCEPT ![l] = Tail(@)]
      /\ UNCHANGED <<maxConcurrent, laneOf>>
      /\ active[l] < maxConcurrent[l]
  BY DEF PumpStart, HasRoom
<1> HIDE DEF t
<1>4. \A m \in Lane : Running(m)' = IF m = l THEN Running(l) \cup {t} ELSE Running(m)
  BY <1>2, <1>3 DEF IndInv, Running, TypeOK
<1>5. RunningMap' = [RunningMap EXCEPT ![l] = @ \cup {t}]
  BY <1>4 DEF RunningMap
<1>6. Cardinality(RunningMap[l]) < maxConcurrent[l]
  BY <1>3 DEF IndInv, ActiveCounts, RunningMap
<1>7. Executor!Cardinality(RunningMap[l]) = Cardinality(RunningMap[l])
  BY DEF Executor!Cardinality, Cardinality, Executor!IsFiniteSet, IsFiniteSet
<1> QED BY <1>1, <1>3, <1>5, <1>6, <1>7 DEF Executor!Begin, RunningMap, t

LEMMA CompleteSimulates ==
  ASSUME IndInv, NEW t \in Task, NEW outcome \in Settled, Complete(t, outcome)
  PROVE  \E l \in Lane : Executor!Finish(l, t)
PROOF
<1>1. PICK l \in Lane : l = laneOf[t]
  BY DEF IndInv, TypeOK
<1>2. /\ status[t] = "running"
      /\ status' = [status EXCEPT ![t] = "settling"]
      /\ UNCHANGED <<queue, maxConcurrent, laneOf>>
  BY DEF Complete
<1>3. \A m \in Lane : Running(m)' = IF m = l THEN Running(l) \ {t} ELSE Running(m)
  BY <1>1, <1>2 DEF IndInv, Running, TypeOK
<1>4. RunningMap' = [RunningMap EXCEPT ![l] = @ \ {t}]
  BY <1>3 DEF RunningMap
<1>5. t \in RunningMap[l]
  BY <1>1, <1>2 DEF RunningMap, Running
<1> QED BY <1>2, <1>4, <1>5 DEF Executor!Finish, RunningMap

LEMMA SetConcurrencySimulates ==
  ASSUME IndInv, NEW l \in Lane, NEW n \in Setting, SetCommandLaneConcurrency(l, n)
  PROVE  Executor!SetLimit(l)
PROOF
<1>1. /\ maxConcurrent' = [maxConcurrent EXCEPT ![l] = IF n < 1 THEN 1 ELSE n]
      /\ UNCHANGED <<queue, status, laneOf>>
  BY DEF SetCommandLaneConcurrency
<1>2. (IF n < 1 THEN 1 ELSE n) \in Nat \ {0}
  BY SettingAssumption
<1>3. RunningMap' = RunningMap
  BY <1>1 DEF RunningMap, Running
<1> QED BY <1>1, <1>2, <1>3 DEF Executor!SetLimit, RunningMap, IndInv, TypeOK

LEMMA ClearSimulates ==
  ASSUME IndInv, NEW l \in Lane, ClearCommandLane(l)
  PROVE  Executor!Discard(l)
PROOF
<1>1. \A m \in Lane : Running(m)' = Running(m)
  BY DEF ClearCommandLane, IndInv, Running, TypeOK
<1> QED BY <1>1, SameMap DEF ClearCommandLane, Executor!Discard, RunningMap

LEMMA PumpReturnSimulates ==
  ASSUME IndInv, NEW l \in Lane, PumpReturn(l)
  PROVE  UNCHANGED Executor!vars
PROOF
<1>1. UNCHANGED <<queue, maxConcurrent, laneOf>>
  BY DEF PumpReturn
<1>2. \A u \in Task : (status'[u] = "running") <=> (status[u] = "running")
  <2>1. CASE Top.task = NoTask
    BY <2>1 DEF PumpReturn
  <2>2. CASE Top.task # NoTask
    <3>1. stack # <<>> /\ Top.kind = "pump" /\ status' = [status EXCEPT ![Top.task] = Top.outcome]
      BY <2>2 DEF PumpReturn, InPump
    <3>2. Top \in Frame /\ Len(stack) \in 1..Len(stack)
      BY <3>1, PopProperties DEF IndInv
    <3>3. Top.outcome \in Settled /\ status[Top.task] = "settling"
      BY <2>2, <3>1, <3>2 DEF IndInv, FramesOK, Top, Frame
    <3> QED BY <3>1, <3>3 DEF IndInv, TypeOK, Settled
  <2> QED BY <2>1, <2>2
<1>3. \A m \in Lane : Running(m)' = Running(m)
  BY <1>1, <1>2 DEF Running
<1> QED BY <1>1, <1>3, SameMap DEF Executor!vars, RunningMap

\* Every behaviour of the lanes is one the abstract executor allows: tasks of a
\* lane start in order and never beyond the limit in force when they start.
THEOREM Implements == Spec => Executor!Safety
PROOF
<1>1. Init => Executor!Init
  <2> SUFFICES ASSUME Init PROVE Executor!Init
    OBVIOUS
  <2>1. \A l \in Lane : Running(l) = {}
    BY DEF Init, Running
  <2> QED BY <2>1 DEF Init, Executor!Init
<1>2. IndInv /\ [Next]_vars => [Executor!Next]_(Executor!vars)
  <2> SUFFICES ASSUME IndInv, [Next]_vars PROVE [Executor!Next]_(Executor!vars)
    OBVIOUS
  <2>1. CASE \E t \in Task, l \in Lane : Enqueue(t, l)
    BY <2>1, EnqueueSimulates DEF Executor!Next
  <2>2. CASE \E l \in Lane : PumpStart(l)
    BY <2>2, PumpStartSimulates DEF Executor!Next
  <2>3. CASE \E l \in Lane : PumpReturn(l)
    BY <2>3, PumpReturnSimulates
  <2>4. CASE \E l \in Lane, n \in Setting : SetCommandLaneConcurrency(l, n)
    BY <2>4, SetConcurrencySimulates DEF Executor!Next
  <2>5. CASE \E l \in Lane : ClearCommandLane(l)
    BY <2>5, ClearSimulates DEF Executor!Next
  <2>6. CASE PrefixReturn \/ UNCHANGED vars
    BY <2>6 DEF PrefixReturn, laneVars, vars, Executor!vars, Running
  <2>7. CASE \E t \in Task, outcome \in Settled : Complete(t, outcome)
    BY <2>7, CompleteSimulates DEF Executor!Next
  <2> QED BY <2>1, <2>2, <2>3, <2>4, <2>5, <2>6, <2>7
          DEF Next, EnqueueFromEvent, EnqueueFromTask
<1> QED BY <1>1, <1>2, Inductive, PTL DEF Spec, Executor!Safety
=============================================================================
