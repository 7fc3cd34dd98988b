---------------------------- MODULE LaneExecutor ----------------------------
(***************************************************************************)
(* What a command lane promises its callers: tasks of one lane start in    *)
(* the order they were submitted, never more of them at once than the      *)
(* lane's limit at the moment of the start, and a lane with free capacity  *)
(* does not sit on waiting work.  CommandQueue is shown to implement it.   *)
(***************************************************************************)
EXTENDS Naturals, Sequences, FiniteSets

CONSTANTS Lane, Task

VARIABLES
  waiting,  \* [Lane -> Seq(Task)]    submitted and not started, oldest first
  running,  \* [Lane -> SUBSET Task]  started and not finished
  limit     \* [Lane -> Nat]          how many may run when one is started

vars == <<waiting, running, limit>>

Init ==
  /\ waiting = [l \in Lane |-> <<>>]
  /\ running = [l \in Lane |-> {}]
  /\ limit = [l \in Lane |-> 1]

Submit(l, t) ==
  /\ waiting' = [waiting EXCEPT ![l] = Append(@, t)]
  /\ UNCHANGED <<running, limit>>

Begin(l) ==
  /\ waiting[l] # <<>>
  /\ Cardinality(running[l]) < limit[l]
  /\ waiting' = [waiting EXCEPT ![l] = Tail(@)]
  /\ running' = [running EXCEPT ![l] = @ \cup {Head(waiting[l])}]
  /\ UNCHANGED limit

Finish(l, t) ==
  /\ t \in running[l]
  /\ running' = [running EXCEPT ![l] = @ \ {t}]
  /\ UNCHANGED <<waiting, limit>>

SetLimit(l) ==
  /\ limit'[l] \in Nat \ {0}
  /\ limit' = [limit EXCEPT ![l] = limit'[l]]
  /\ UNCHANGED <<waiting, running>>

Discard(l) ==
  /\ waiting' = [waiting EXCEPT ![l] = <<>>]
  /\ UNCHANGED <<running, limit>>

Next ==
  \E l \in Lane :
    \/ \E t \in Task : Submit(l, t) \/ Finish(l, t)
    \/ Begin(l)
    \/ SetLimit(l)
    \/ Discard(l)

Safety == Init /\ [][Next]_vars

Spec == Safety /\ \A l \in Lane : WF_vars(Begin(l))
=============================================================================
