-------------------------- MODULE SubagentRegistry --------------------------
(***************************************************************************)
(* src/src/agents/subagent-registry.ts: the runs that sessions_spawn has   *)
(* started, kept in memory and on disk.  Whoever first learns that a run   *)
(* has ended - the lifecycle listener, the agent.wait call or the resume   *)
(* after a restart - claims its cleanup and announces the result to the    *)
(* requester (subagent-announce.ts), directly or through AnnounceQueue.    *)
(* The subagents of one requester session are modelled; those outside      *)
(* Tracked appear with their announcements only.                           *)
(***************************************************************************)
EXTENDS AnnounceQueue

CONSTANTS
  Tracked,     \* runs whose life in the registry is modelled, a subset of Run
  Absent,      \* no entry under the run id
  Limit,       \* runningCount at which sessions_spawn refuses
  MaxCrashes,  \* bound on crashes of the gateway process
  Disturb      \* what else happens: subset of {"stop", "archive", "retry", "fail", "disk"}

ASSUME TrackedAssumption == Tracked \subseteq Run /\ Absent \notin Run
ASSUME LimitAssumption == Limit \in Nat /\ MaxCrashes \in Nat

VARIABLES
  up,            \* is the gateway process running
  subagentRuns,  \* [Run -> Entry \cup {Absent}] in memory
  disk,          \* the same, in runs.json
  sweeping,      \* is a sweep out that has removed entries in memory only
  unsaved,       \* history: runs that runs.json has wrong since the last save failed
  spawn,         \* [Run -> {"none", "calling", "done"}] the sessions_spawn call
  runningCount,  \* of the requester's budget
  child,         \* [Run -> {"none", "running", "over"}] the subagent itself
  retried,       \* [Run -> BOOLEAN] has it ended an attempt and gone on
  cached,        \* [Run -> BOOLEAN] is an end in agentRunCache
  waiter,        \* [Run -> {"none", "waiting", "answered"}] the registry's agent.wait
  flows,         \* [Run -> [Stage -> Nat]] announce flows under way
  active,        \* is an embedded run of the requester's session active
  lost,          \* history: runs whose announcement met a failure or a removal
  doubted,       \* history: runs announced by a call that threw after it was heard
  orphans,       \* history: runs claimed, and not done with, when the process died
  forgotten,     \* history: runs that were unsaved when the process died
  crashes

registryVars == <<subagentRuns, disk, sweeping, unsaved>>
childVars == <<spawn, runningCount, child, retried, cached>>
historyVars == <<lost, doubted, orphans, forgotten, crashes>>
vars == <<queue, pc, forced, batch, fate, heard, up, subagentRuns, disk, sweeping, unsaved,
          spawn, runningCount, child, retried, cached, waiter, flows, active, lost, doubted,
          orphans, forgotten, crashes>>

\* What becomes of the child's session afterwards.
Cleanup == {"keep", "delete"}
Entry == [cleanup : Cleanup, ended : BOOLEAN, handled : BOOLEAN, completed : BOOLEAN]
NewEntry(c) == [cleanup |-> c, ended |-> FALSE, handled |-> FALSE, completed |-> FALSE]
Stage == {"reading", "sending", "announced", "failed"}
NoFlow == [s \in Stage |-> 0]

Alive == up /\ pc # "spin"
Known(r) == subagentRuns[r] # Absent
ToAll(v) == [r \in Run |-> v]

TypeOK ==
  /\ QueueTypeOK
  /\ up \in BOOLEAN /\ sweeping \in BOOLEAN /\ active \in BOOLEAN
  /\ subagentRuns \in [Run -> Entry \cup {Absent}] /\ disk \in [Run -> Entry \cup {Absent}]
  /\ spawn \in [Run -> {"none", "calling", "done"}]
  /\ child \in [Run -> {"none", "running", "over"}]
  /\ retried \in [Run -> BOOLEAN] /\ cached \in [Run -> BOOLEAN]
  /\ waiter \in [Run -> {"none", "waiting", "answered"}]
  /\ flows \in [Run -> [Stage -> Nat]]
  /\ runningCount \in Nat /\ crashes \in 0 .. MaxCrashes
  /\ lost \subseteq Run /\ doubted \subseteq Run /\ orphans \subseteq Run
  /\ unsaved \subseteq Run /\ forgotten \subseteq Run

Init ==
  /\ QueueInit
  /\ up = TRUE
  /\ subagentRuns = ToAll(Absent) /\ disk = ToAll(Absent)
  /\ sweeping = FALSE
  /\ spawn = ToAll("none") /\ runningCount = 0
  /\ child = ToAll("none") /\ retried = ToAll(FALSE) /\ cached = ToAll(FALSE)
  /\ waiter = ToAll("none")
  /\ flows = ToAll(NoFlow)
  /\ active = FALSE
  /\ lost = {} /\ doubted = {} /\ orphans = {} /\ crashes = 0
  /\ unsaved = {} /\ forgotten = {}

\* persistSubagentRuns with each of the maps of earlier, then with memory as the
\* step leaves it.  A save that fails is ignored; it leaves the file as it was, or
\* cut short and unreadable.  Bound: saves fail only as long as a crash may follow,
\* since nothing but a restart reads the file.
Persist(earlier) ==
  LET failing == IF "disk" \in Disturb /\ crashes < MaxCrashes
                   THEN earlier \cup {disk, ToAll(Absent)} ELSE {}
  IN /\ disk' \in failing \cup {subagentRuns'}
     /\ unsaved' = {r \in Run : disk'[r] # subagentRuns'[r]}

-----------------------------------------------------------------------------
(***************************************************************************)
(* Spawning, and the end of the subagent.                                  *)
(***************************************************************************)
\* sessions_spawn up to the agent call, which starts the child.
Spawn(r) ==
  /\ Alive /\ r \in Tracked /\ spawn[r] = "none"
  /\ runningCount < Limit
  /\ spawn' = [spawn EXCEPT ![r] = "calling"]
  /\ child' = [child EXCEPT ![r] = "running"]
  /\ UNCHANGED <<queueVars, registryVars, up, runningCount, retried, cached, waiter, flows,
                 active, historyVars>>

\* Mutant: agent.wait does not look at runs that ended before the call.
WaitAfresh(r) == "waiting"

\* waitForAgentJob, called: an end in the cache is answered at once.
AskWait(r) == IF cached[r] THEN "answered" ELSE "waiting"

\* registerSubagentRun and incrementSubagentSpawnCount, once the agent call answers.
Register(r, c) ==
  /\ Alive /\ spawn[r] = "calling"
  /\ spawn' = [spawn EXCEPT ![r] = "done"]
  /\ subagentRuns' = [subagentRuns EXCEPT ![r] = NewEntry(c)]
  /\ Persist({})
  /\ waiter' = [waiter EXCEPT ![r] = AskWait(r)]
  /\ runningCount' = runningCount + 1
  /\ UNCHANGED <<queueVars, up, sweeping, child, retried, cached, flows, active, historyVars>>

\* Mutant: whoever learns of the end announces it.
AlwaysClaim(e) == ~e.completed

\* beginSubagentCleanup.
CanClaim(e) == ~e.completed /\ ~e.handled

Claimed(e) == IF CanClaim(e) THEN [e EXCEPT !.handled = TRUE] ELSE e

\* An end is learnt of: it is recorded, the cleanup claimed and the flow started.
\* Both the end and the claim are saved.
Learn(r) ==
  LET e == [subagentRuns[r] EXCEPT !.ended = TRUE]
  IN IF Known(r)
       THEN /\ subagentRuns' = [subagentRuns EXCEPT ![r] = Claimed(e)]
            /\ Persist({[subagentRuns EXCEPT ![r] = e]})
            /\ flows' = IF CanClaim(e) THEN [flows EXCEPT ![r].reading = @ + 1] ELSE flows
       ELSE UNCHANGED <<subagentRuns, disk, unsaved, flows>>

\* The listener saves the start of an attempt.
ChildStarts(r) ==
  /\ Alive /\ child[r] = "running" /\ Known(r)
  /\ UNCHANGED subagentRuns
  /\ Persist({})
  /\ UNCHANGED <<queueVars, up, sweeping, childVars, waiter, flows, active, historyVars>>

\* A lifecycle end or error of the child reaches agent-job and the listener; an
\* attempt that is retried, compacted or sent to a fallback model ends likewise.
ChildEvent(r, last) ==
  /\ Alive /\ child[r] = "running"
  /\ last \/ ("retry" \in Disturb /\ ~retried[r])
  /\ child' = IF last THEN [child EXCEPT ![r] = "over"] ELSE child
  /\ retried' = [retried EXCEPT ![r] = ~last]
  /\ cached' = [cached EXCEPT ![r] = TRUE]
  /\ waiter' = IF waiter[r] = "waiting" THEN [waiter EXCEPT ![r] = "answered"] ELSE waiter
  /\ Learn(r)
  /\ UNCHANGED <<queueVars, up, sweeping, spawn, runningCount, active, historyVars>>

\* waitForSubagentCompletion goes on with the answer.
WaitReturns(r) ==
  /\ Alive /\ waiter[r] = "answered"
  /\ waiter' = [waiter EXCEPT ![r] = "none"]
  /\ Learn(r)
  /\ UNCHANGED <<queueVars, up, sweeping, childVars, active, historyVars>>

\* agent.wait times out, and nothing follows.
WaitTimesOut(r) ==
  /\ Alive /\ waiter[r] = "waiting"
  /\ waiter' = [waiter EXCEPT ![r] = "none"]
  /\ UNCHANGED <<queueVars, registryVars, up, childVars, flows, active, historyVars>>

-----------------------------------------------------------------------------
(***************************************************************************)
(* runSubagentAnnounceFlow and what follows it.                            *)
(***************************************************************************)
Move(r, from, to) ==
  /\ flows[r][from] > 0
  /\ flows' = [flows EXCEPT ![r][from] = @ - 1, ![r][to] = @ + 1]

\* The answer of enqueueAnnounce is not looked at.
FlowQueues(r, s) ==
  /\ Alive /\ active
  /\ Move(r, "reading", "announced")
  /\ EnqueueAnnounce(r, s)
  /\ UNCHANGED <<registryVars, up, childVars, waiter, active, historyVars>>

\* queueEmbeddedPiMessage puts it into the active run.
FlowSteers(r, s) ==
  /\ Alive /\ active /\ s.mode = "steer"
  /\ Move(r, "reading", "announced")
  /\ heard' = [heard EXCEPT ![r] = @ + 1]
  /\ fate' = Mark({r}, "told")
  /\ UNCHANGED <<queue, pc, forced, batch, registryVars, up, childVars, waiter, active,
                 historyVars>>

\* The requester is idle: the announcement is an agent call of its own.
FlowSends(r) ==
  /\ Alive /\ ~active
  /\ Move(r, "reading", "sending")
  /\ UNCHANGED <<queueVars, registryVars, up, childVars, waiter, active, historyVars>>

\* Reading the child's reply or its usage throws.
FlowFails(r) ==
  /\ Alive /\ "fail" \in Disturb
  /\ Move(r, "reading", "failed")
  /\ lost' = lost \cup {r}
  /\ UNCHANGED <<queueVars, registryVars, up, childVars, waiter, active, doubted, orphans,
                 forgotten, crashes>>

DirectDone(r) ==
  /\ Alive
  /\ Move(r, "sending", "announced")
  /\ heard' = [heard EXCEPT ![r] = @ + 1]
  /\ fate' = Mark({r}, "told")
  /\ UNCHANGED <<queue, pc, forced, batch, registryVars, up, childVars, waiter, active,
                 historyVars>>

\* The call throws: refused, or not final within a minute although the agent got it.
DirectFails(r, told) ==
  /\ Alive /\ "fail" \in Disturb
  /\ Move(r, "sending", "failed")
  /\ heard' = [heard EXCEPT ![r] = @ + (IF told THEN 1 ELSE 0)]
  /\ lost' = lost \cup {r}
  /\ doubted' = IF told THEN doubted \cup {r} ELSE doubted
  /\ UNCHANGED <<queue, pc, forced, batch, fate, registryVars, up, childVars, waiter, active,
                 orphans, forgotten, crashes>>

\* Mutant: a failed announcement completes the cleanup.
CompleteAnyway(r, didAnnounce) ==
  IF subagentRuns[r].cleanup = "delete" THEN Absent ELSE [subagentRuns[r] EXCEPT !.completed = TRUE]

\* finalizeSubagentCleanup of an entry.
Finalized(r, didAnnounce) ==
  IF subagentRuns[r].cleanup = "delete" THEN Absent
  ELSE IF didAnnounce THEN [subagentRuns[r] EXCEPT !.completed = TRUE]
  ELSE [subagentRuns[r] EXCEPT !.handled = FALSE]

Finalize(r, stage) ==
  /\ Alive /\ stage \in {"announced", "failed"}
  /\ flows[r][stage] > 0
  /\ flows' = [flows EXCEPT ![r][stage] = @ - 1]
  /\ IF Known(r)
       THEN /\ subagentRuns' = [subagentRuns EXCEPT ![r] = Finalized(r, stage = "announced")]
            /\ Persist({})
       ELSE UNCHANGED <<subagentRuns, disk, unsaved>>
  /\ UNCHANGED <<queueVars, up, sweeping, childVars, waiter, active, historyVars>>

-----------------------------------------------------------------------------
(***************************************************************************)
(* Removal of entries.                                                     *)
(***************************************************************************)

\* subagents.stop: releaseSubagentRun.
Release(r) ==
  /\ Alive /\ "stop" \in Disturb /\ Known(r)
  /\ subagentRuns' = [subagentRuns EXCEPT ![r] = Absent]
  /\ Persist({})
  /\ lost' = lost \cup {r}
  /\ UNCHANGED <<queueVars, up, sweeping, childVars, waiter, flows, active, doubted, orphans,
                 forgotten, crashes>>

\* sweepSubagentRuns reaches an entry whose time is over.
Archive(r) ==
  /\ Alive /\ "archive" \in Disturb /\ Known(r)
  /\ subagentRuns' = [subagentRuns EXCEPT ![r] = Absent]
  /\ sweeping' = TRUE
  /\ lost' = lost \cup {r}
  /\ UNCHANGED <<queueVars, up, disk, unsaved, childVars, waiter, flows, active, doubted, orphans,
                 forgotten, crashes>>

\* The sessions are deleted, and the sweep persists what is left.
SweepEnds ==
  /\ Alive /\ sweeping
  /\ sweeping' = FALSE
  /\ UNCHANGED subagentRuns
  /\ Persist({})
  /\ UNCHANGED <<queueVars, up, childVars, waiter, flows, active, historyVars>>

-----------------------------------------------------------------------------
(***************************************************************************)
(* The requester, the drain, crashes and restarts.                         *)
(***************************************************************************)
RequesterTurn ==
  /\ Alive
  /\ active' = ~active
  /\ UNCHANGED <<queueVars, registryVars, up, childVars, waiter, flows, historyVars>>

Drain ==
  /\ Alive
  /\ Turn \/ SendDone \/ ("fail" \in Disturb /\ SendFails)
  /\ UNCHANGED <<registryVars, up, childVars, waiter, flows, active, historyVars>>

\* Another subagent's flow queues its announcement.
OtherQueues(r, s) ==
  /\ Alive /\ active /\ r \notin Tracked /\ fate[r] = "none"
  /\ EnqueueAnnounce(r, s)
  /\ UNCHANGED <<registryVars, up, childVars, waiter, flows, active, historyVars>>

Pending(e) == e # Absent /\ e.handled /\ ~e.completed

Crash ==
  /\ up /\ crashes < MaxCrashes
  /\ up' = FALSE /\ crashes' = crashes + 1
  /\ QueueLost
  /\ subagentRuns' = ToAll(Absent)
  /\ sweeping' = FALSE
  /\ spawn' = [r \in Run |-> IF spawn[r] = "calling" THEN "done" ELSE spawn[r]]
  /\ child' = [r \in Run |-> IF child[r] = "running" THEN "over" ELSE child[r]]
  /\ runningCount' = 0
  /\ cached' = ToAll(FALSE)
  /\ waiter' = ToAll("none")
  /\ flows' = ToAll(NoFlow)
  /\ active' = FALSE
  /\ lost' = lost \cup {r \in Run : spawn[r] # "none"}
  /\ orphans' = {r \in Run : Pending(disk[r])}
  /\ forgotten' = forgotten \cup unsaved /\ unsaved' = {}
  /\ UNCHANGED <<disk, retried, doubted>>

\* What memory holds once resumeSubagentRun has claimed the runs of rs.
Resumed(rs) == [r \in Run |-> IF r \in rs THEN Claimed(disk[r]) ELSE disk[r]]

\* restoreSubagentRunsOnce: ended runs are announced, the others waited for.
Restart ==
  /\ ~up
  /\ up' = TRUE
  /\ LET ended == {r \in Run : disk[r] # Absent /\ disk[r].ended /\ CanClaim(disk[r])}
     IN /\ subagentRuns' = Resumed(ended)
        /\ IF ended = {} THEN UNCHANGED <<disk, unsaved>>
                         ELSE Persist({Resumed(rs) : rs \in SUBSET ended})
        /\ flows' = [r \in Run |-> IF r \in ended THEN [NoFlow EXCEPT !.reading = 1] ELSE NoFlow]
        /\ waiter' = [r \in Run |->
                        IF disk[r] # Absent /\ ~disk[r].ended /\ ~disk[r].completed
                          THEN "waiting" ELSE "none"]
        /\ lost' = lost \ ended
  /\ UNCHANGED <<queueVars, sweeping, childVars, active, doubted, orphans, forgotten, crashes>>

RunStep(r) ==
  \/ Spawn(r) \/ \E c \in Cleanup : Register(r, c)
  \/ ChildStarts(r) \/ \E last \in BOOLEAN : ChildEvent(r, last)
  \/ WaitReturns(r) \/ WaitTimesOut(r)
  \/ \E s \in Settings : FlowQueues(r, s) \/ FlowSteers(r, s)
  \/ FlowSends(r) \/ FlowFails(r)
  \/ DirectDone(r) \/ \E told \in BOOLEAN : DirectFails(r, told)
  \/ \E stage \in Stage : Finalize(r, stage)
  \/ Release(r) \/ Archive(r)

Next ==
  \/ \E r \in Run : RunStep(r)
  \/ \E r \in Run, s \in Settings : OtherQueues(r, s)
  \/ SweepEnds \/ RequesterTurn \/ Drain
  \/ Crash \/ Restart

Spec == Init /\ [][Next]_vars

\* What does not depend on the environment alone: calls of the gateway and runs of
\* agents end or time out, callbacks and timers fire while the process lives.
FlowStep(r) ==
  \/ \E s \in Settings : FlowQueues(r, s) \/ FlowSteers(r, s)
  \/ FlowSends(r) \/ DirectDone(r)
  \/ \E stage \in Stage : Finalize(r, stage)

Work ==
  \/ Drain
  \/ \E r \in Tracked, c \in Cleanup : Register(r, c)
  \/ \E r \in Tracked : ChildEvent(r, TRUE) \/ WaitReturns(r) \/ FlowStep(r)

FairSpec == Spec /\ WF_vars(Work)

-----------------------------------------------------------------------------
FlowCount(r) == flows[r]["reading"] + flows[r]["sending"] + flows[r]["announced"]
                + flows[r]["failed"]

\* Of the listener, the waiting call and the resume after a restart, exactly one
\* announces: an entry has one flow under way while its cleanup is claimed and
\* none otherwise, except for those that were claimed when the process died.
ClaimHasFlow ==
  \A r \in Run : up /\ Known(r) =>
    FlowCount(r) = (IF Pending(subagentRuns[r]) /\ r \notin orphans THEN 1 ELSE 0)

\* A cleanup is completed only after the result reached the requester's agent or
\* was taken into its queue: a flow that failed leaves the entry to be announced
\* again.  The exception is a queue that refuses it, full under the policy "new":
\* nobody looks at the answer of enqueueAnnounce, and the refusal completes it.
CompletedIsAnnounced ==
  \A r \in Run : up /\ Known(r) /\ subagentRuns[r].completed =>
    /\ fate[r] # "none"
    /\ fate[r] = "refused" => \E s \in Settings : s.drop = "new"

\* The requester hears of a subagent at most once, however many ends it reports
\* and through crashes and restarts, unless a call threw that had been heard, or the
\* process died with a failed save of the run behind it.
HeardOnce == \A r \in Run : heard[r] > 1 => r \in doubted \cup forgotten

\* The file never offers a run for announcement that has been announced, so that a
\* crash at any moment has it announced no second time - unless a save of it failed.
DiskRemembers ==
  \A r \in Run : fate[r] # "none" /\ disk[r] # Absent /\ CanClaim(disk[r]) =>
    r \in unsaved \cup forgotten

\* The result of r is there, nothing has spoilt it, and nobody has heard it yet.
Owed(r) ==
  \/ fate[r] \in {"queued", "summarized"}
  \/ fate[r] = "none" /\ spawn[r] = "done" /\ child[r] = "over" /\ r \notin lost

\* Every subagent that ends is told to the requester's agent, or disposed of: refused
\* or dropped by the queue's policy, its text replaced by a summary ("overwritten"),
\* in a summary with no item left to carry it ("unreported"), or in a failed send.
\* Not owed is a result whose flow failed, whose entry was removed, or that the
\* process died with; what a restart finds ended and unclaimed is owed again.  The
\* exception is a drain that loops for ever over dropped messages that it may not
\* summarize any more.
ResultsAnnounced ==
  []<>(\A r \in Run : ~Owed(r)) \/ <>[](pc = "spin")

\* The comment of getBudgetStatus: no more spawns only while Limit runs are running.
SpawnLimitIsRunning ==
  runningCount <= Cardinality({r \in Run : child[r] = "running"})
=============================================================================
