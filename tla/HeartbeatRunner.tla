-------------------------- MODULE HeartbeatRunner --------------------------
(***************************************************************************)
(* src/src/infra/heartbeat-runner.ts on top of HeartbeatWake: the interval *)
(* timer, the per-agent due times, configuration reloads, the global       *)
(* switch, and the heartbeat run that visits the agents one after another. *)
(* Time is abstracted to whether the next beat of an agent is due.         *)
(***************************************************************************)
EXTENDS HeartbeatWake

CONSTANTS
  Agent,      \* agents with a heartbeat, at one time or another
  EmptyFile,  \* those whose HEARTBEAT.md has no actionable content
  Disturb     \* what happens: subset of {"reload", "toggle", "exec", "stop"}

ASSUME ReasonAssumption == {"interval", "exec-event"} \subseteq Reason
ASSUME EmptyFileAssumption == EmptyFile \subseteq Agent

VARIABLES
  enabled,        \* heartbeatsEnabled
  life,           \* of the current runner: "new", "started" or "stopped"
  entries,        \* [Agent -> Entry] state.agents
  intervalTimer,  \* is state.timer set
  phase,          \* of the handler call; "orphan" is a loop of a stopped runner
  left,           \* agents the loop still has to beat
  shared,         \* does the loop iterate over what is still state.agents
  execEvents,     \* agents with the system event of a finished command
  wasOff          \* history: disabled at some time since the last scheduleNext

runnerVars == <<enabled, life, entries, intervalTimer, phase, left, shared, execEvents,
                wasOff>>
beatVars == <<wakeVars, runnerVars>>

Entry == {"absent", "waiting", "due"}
Configured(es) == {a \in Agent : es[a] # "absent"}

BeatInit ==
  /\ WakeInit
  /\ enabled = TRUE /\ life = "new"
  /\ entries = [a \in Agent |-> "absent"]
  /\ intervalTimer = FALSE
  /\ phase = "none" /\ left = {} /\ shared = FALSE
  /\ execEvents = {}
  /\ wasOff = FALSE

\* scheduleNext.
ScheduleNext(es) ==
  /\ intervalTimer' = (Configured(es) # {})
  /\ wasOff' = ~enabled

\* startHeartbeatRunner, at the start of the gateway or of a restart in process.
Start(es) ==
  /\ life # "started"
  /\ life = "stopped" => "stop" \in Disturb
  /\ \A a \in Agent : es[a] # "due"
  /\ life' = "started"
  /\ SetHandler(TRUE)
  /\ entries' = es
  /\ ScheduleNext(es)
  /\ UNCHANGED <<enabled, phase, left, shared, execEvents>>

-----------------------------------------------------------------------------
\* The interval of an agent passes.
Elapse(a) ==
  /\ life = "started"
  /\ entries[a] = "waiting"
  /\ entries' = [entries EXCEPT ![a] = "due"]
  /\ UNCHANGED <<wakeVars, enabled, life, intervalTimer, phase, left, shared, execEvents, wasOff>>

\* The interval timer is set for the earliest due time.
IntervalFires ==
  /\ intervalTimer
  /\ \E a \in Agent : entries[a] = "due"
  /\ intervalTimer' = FALSE
  /\ Request("interval")
  /\ UNCHANGED <<enabled, life, entries, phase, left, shared, execEvents, wasOff>>

\* Hooks, cron jobs and finished background sessions.
Wake(r) ==
  /\ r \notin {"interval", "exec-event"}
  /\ Request(r)
  /\ UNCHANGED runnerVars

\* A remote command finished: its system event first, then the wake.
ExecFinished(a) ==
  /\ "exec" \in Disturb
  /\ execEvents' = execEvents \cup {a}
  /\ Request("exec-event")
  /\ UNCHANGED <<enabled, life, entries, intervalTimer, phase, left, shared, wasOff>>

\* updateConfig: kept agents may be due earlier or later, new ones wait.
UpdateConfig(es) ==
  /\ "reload" \in Disturb
  /\ life = "started"
  /\ \A a \in Agent : entries[a] = "absent" => es[a] # "due"
  /\ entries' = es
  /\ ScheduleNext(es)
  /\ shared' = FALSE
  /\ UNCHANGED <<wakeVars, enabled, life, phase, left, execEvents>>

SetHeartbeatsEnabled(on) ==
  /\ "toggle" \in Disturb
  /\ enabled' = on
  /\ wasOff' = (wasOff \/ ~on)
  /\ UNCHANGED <<wakeVars, life, entries, intervalTimer, phase, left, shared, execEvents>>

Stop ==
  /\ "stop" \in Disturb
  /\ life = "started"
  /\ life' = "stopped"
  /\ intervalTimer' = FALSE
  /\ SetHandler(FALSE)
  /\ phase' = IF phase = "loop" THEN "orphan" ELSE phase
  /\ shared' = FALSE
  /\ UNCHANGED <<enabled, entries, left, execEvents, wasOff>>

-----------------------------------------------------------------------------
(***************************************************************************)
(* The wake timer and the handler run.                                     *)
(***************************************************************************)
WakeTimer ==
  /\ FireUnheard \/ FireDuringRun
  /\ UNCHANGED runnerVars

\* Who a run for reason r beats: `now` is read once, so the loop passes over
\* the agents that are not due when it begins.
ToBeat(r) == {a \in Configured(entries) : r = "interval" => entries[a] = "due"}

\* The handler is called; heartbeats may be off.
BeginRun ==
  /\ Fire
  /\ \/ /\ enabled /\ Configured(entries) # {}
        /\ phase' = "loop" /\ left' = ToBeat(pending)
     \/ /\ ~enabled \/ Configured(entries) = {}
        /\ phase' = "disabled" /\ left' = {}
  /\ shared' = TRUE
  /\ UNCHANGED <<enabled, life, entries, intervalTimer, execEvents, wasOff>>

\* The loop comes to agent a.
AtAgent(a) == phase \in {"loop", "orphan"} /\ a \in left

\* The empty file stops a beat unless the reason is an exec event; a beat takes
\* the agent's system events into its prompt.  Quiet hours and the visibility
\* settings, which stop any beat, are left out.
Handled(a) == a \notin EmptyFile \/ Head(calls) = "exec-event"

\* Mutant: the due time is not moved on.
VisitForgetting(a) ==
  /\ AtAgent(a)
  /\ left' = left \ {a}
  /\ execEvents' = IF Handled(a) THEN execEvents \ {a} ELSE execEvents
  /\ UNCHANGED <<wakeVars, enabled, life, entries, intervalTimer, phase, shared, wasOff>>

\* runOnce of one agent ran, failed or was skipped for a reason of its own.
Visit(a) ==
  /\ AtAgent(a)
  /\ left' = left \ {a}
  /\ entries' = IF shared THEN [entries EXCEPT ![a] = "waiting"] ELSE entries
  /\ execEvents' = IF Handled(a) THEN execEvents \ {a} ELSE execEvents
  /\ UNCHANGED <<wakeVars, enabled, life, intervalTimer, phase, shared, wasOff>>

\* Heartbeats were switched off, or the agent's was, since the loop began.
VisitDisabled(a) ==
  /\ AtAgent(a)
  /\ ~enabled \/ entries[a] = "absent"
  /\ left' = left \ {a}
  /\ UNCHANGED <<wakeVars, enabled, life, entries, intervalTimer, phase, shared, execEvents, wasOff>>

\* The main lane is busy, or runOnce throws: the loop ends and is retried.
VisitRetry(a) ==
  /\ AtAgent(a)
  /\ SettleRetry
  /\ phase' = "none" /\ left' = {}
  /\ shared' = FALSE
  /\ UNCHANGED <<enabled, life, entries, intervalTimer, execEvents, wasOff>>

\* Mutant: the next interval is not scheduled.
FinishQuietly ==
  /\ phase \in {"loop", "orphan"} /\ left = {}
  /\ phase' = "none"
  /\ Settle
  /\ shared' = FALSE
  /\ UNCHANGED <<enabled, life, entries, intervalTimer, left, execEvents, wasOff>>

\* The end of run; scheduleNext does nothing for a stopped runner.
FinishRun ==
  /\ left = {}
  /\ \/ phase = "loop" /\ ScheduleNext(entries)
     \/ phase = "orphan" /\ UNCHANGED <<intervalTimer, wasOff>>
  /\ phase' = "none"
  /\ Settle
  /\ shared' = FALSE
  /\ UNCHANGED <<enabled, life, entries, left, execEvents>>

\* The early return: nothing is scheduled.
FinishDisabled ==
  /\ phase = "disabled"
  /\ phase' = "none"
  /\ Settle
  /\ shared' = FALSE
  /\ UNCHANGED <<enabled, life, entries, intervalTimer, left, execEvents, wasOff>>

BeatNext ==
  \/ \E a \in Agent :
       \/ Elapse(a) \/ ExecFinished(a)
       \/ Visit(a) \/ VisitDisabled(a) \/ VisitRetry(a)
  \/ \E r \in Reason : Wake(r)
  \/ \E es \in [Agent -> Entry] : Start(es) \/ UpdateConfig(es)
  \/ \E on \in BOOLEAN : SetHeartbeatsEnabled(on)
  \/ Stop \/ IntervalFires \/ WakeTimer \/ BeginRun \/ FinishRun \/ FinishDisabled

BeatSpec == BeatInit /\ [][BeatNext]_beatVars

\* Timers fire, a heartbeat run ends, and the main lane is not busy for ever
\* whenever a given agent's turn comes.
Fairness ==
  /\ WF_beatVars(IntervalFires) /\ WF_beatVars(WakeTimer \/ BeginRun)
  /\ WF_beatVars(FinishRun) /\ WF_beatVars(FinishDisabled)
  /\ \A a \in Agent : SF_beatVars(Visit(a) \/ VisitDisabled(a))

BeatFairSpec == BeatSpec /\ Fairness

-----------------------------------------------------------------------------
BeatTypeOK ==
  /\ WakeTypeOK
  /\ enabled \in BOOLEAN /\ life \in {"new", "started", "stopped"}
  /\ entries \in [Agent -> Entry]
  /\ intervalTimer \in BOOLEAN /\ shared \in BOOLEAN
  /\ phase \in {"none", "loop", "orphan", "disabled"}
  /\ left \subseteq Agent /\ execEvents \subseteq Agent /\ wasOff \in BOOLEAN

\* Unless heartbeats were off in between, the chain of interval beats is never
\* broken: the interval timer is set, or a wake or a run is on its way that
\* sets it again, through reloads, restarts, retries, coalesced reasons and
\* runs without agents.
ChainUnbroken ==
  ~wasOff /\ life = "started" /\ Configured(entries) # {} =>
    intervalTimer \/ pending # None \/ phase = "loop"

ReloadsEnd == <>[][\A es \in [Agent -> Entry] : ~UpdateConfig(es)]_beatVars

\* A due agent gets its beat, whatever other wakes coalesce with the interval,
\* once reloads have ended and unless the runner stops or heartbeats were off.
DueAgentsBeat ==
  ReloadsEnd =>
    \A a \in Agent : entries[a] = "due" ~> entries[a] # "due" \/ wasOff \/ life = "stopped"

\* With heartbeats enabled, again or still, a due agent gets its beat.
EnabledAgentsBeat ==
  \A a \in Agent : entries[a] = "due" ~> entries[a] # "due" \/ ~enabled

\* A beat for an exec event is not skipped: its system event is processed.
ExecEventsHandled ==
  \A a \in Agent : a \in execEvents /\ entries[a] # "absent" ~> a \notin execEvents
=============================================================================
