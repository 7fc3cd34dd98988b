# A verification of AeonSage's gateway core

AeonSage is a personal-assistant gateway: chat channels send messages in, agents
answer them, and the gateway queues, schedules and persists the work in between.
Most of the repository talks to the outside (channels, model providers, browser,
command line). The part that is worth a model is smaller and sits in one Node
process: queues with drains, timers that must not be lost, registries with
claims, lock files, and JSON stores that several callers rewrite.

This directory holds TLA+ modules of that part, TLC runs on small instances of
them, and TLAPS proofs for every value of the constants. `PROJECT.json` lists
runs, mutants, the source lines behind every definition, findings, hazards and
theorems. Paths below are relative to `src/src/`.

To repeat a run: `tlc -config CommandQueue.cfg MCCommandQueue.tla`; to check
proofs: `tlapm CommandQueueProofs.tla`.

## 1. Inventory

What "one step" means throughout: JavaScript runs a synchronous stretch at a
time. State that is read before an `await` and used after it may have changed,
so an action of a model is the stretch between two awaits, and everything else
interleaves there. Several processes matter only where files are shared.

### Modelled

| Component | State | Operations | Talks to |
|---|---|---|---|
| Command lanes (`process/command-queue.ts`) | per lane: FIFO of tasks, active count, limit, draining flag | enqueue, drain/pump, completion, set limit, clear | every agent run goes through a session lane and, inside, the global lane (`pi-embedded-runner/run.ts`) |
| Followup queue (`auto-reply/reply/queue/`) | map of queue objects per session; items, dropped count, summary lines, mode, flags | enqueue with dedupe and drop policy, scheduled drain (individually, in batches, with a summary), clear | reply runs finish and start the drain; drains run on the session lane |
| Session write lock (`agents/session-write-lock.ts`) | the lock file, its payload, HELD_LOCKS of each process | acquire, retry, stale removal, release, cleanup on exit and signals | every writer of a session transcript, in any process |
| Heartbeat wake and runner (`infra/heartbeat-wake.ts`, `infra/heartbeat-runner.ts`) | pending reason, timer, running flag; due time per agent, interval timer, global switch | request, fire, retry; run over agents, reload, start/stop, enable/disable | cron jobs, hooks and finished commands request wakes; a run asks whether the main lane is busy |
| Subagent registry and announce queue (`agents/subagent-registry.ts`, `subagent-announce.ts`, `subagent-announce-queue.ts`) | entries in memory and in `runs.json`, claims, agent.wait calls; per requester a queue with a drain, a dropped count and a summary | spawn, register, learn of an end (three ways), announce directly or queued, finalize, release, archive, crash, restore | the child is an agent run of its own; the announcement is an agent call or a message to the requester's active run |
| Session store (`config/sessions/store.ts`) | the JSON file and its mtime, a lock file, a cache per process | load, update with and without a re-read, save, evict a stale lock, expire, crash | every reply, heartbeat and command writes an entry |
| Node registry and node host (`gateway/node-registry.ts`, `gateway/server/ws-connection*`, `node-host/runner.ts`) | sockets, sessions by node and by connection, pending invocations, commands under way | connect, handshake, register, close, unregister, invoke, time out, run, report, result | nodes connect by WebSocket, the exec tool invokes them |
| Exec approvals and the exec tool (`gateway/exec-approval-manager.ts`, `infra/exec-approval-forwarder.ts`, `agents/bash-tools.exec.ts`) | pending questions, decisions, chats that were asked, what the agent was told | ask, decide, expire, forward, invoke, hear the answer or the event | operators and chats decide; the node has a policy of its own |
| Block replies, dispatcher and typing (`auto-reply/reply/`) | the coalescer's buffer, keys, two send chains, flags and timers of the indicator | stream, flush, send, time out, drop or send the final payload, deliver, start and stop typing | the agent run streams in, the chat channel delivers |
| Cron scheduler (`cron/`) | jobs in memory and in the file, error counts, timer and running flag of each service | start, add, update, remove, run, tick, reload, crash | RPC handlers, gateway reload, heartbeat and isolated agent runs |

### Hard behaviours, and what makes each component correct

* **Command lanes.** Reentrancy: a task's synchronous prefix may enqueue on the
  lane that is being drained. Correct means: the counter that admits tasks is
  the number that really run; no lane keeps work it has room for; tasks start in
  order, within the limit, and settle.
* **Followup queue.** A drain spans many awaits while messages arrive, settings
  change, `/stop` clears the map entry under the drain's feet and runs end.
  Correct means: a message is in one place, handed over once, in order, to the
  right destination, and it does get handed over; dropped ones are reported.
* **Session write lock.** Files are not atomic with their contents, processes
  die. Correct means: one writing process; the file stays until the last
  release; nobody waits for ever.
* **Heartbeat.** Two chains of timers that set each other; wakes coalesce into
  one reason; reloads replace the agents under a running loop. Correct means: no
  wake is lost, one handler call at a time, due agents beat.
* **Subagents.** The lifecycle listener, the answer of `agent.wait` and the
  resume after a restart all learn of the same end; a run may end several times.
  Correct means: one of them announces, and the requester hears of it, once.
* **Session store.** Two processes cache the same file, a slow holder's lock is
  taken. Correct means: no answered update disappears, a load is current.
* **Remote exec.** A socket has two ends that close at different times, an
  approval has two timers, a node tells of its work twice (event and result).
  Correct means: only what was allowed is run, and nothing ends in silence.
* **Replies.** A send that took too long may still arrive; text is streamed in
  blocks and again as a whole; an indicator is started by callers that wait.
  Correct means: every text arrives, in order, and typing stops.
* **Cron.** Runs hold the store's lock for as long as an agent turn takes while
  callers queue; a run fails, a save fails, the process dies; a reload replaces
  the service while handlers keep the old one. Correct means: no overlapping or
  repeated runs, nothing answered before it is saved, no due job forgotten.

### Not modelled yet, or not at all

`PROJECT.json` lists every component with its reason. Worth a model and not
built: active embedded runs and chat abort (whose part in the queues above is
abstracted to "a run is active"), inbound debounce, the registry of
remote gateways, auth profile cooldowns and model fallback, device pairing, the
gateway lock. Left out for good: channels, browser, media,
memory index, CLI/TUI and wizard (I/O and presentation), the agent loop itself
(an external library), plugin loading and configuration parsing (run once, no
concurrency), the cognitive router (text scoring), and Swift, web and plug-in
programs beside the gateway.

## 2. The modules

An MC module gives constants their values and contains nothing else. A `Disturb`
constant, where there is one, names the disturbances of an instance, so that a
property that holds without one of them and fails with it can be told apart.

### CommandQueue, LaneExecutor

`stack` is the JavaScript call stack of the current stretch: pump frames and the
synchronous prefix of a task just called. Events (`EnqueueFromEvent`,
`Complete`, `SetCommandLaneConcurrency`, `ClearCommandLane`) need it empty;
`EnqueueFromTask` is a call from a prefix. `drainLane`'s flag, `pump`'s loop
(`PumpStart`, `PumpReturn`) and the epilogue of a task (`Complete`: free the
slot, pump, then settle) are separate actions, since reentrant calls come in
between. `Nests` says which lanes a task may enqueue on and whether it awaits
the result. Wait warnings and getters are left out.

`LaneExecutor` is what callers rely on: submit, begin in order under the limit,
finish, change the limit, discard. `CommandQueue` maps onto it with
`running[l]` the tasks whose status is running, *not* the active counter, so the
refinement also checks the counter.

### FollowupQueue

One session key. A queue object gets the identity of the message that created
it, because an object outlives its map entry when a clear meets its drain.
`Arrive`, `CheckActive` and `Dispatch` follow a message through
`get-reply-run.ts` and `agent-runner.ts` (activity is looked at before awaits
and used after them: `"stale"`); the drain is `CollectIndividually`,
`CollectBatch`, `DrainNext`, then `DrainResume` or `DrainFails` when the
followup run is over. Reply, followup and RPC runs (`reply`, `followup`,
`external`) wait for the session lane, which is abstracted to "one active run". A
reply that throws after its run (`ReplyThrows`: a session update that rejects,
`agent-runner.ts:346` or `:487`) leaves by the `finally` block of line 510, past
`finalizeWithFollowup`, and schedules no drain.
Ids, routes and settings are members of small sets. Debounce time is a step, its
length is left out.

### SessionWriteLock

One session file. Each file operation (open, write, read, remove, unlink) is an
action of its own. `file` is the caller that created the lock file which is
at the path now and `payload` what that file contains, so `Unlink` and `Remove`
can remove somebody else's. The disturbances are overlapping file operations of
two callers, overstaying, surviving a signal, dying, deadlines and failing
writes. `clean` is a history variable: no overlap, overstayed lock or survived
signal so far. Exclusion and the file's presence are promised on clean behaviours
only (`SingleWriterIfClean`, `FileKeptIfClean`), since the code does not keep them
in others (below). The counts of `HELD_LOCKS` do not depend on it but on the
process: `astray` are those that survived a signal, or in which a call opened the
file while another had it; there the code miscounts. What is left behind and who
is blocked is stated on every behaviour. Pids are not reused.

### HeartbeatWake, HeartbeatRunner

`HeartbeatWake` is the coalescing layer as a module of its own with its own
specification; `HeartbeatRunner` extends it and its actions are steps of the
wake layer joined with what the runner does. A due time is abstracted to
waiting/due. `shared` and the phase `"orphan"` are there because the loop
iterates over the `Map` it began with while a reload installs a new one and
`stop` ends the runner, not the loop; `now` is read once, so whom a run beats
(`left`) is settled when it begins. `wasOff` is a history variable: heartbeats
were off at some time since the last beat was scheduled. Quiet hours and
visibility, which stop every beat alike, are left out.

### AnnounceQueue, SubagentRegistry

The subagents of one requester session. `AnnounceQueue` is the queue of
announcements with its drain: an announcement is named by its run, `fate` is
what became of it, `heard` how often the requester's agent was told. A turn of the
drain (`SendForced`, `SendBatch`, `SendNext`, `SendSummary`, `BreakForced`,
`LoseSummary`) is the stretch from the end of a debounce to the send. `Spin` is
a loop of microtasks that never lets another callback run, which happens when
messages were dropped under a policy that has changed since and no item is left:
nothing else of the process is enabled after it. What else may become of an
announcement is a fate of its own: `"refused"` by a full queue under the policy
`new` (nobody looks at the answer of `enqueueAnnounce`), `"dropped"`,
`"overwritten"` when a summary is sent in place of its text, `"unreported"` when
its summary finds no item to carry it, `"failed"` with its send.

`SubagentRegistry` extends it with the life of a run: `Learn` is what all three
sources of an end do (record, claim, start the flow); `flows` counts the
announce flows of a run by stage, so that two at once are a state and not an
assumption. A crash loses memory, the queue and the waiting calls and keeps
`disk`; `Restart` restores. `Persist` is `persistSubagentRuns`, which swallows an
error: the file then keeps its old content or is cut short, and the run goes on.
An end saves twice, so the file may also be that of the first save. Runs outside
`Tracked` only queue announcements and so fill the queue. The history variables
`lost`, `doubted` and `orphans` name what may spoil an announcement, `unsaved` and
`forgotten` the runs whose last save failed, and those of them the process died
with; each is a step of the model.

### SessionStore, AtomicStore

The content of the file is the set of updates in it: each writer makes one, so a
lost update is a missing element. `KindOf` separates writers that re-read the
file inside the lock, writers that take the cached store there, and
`saveSessionStore` of a store loaded before the lock (the heartbeat's writes,
`infra/heartbeat-runner.ts:722`). `Rename` is the moment the file changes;
`torn` processes are those between reading the old file and asking for the mtime
of the new one. A load may fail (`Readable`): `loadSessionStore` then returns an
empty store and caches it under the file's mtime, and a writer inside the lock
goes on with it (`store.ts:126`). `causes` records the five things that may cost an
update: eviction of a live holder, a save from outside, a torn load, a file system
whose mtime does not tell two writes apart, and a read that failed. `SaveFails` is
an error of the write, of the rename, or of the `chmod` after it: the call throws
though its update is made.

On Windows the file is written in place, without a rename; a reader that meets it
half written is one of the reads that fail, and the model has no more of it. The
comment at `store.ts:255` ("Always re-read inside the lock to avoid clobbering
concurrent writers") is the promise of `LockedKeepsOthers`.

`AtomicStore` is what callers rely on: an update is applied at once, to whatever
the store then holds, and answered only after that; a call that fails, or whose
process dies, was applied or was not. The promise (`kept`) ends with the first
cause. A call's `pc` is mapped to its stage by `Stages`. `UpdatesKept`, that no
answered update is missing from the file, is part of it; no run states it apart.

### NodeRegistry, RemoteExec

`NodeRegistry` has both ends of each connection (`client`, `gateway`), since a
close is noticed at different times; connections are numbered in the order they
are opened. The handshake awaits several times and does not look at its socket
again, so a socket closed meanwhile (`"late"`) is registered all the same.
`Unregister` takes the node's session by the node's id, whichever connection it
is of. The node host runs a command, waits for its event to be acknowledged, and
only then sends the result; a message is on a connection (`uplink`) and is lost
with it.

`RemoteExec` extends it with the tool: ask, hear the decision, invoke, hear the
answer; `told` is what the agent learns of a command, in the tool's results and
in system events. The manager's and the forwarder's timers are two actions,
since they may fire in either order. The node's own policy is chosen when the
command arrives, `askFallback` when it is needed. Left out: the
branch of `node.invoke` that sends the command to a node of another gateway
(`nodes.ts:403`).

### Typing, ReplyDelivery

`Typing` is the controller; a caller that awaits the first indicator is in
`first`, and `IntervalSet` is what it does afterwards. `ReplyDelivery` extends
it: the blocks of one run are numbers, `KeyOf` gives their texts, so a
repetition is two numbers with one key. `chain` is the pipeline's send chain,
its head being sent; `outbox` is the dispatcher's. `BlockTimesOut` moves the head
to `late`, from where it may still arrive, and skips the rest. Whether the reply
is routed to another channel and whether blocks are coalesced is chosen in the
initial state. The length of texts is abstracted: a block joins the buffer,
closes it, opens a new one or goes alone. Left out: tool results, the buffer for
voice replies, speech, pauses between blocks, and a reply that throws
(`auto-reply/dispatch.ts:55` is then skipped, and only the time limit of the
indicator ends it).

### CronSchedule, CronService

`CronSchedule` computes the next run of a schedule; an expression is
abstracted to the multiples of a number, `"bad"` is one whose parser throws.
`CronService` has a clock, the jobs in memory and in the file, and two
services: that of the start-up, which RPC handlers keep
(`gateway/server.impl.ts:443`), and that of a reload. Both share the store and
lock, whose waiters are the FIFO `chain`. An operation without a run is one step;
one that runs jobs is `op` from `BeginTick`/`BeginRun` through
`StartJob`, `FinishJob`/`FinishThrows` to `EndOp`. Jobs that end at once and
those that take long differ only in how much time passes in between. `slot` is a
history variable of each job: the latest due time that a run has served, and the
latest that the file has as served. A crash leaves the second one only.

## 3. The runs

### What holds

| Run | Instance | What it shows |
|---|---|---|
| `command_queue` | a session and a global lane, 3 tasks, limits asked for 0, 1, 2, any nesting, clears of the session lane | counters and wake-ups survive every order of reentrant calls, limit changes and clears; every task settles unless cleared; the lanes implement `LaneExecutor` with its liveness |
| `followup_safety` | 4 messages, one without a routing key and redelivered, one that cannot be routed; two settings that differ in mode, cap and policy, stops, interrupts, stale checks, replies that throw, an RPC run | messages are in one place and in order; one loop per object; no batch mixes destinations |
| `followup_live` | 4 messages, 2 destinations, reply runs only, which may throw; messages switch between two modes, caps and drop policies | queued messages reach the agent, dropped ones are reported, unless a reply run threw and none has ended since (`LeftByThrow`), or, for the dropped, the policy is left at one that does not summarize |
| `session_lock` | 3 processes, 4 callers, every disturbance | while the behaviour is clean, one writing process; exact counts in every process that is not astray; on every behaviour, no file left behind but a dead process's or a failed write's, and whoever asks gets the lock, fails or dies |
| `heartbeat` | 2 agents, every disturbance | wakes kept, one call of the handler at a time (cron calls `runHeartbeatOnce` itself, `server-cron.ts:58`, and is not part of this); the chain of interval beats breaks only by switching heartbeats off; due agents beat |
| `subagents` | 1 run with all its disturbances, 2 more that queue announcements, 3 settings, failing saves, one crash | one announcer per end; completed only after the result was heard, queued, or refused by a full queue under the policy `new`; heard once, unless a call threw that had been heard or the process died with a failed save; in the end told or disposed of by the queue (its policy, a summary sent in its place or not sent, a failed send), unless the drain loops for ever |
| `session_store` | 3 writers of 3 kinds, 2 processes, slow holders, torn reads, failed reads, failed saves, crashes | until one of the five causes, updates are atomic and none that was answered is lost; a load is current, or empty after a failed read; a writer that loads inside the lock takes nothing back, or all of it after a failed read; every call is answered |
| `remote_exec` | a command that is asked for and one that is not, a node with 2 connections that overlap, drop, die or register late | only what was allowed is run; an approved command that succeeds is reported; sessions match sockets but for the two causes; nothing ends in silence |
| `reply_delivery` | 5 blocks, one a medium and one a repetition, coalesced or not, routed or not, a time-out anywhere | every text arrives, blocks in order, final and blocks together only after a time-out; the reply ends and typing with it |
| `cron_service` | 2 jobs, three kinds of schedule, failing or not, callers, crash | answers are saved first; the timer covers the earliest job; a due job is run |
| `cron_shared` | 2 jobs, intervals with and without an anchor, reload, rejected patches, full disk, crash | markers are truthful, a tick's jobs stay due; a due time is served again only if the process died before the end of its run was saved, or in the very instant of an anchored grid, and never one that the file has as served |

The type invariants and the bookkeeping of the queues and registries
(`TypeOK`, `QueuedOnce`, `SummaryCount`, `NoDuplicateQueued`,
`AcceptRespectsCap`, `FileKeptIfClean`, `TimerHasReason`, `DiskRemembers`) hold on
the same instances: name them in the cfg to check them. Where they carry a proof,
section 4 says so.

### What the code does not keep

`session_lock_overlap` checks a sentence of the change log ("enforce
single-writer session locks"), and TLC finds a behaviour of the code against it:
an empty, just created lock file counts as stale, and a second process takes the
lock of one that has it.

Further instances that show other disagreements with a comment or a test, or
why the runs above exclude or condition on a disturbance. TLC ends each with a counterexample to the property named.

| Instance | Property | The behaviour |
|---|---|---|
| `FollowupQueueStop` | `FollowupsReachAgent` | after `/stop` the old drain deletes the entry of the queue created since |
| `FollowupQueueSummary` | `SummaryKeepsRouting` | a summary goes to a destination that its messages were not from |
| `HeartbeatExec` | `ExecEventsHandled` | a later wake overwrites the reason of a finished command, and its system event is not looked at ("Don't skip for exec events", `infra/heartbeat-runner.ts:465`) |
| `CronServiceReload` | `DisabledSchedulerRests` | a tick under way re-arms the stopped service |
| `SubagentBudget` | `SpawnLimitIsRunning` | nothing calls the function that lowers `runningCount`: the budget counts subagents that have ended |
| `RemoteExecDenied` | `DeniedNeverRan` | an invocation that times out is reported as "Exec denied", and the command runs; the registry's thirty seconds are not raised for a longer command ("expected and harmless", `gateway/server-methods/nodes.ts:519`) |
| `RemoteExecReconnect` | `SessionsFollowSockets` | the late close of an old socket deletes the session of the new one; the node is connected and not listed |
| `ReplyDeliveryTyping` | `StopsWhenEmpty` | `dispatchIdle` is set by an earlier block, so the end of the run stops typing with the dispatcher at work ("Stop only when the model run is done and the dispatcher queue is empty", `typing.ts:101`) |
| `SessionWriteLockOutlive` | `SingleWriter` | a lock older than `staleMs` is taken from a live process |
| `CronServiceEnable` | `TimerCoversJobs` | after enabling by reload, handlers keep the disabled service |
| `CronServiceRerun` | `NothingRunsTwice` | the ends of the runs of a tick are saved after its last job (`cron/service/timer.ts:119`); a crash before makes the restarted process run those jobs again |
| `CronServiceReschedule` | `EnabledJobsScheduled` | a one-shot job that has run cannot be given a new time |

Some need no file of their own. `RemoteExec.cfg` with `ExpiredIsFinal`: the
forwarder tells a chat that the question expired, and a decision is taken
afterwards. `ReplyDelivery.cfg` with `NoTimerLeft`: a caller sets its interval
after the controller has stopped, and nobody clears it. `HeartbeatRunner.cfg`
with `EnabledAgentsBeat`: disabling and enabling ends the interval chain.
`SessionWriteLock.cfg` with `FileUntilLastRelease`: two calls of one process both
create the file. `FollowupQueueLive.cfg` with `MaxExternal = 1`, without
`SummariesReported`, violates `FollowupsReachAgent` under each of three settings of
`Disturb`:

* `{"external"}`: a message queued behind an agent RPC run stays there, since only
  reply runs start a drain;
* `{"stale"}`: a message that saw the session active is queued after the drain was
  scheduled;
* `{"interrupt"}`: a cleared lane entry never settles, and the drain that awaits
  it keeps its flag for ever.

With `"throw"`, which the run has, the same property without its excuse fails: a
reply run throws, and what was queued behind it waits for the next one. And without
a property of its own: messages were dropped in collect mode and the policy is
changed from `summarize`, so that no summary is built and the dropped count stays;
the drain then runs the agent on an empty batch, again and again, until the policy
changes back (`auto-reply/reply/queue/drain.ts:63`).

### Bounds, and why they are enough

* Tasks and messages are used once each. Three tasks fill a lane of limit one,
  leave one waiting and one to arrive or nest at any moment, or fill one of limit
  two and overtake it when the limit changes; a lane's state does not depend on
  older tasks, and the safety of any number of tasks is proved. The session lane is
  the one that is cleared, as in the code (`/stop`, interrupts); clearing the
  global lane strands the session task that awaits its entry.
* Four messages fill a queue of cap 1 or 2, overflow it, leave one behind a
  drain and one to redeliver; the cap lies within the number of messages, so
  overflow, drop and summary do happen. Two settings suffice for a queue whose
  cap shrinks under its items, whose mode changes under a drain (a redelivery
  changes it too) and whose policy changes between a drop and its summary.
  `followup_safety` has the policies `summarize` and `new`, `followup_live`
  `summarize` and `old`.
* `MaxExternal = 1`: one RPC run; a second only repeats it.
* Three processes: holder, remover of a stale file, and a third that the first
  two both meet. A process dies at most once.
* Two agents: one that is due and one that is not, in one loop.
* Subagents: one tracked run meets every disturbance and every end, twice where
  an attempt is retried; two more announcements fill a queue of cap 1 or 2, drop,
  and belong to two routes. Three settings have every mode and both policies that
  the spawn of a subagent meets with a full queue, to summarize and to refuse; a
  change from one to the other leaves dropped messages with no summary. Saves fail
  only while a crash may follow, since only a restart reads the file. `Limit = 10` lets the budget be, `SubagentBudget`
  sets it to one. `MaxCrashes = 1`: a crash between any two steps, and the steps
  after it; a second finds the same states on disk.
* Session store: one writer of each kind, two of them in the gateway and one in a
  command, so every pair of kinds meets, in one process or two. `MaxCauses = 1`: no
  read fails and no load is torn once a cause has occurred, so each trouble is met
  alone, with evictions and saves from outside in any number. Two writes with one
  mtime (`"coarse"`) are left out of the run, for its time. No call waits for an
  mtime or for the content of a read, and the safety properties are proved for every
  `Disturb` and `MaxCauses`.
* Remote exec: one node, two connections, which is an overlap; two commands, one
  asked for and one not.
* Replies: five blocks are a text, a second that coalesces or not, a medium that
  overtakes neither, a repetition and a text after it.
* `MaxTime`, `MaxCalls` bound the clock and the calls plus crashes of the
  scheduler: 3 and 3 in `cron_service`, where three calls add two jobs and do one
  thing to them, 4 and 2 in `cron_shared`, where a reload and a crash come on
  top. Four instants hold two periods of an interval and a backoff at its
  maximum. `MaxErrors = 2` reaches the largest backoff. `MaxTimeout = 2` makes
  the timer wake early at least once, as the clamp to a signed 32-bit delay does.
* Names of jobs are symmetric in `cron_shared`, which checks no liveness. No
  other run uses symmetry.
* `CHECK_DEADLOCK FALSE` is set where a system may stop: messages and calls are
  used up, processes dead, the clock at its end.

### Fairness, and why the code justifies it

* *Lanes*: a synchronous stretch ends and the microtask queue is served in
  order: weak fairness for the stretch. A task's completion can be interrupted
  by other events but is served in between: strong fairness.
* *Followup queue*: timers fire and runs end (every agent run has a time-out):
  weak fairness; waiting runs get the session lane, a FIFO: strong fairness,
  which stands for `CommandQueue`'s `EveryTaskSettles`. A message's arrival, a
  stop and an interrupt have none. A reply that has run throws or goes on to
  `finalizeWithFollowup`: weak fairness of the two together, so it may always throw.
* *Session lock*: file operations, timers and the runs of holders end (weak). A
  waiter polls at growing intervals while others come and go: strong fairness
  of `Open` says that a poll eventually meets a free path, an assumption on
  timing that the code does not enforce. Crashes, signals and deadlines: none.
* *Heartbeat*: timers fire, a run ends. The main lane is not busy every time an
  agent's turn comes: strong fairness of a visit.
* *Subagents*: calls of the gateway end or time out, the drain's timers fire,
  runs of children end: weak fairness of the disjunction `Work`. It is enough
  because each run takes finitely many steps. The requester becoming busy or
  idle, removals, crashes and restarts have none.
* *Session store*: a waiter polls, file operations end, time passes (weak, one
  disjunction). `LockAges` is in it since only time is needed; crashes and
  time-outs of callers are not.
* *Remote exec*: only the gateway's and the tool's own steps and timers
  (`Timers`) are fair. Neither the node, nor the network, nor an operator owes
  an answer, so `EveryExecReported` rests on the timers alone.
* *Replies*: the run streams to its end, deliveries end or fail, a send ends or
  times out (weak, one disjunction). The callers that await the first typing
  indicator and the indicator's time limit have none: `RepliesEnd` holds without.
* *Cron*: timers fire, the promise chain is served in order, jobs end (the
  agent's time-out and the two minutes a job waits for a heartbeat): weak
  fairness. The clock, callers, reloads and crashes have none.

## 4. The proofs

TLAPS checks these for every value of the constants that the named assumptions
allow: any number of lanes, tasks, agents, jobs and any bounds.

**CommandQueueProofs.** `TypeCorrect`, `CountsCorrect`, `WakeupCorrect`,
`QueueCorrect` and `Implements` (the safety part of `LaneExecutor`, step by step
through the refinement mapping). None of the first three is inductive alone: the
strengthening says where a lane's frames may be on the stack. A lane that is
draining has a pump frame of its own below, a lane with room for waiting work
has one above which no completion can intervene, and frames of settling tasks
are unique; from that, an empty stack gives `NoLostWakeup`. Assumed: `Lane` is
not empty, `Task` is finite (for counting), `Setting` are integers, `Nests`
relates lanes.

**HeartbeatReplyProofs.** Two components that share no state, proved side by
side; the runner's `BeatInit`, `BeatNext`, `BeatSpec`, `BeatTypeOK` are named so
that both can be extended. *Heartbeats*: `RunnerUsesWake` shows that every behaviour of the runner
is one of `HeartbeatWake`; the three safety properties (`WakesKept`,
`CallsSerial`, `TimerJustified`) are then proved of the small module and
inherited. `ChainKept` proves that the chain of beats survives every disturbance
unless heartbeats were off since the last beat was scheduled, with the
invariant that ties a running call to the phase of the loop and one that ties the
switch to its history (`OffRecorded`).

*Replies*: `EverythingTheorem`, `OrderTheorem`, `SilentTheorem` and the types
(`ReplyTypes`). A block is a number, its place in the run. `ReplyInv` says where
the numbers may be: they rise along the chat, the dispatcher's queue, the timed-out
payloads, the pipeline's chain and the coalescer's buffer, in this order
(`FrontInOrder`, `Good`), final payloads left out. A key has been seen if and
only if it was sent or is in the chain, and every block the run has produced has a
seen key or one in the buffer, unless the pipeline is aborted (`PipeInv`). What
was sent is in the chat or queued unless a delivery failed (`SentArrives`); once
the reply is built, every key is in the chat or among the payloads the dispatch
waits for (`AllUnderway`). A final payload exists only if nothing was sent or a
block timed out (`RunInv`). Every branch of `enqueue` is a row of three moves, each
a lemma: a block joins the buffer, is skipped, or the buffer joins the chain
(`PushKeeps`, `SkipKeeps`, `FlushKeeps`). `SilentTheorem` is the safety part of
`RepliesEnd`: whoever waits for the first indicator or repeats it made the
controller active, and the end seals an active one (`TypingInv`). Assumed: the run
is a finite sequence of keys, media are some of its blocks, each block may call the
typing controller. Repetitions, media, coalescing and time-outs are arbitrary.

**CronProofs.** `EveryOnGrid` and `IntervalAdvances`: the next run of an interval
lies on its grid, never in the past, and strictly later away from the grid.
`NextWakeFacts`: the next wake is the least next run. `TypesKept`,
`MarkersKept` and `DueKept` rest on the invariant that the jobs an operation
still has to run, or is running, are present, due unless a caller forces the run, and each
there once; `DueJobsStay` is about a lock that spans an agent turn, and it needs
the truth of the running marker and of `op` together. `ServedOnce` adds,
for each job, that what has been served lies in the past and not after the next run,
in memory, and the same of the file with what it has as served (`SlotInv`): a crash
makes memory the file and leaves that part of the history only, so what an earlier
save recorded is never served again, and what none recorded may be
(`CronServiceRerun`). A recomputed next run is later than now, except on the grid of
an anchor, which may hold this very instant: an anchored interval can serve a due
time again but never an earlier one. The theorem needs no assumption on schedules,
saves or reloads.
`SavedFirst` and `TimerKept` assume `SavesSucceed`: no full disk, no rejected patch and
no expression that the parser rejects, each of which ends an operation before it
saves and arms; `TimerKept` also that no reload replaces the service
(`CronServiceEnable` shows what it does). `TimerKept` is an induction over the whole
state of the timer: where it does not cover the earliest job, an operation that will
arm it is under way or waits for the lock, and a running flag always has its tick,
so that a timer that fires meanwhile may be consumed. Assumed throughout: the
schedules are well formed, the bounds and the backoff are naturals.

**RemoteExecProofs.** `ExecTypes`, and three invariants over it.
`RegistryTruthful`: the registry's two maps and the gateway's sockets say the
same (`MapsMatch`), which a registration keeps only when no sibling is listed
and the socket is still in its handshake: the two cases `causes` records are
where the induction breaks. `ApprovedOnly`: a pending record has no decision, a
decision is never taken twice, so what permitted a command when it was sent
(`ApprovalInv`) still stands when the node starts it. `SuccessTold`: a command is
on one connection at most and is not on its way once started, a result follows
an acknowledged event (`Reported`), request by request; a step is either
`Quiet` for a request or one of the five that move it on. Assumed: connections
are numbered, `None` is not one of them, `Forwarded` is within `Asked`.

**SessionWriteLockProofs.** `SingleWriterTheorem` and `FileKeptTheorem` hold while the
history is clean, `CountsTheorem` in every process that is not astray,
`NoFileLeftTheorem` always. Mutual exclusion does not follow from the file alone:
`Files` ties every step of the protocol to the file it acts on. An entry of
`HELD_LOCKS`, a writer of the payload and an unlinker own the file at the path
(`EntryIsFile`, `WriterIsFile`, `UnlinkerIsFile`), a remover has seen a stale file and
works alone (`RemoverIsRight`), and a file that is there has a holder, a writer or a
dead owner (`FileHasReason`). The other two rest on what no overlap can spoil
(`Counts`): in a process in which one call at a time has the file open, whoever
writes it finds no entry (`OneWriter`), so the count of an entry is the cardinality
of its holders (`HoldersCounted`; the library's facts on adding and removing an
element carry it); and the file of a living process is one that its caller is
writing, or failed to, or that an entry or an unlinker of the process answers for
(`FileOwned`), which elsewhere needs that no entry counts more than its holders.
Assumed: `None` is neither a caller nor an entry; callers and processes may be
infinitely many.

**SessionStoreProofs.** `UpdatesKeptTheorem`, `LoadsCurrentTheorem`, the action
property `LockedTheorem` (`LockedKeepsOthers`) and `ImplementsTheorem`, all with reads
that may fail. The invariant says what a writer's copy was taken from: who works
inside the lock owns it (`OwnerInside`), a copy loaded in there is still the file's,
or empty after a read that failed (`LockedCurrent`), a cache entry with the file's
mtime has its content, or is empty after such a read, and none is newer than the file
(`CacheBehind`), and a copy a writer took before asking for the lock is current unless
one of the five causes occurred (`BaseCurrent`). `UpdatesKept` needs all of them,
because it is the copy a writer holds, not the file, that the next save puts there.
`ImplementsTheorem` shows the refinement of `AtomicStore` step by step: a rename
applies the update, since the copy it writes is the file's (`BaseCurrent`) until a
cause occurs; a step that adds a cause, a failing read among them, is `Break`; a crash
is `Die`; any other moves one call or none.

**FollowupQueueProofs.** `QueuedOnceTheorem`, `OneDrainTheorem`, `RoutingTheorem`,
`CapTheorem` and the action property `NoOvertakingTheorem`. Inductive is
`QueuedExactlyOnce` with: the items of an object are exactly the messages marked
as waiting for it, each once (`ItemsAreWaiting`); an object not dispatched yet has
left no trace (`Untouched`), so a new queue is fresh; the types. Lemmas describe
an enqueue by the suffix it leaves and the prefix it drops (`Split`), and a
drain's batch by the messages it is handed, for every drop policy and mode. A reply that throws
changes no queue, so the excuses of the liveness properties have no part in these.
`SummaryTheorem` (`SummaryCount`) is a second induction on top: the messages a
summary owes are finitely many and counted, and an object that owes some has a run
to report them with (`Owes`), without which a drain would discard its count.
Assumed: there is a setting, since a new queue takes those of its first
message, and `None` is no message. Nothing bounds messages, caps or externals.

**SubagentProofs.** `KeptTheorem`, `ClaimTheorem`, `AnnouncedTheorem`,
`HeardTheorem` and `DiskTheorem`, for the registry with its announce queue. The
invariant has three layers. `QueueInv`: a queued announcement is in the queue or
in the message being sent, once (`Placed`), those a summary owes are finitely many
and counted (`Accounted`), and a queue with work has a drain (`Driven`). `RunInv`,
run by run: a claimed cleanup has one flow (`Flowing`), unless the last save failed
a restart would find what memory holds (`Saved`), after a crash nothing runs (`Down`),
what has a fate is offered to no flow, in memory or, but for failed saves, on disk
(`Once`), a run not yet registered has no record, caller or flow (`Unregistered`), and
only the policy `new` refuses (`Refusals`). `DiskTheorem` (`DiskRemembers`) is the
part of `Once` that a crash relies on: the file never offers again what was
announced, unless a save of it failed. `HeardInv`: how often a run was heard,
against its fate and its flows, which makes `HeardOnce` inductive: without it a
flow resumed after a restart could repeat what was heard. A step concerns one run
(`Untouched` gives the others), or is one of the queue's. Assumed: the caps are
positive, there is a setting, `Absent` is no run. The finiteness of the dropped
announcements is proved, not assumed.

Only model-checked: liveness (`EveryTaskSettles`, `FollowupsReachAgent`,
`SummariesReported`, `EveryCallerHolds`, `DueAgentsBeat`, `DueJobsRun`,
`ResultsAnnounced`, `CallsAnswered`, `EveryExecReported`, `RepliesEnd`, and that
of the refinement `ImplementsExecutor`) because TLAPS here has no support for
fairness and `ENABLED`. Every invariant and every safety action property of the passing
runs is a theorem. No module here uses `RECURSIVE` operators; what recursion over
data computes is beyond these provers.

## 5. Hazards that no property covers

`PROJECT.json` lists the hazards the properties are for; one with no property has a
note that says why, mostly that the code does what the hazard says. These are known
besides:

* `process/command-queue.ts:150`: callers of a cleared lane wait for ever; no text
  promises them an answer, and `EveryTaskSettles` accepts it.
* `auto-reply/reply/get-reply-run.ts:329` and `:334`, `commands/agent.ts:448`:
  interrupts, stale activity checks and runs that never drain leave messages
  behind; the three settings of `FollowupQueueLive.cfg` above show each.
* `auto-reply/dispatch.ts:55`: a reply that throws skips `markDispatchIdle`; only the
  time limit of the typing indicator ends it, and `RepliesEnd` has no such reply.
* `server-cron.ts:58`: cron calls `runHeartbeatOnce` without the wake layer, so
  `OneCallAtATime` does not keep two heartbeats apart; the check of the main lane does.
* `auto-reply/reply/queue/drain.ts:113`: an error of `runFollowup` is logged only, and
  the batch it was given is lost; `DrainFails` does it, no text promises a retry.
* `agents/session-write-lock.ts:170`, `config/sessions/store.ts:320`: of two waiters
  that found one stale lock, the slower removes the fresh lock of the faster. It is
  an overlap (`clean`) in the one model and the cause `"evicted"` in the other.
* `gateway/server.impl.ts:443`: RPC handlers keep the service of the start-up after a
  reload has replaced it (`CronServiceEnable`, `CronServiceReload`).
* `cron/service/timer.ts:73` and `:311`, `cron/service/jobs.ts:40`: a failed save
  ends the tick before the timer is armed; a stopped service arms its timer; a
  one-shot job cannot be given a new time. Instances above.
* `gateway/server/ws-connection/message-handler.ts:826`: a handshake that ends
  after its socket registers a session that nothing removes;
  `SessionsMatchSockets` excludes it as `"late"`.
* `auto-reply/reply/agent-runner-payloads.ts:87`: a block whose delivery failed
  counts as streamed, so the final payload that would repeat it is dropped.
* `infra/device-pairing.ts:149`: pending and paired requests are two files.

## 6. Plan

Done: nine components, eight proof modules. Next, in order of worth:

1. `EmbeddedRuns`: `FollowupQueue` over a real `CommandQueue` in place of "one
   active run", with steering and aborts.
2. `InboundDebounce`, `AuthProfiles` with `ModelFallback`, `DevicePairing`,
   `GatewayLock`.
