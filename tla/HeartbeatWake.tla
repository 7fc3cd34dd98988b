--------------------------- MODULE HeartbeatWake ---------------------------
(***************************************************************************)
(* src/src/infra/heartbeat-wake.ts: requests for a heartbeat are coalesced *)
(* by one timer, handed to the registered handler one at a time, and       *)
(* retried when the handler throws or finds the main lane busy.            *)
(***************************************************************************)
EXTENDS Naturals, Sequences

CONSTANTS
  Reason,  \* reasons of requests
  None     \* no pending reason

ASSUME NoneAssumption == None \notin Reason

VARIABLES
  handler,    \* is a handler registered
  pending,    \* pendingReason: Reason \cup {None}
  scheduled,  \* the scheduled flag
  running,    \* the running flag
  timer,      \* is the timer set
  calls       \* Seq(Reason): handler calls not settled yet, with their reasons

wakeVars == <<handler, pending, scheduled, running, timer, calls>>

WakeInit ==
  /\ handler = FALSE
  /\ pending = None
  /\ scheduled = FALSE /\ running = FALSE /\ timer = FALSE
  /\ calls = <<>>

\* requestHeartbeatNow: every caller gives a reason, the last one stays.
Request(r) ==
  /\ pending' = r
  /\ timer' = TRUE
  /\ UNCHANGED <<handler, scheduled, running, calls>>

\* Mutant: a handler that arrives late does not look for pending wakes.
SetHandlerOnly(next) ==
  /\ handler' = next
  /\ UNCHANGED <<pending, scheduled, running, timer, calls>>

\* setHeartbeatWakeHandler.
SetHandler(next) ==
  /\ handler' = next
  /\ timer' = (timer \/ (next /\ pending # None))
  /\ UNCHANGED <<pending, scheduled, running, calls>>

\* The timer fires and nobody listens.
FireUnheard ==
  /\ timer /\ ~handler
  /\ timer' = FALSE /\ scheduled' = FALSE
  /\ UNCHANGED <<handler, pending, running, calls>>

\* The timer fires during a run and is set again.
FireDuringRun ==
  /\ timer /\ handler /\ running
  /\ scheduled' = TRUE
  /\ UNCHANGED <<handler, pending, running, timer, calls>>

Call ==
  /\ timer' = FALSE /\ scheduled' = FALSE
  /\ pending' = None
  /\ running' = TRUE
  /\ calls' = Append(calls, pending)
  /\ UNCHANGED handler

\* Mutant: the timer does not look at the running flag.
FireAlways == timer /\ handler /\ Call

\* The timer fires and the handler is called.
Fire == timer /\ handler /\ ~running /\ Call

\* The handler is done, and does not ask for a retry.
Settle ==
  /\ calls # <<>>
  /\ calls' = Tail(calls)
  /\ running' = FALSE
  /\ timer' = (timer \/ pending # None \/ scheduled)
  /\ UNCHANGED <<handler, pending, scheduled>>

\* The handler threw, or the main lane was busy.
SettleRetry ==
  /\ calls # <<>>
  /\ pending' = Head(calls)
  /\ calls' = Tail(calls)
  /\ running' = FALSE
  /\ timer' = TRUE
  /\ UNCHANGED <<handler, scheduled>>

WakeStep ==
  \/ \E r \in Reason : Request(r)
  \/ \E next \in BOOLEAN : SetHandler(next)
  \/ FireUnheard \/ FireDuringRun \/ Fire
  \/ Settle \/ SettleRetry

WakeSpec == WakeInit /\ [][WakeStep]_wakeVars

-----------------------------------------------------------------------------
WakeTypeOK ==
  /\ handler \in BOOLEAN /\ scheduled \in BOOLEAN
  /\ running \in BOOLEAN /\ timer \in BOOLEAN
  /\ pending \in Reason \cup {None}
  /\ calls \in Seq(Reason)

\* A pending wake with somebody to handle it always has a timer or a running
\* handler that will look for it: no arrival of a handler, settled call, retry
\* or firing forgets it.
NoWakeLost == handler /\ pending # None => timer \/ running

\* The handler is never called while a call of it is out, and the flag is up
\* exactly while one is.
OneCallAtATime == Len(calls) = (IF running THEN 1 ELSE 0)

\* The timer is set only for a pending wake: a handler is never called without
\* a reason, and an idle system does not spin.
TimerHasReason == timer => pending # None
=============================================================================
