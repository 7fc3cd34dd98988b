--------------------------- MODULE FollowupQueue ---------------------------
(***************************************************************************)
(* src/src/auto-reply/reply/queue: messages that arrive for a session      *)
(* while its agent is busy are queued, and drained one by one or in        *)
(* batches once the reply run is over.  One session key is modelled, with  *)
(* the runs that make the session busy: reply runs, the drain's own runs   *)
(* and runs started by the agent RPC, serialised by the session lane.      *)
(*                                                                         *)
(* A queue object outlives its entry in FOLLOWUP_QUEUES when a clear meets *)
(* a drain in progress, so objects have an identity: the message whose     *)
(* arrival created them.                                                   *)
(***************************************************************************)
EXTENDS Naturals, Sequences, FiniteSets

CONSTANTS
  Msg,         \* inbound messages
  None,        \* no queue under the key
  Id, IdOf,    \* [Msg -> Id] provider message ids; a redelivery shares one
  Route,       \* resolved routing keys of messages
  Unkeyed,     \* a message without any routing field
  Unroutable,  \* a message whose channel cannot be routed to
  RouteOf,     \* [Msg -> Route \cup {Unkeyed, Unroutable}]
  Settings,    \* queue settings a message may carry
  Disturb,     \* what else happens: subset of {"stale", "external", "stop", "interrupt", "throw"}
  MaxExternal  \* bound on agent RPC runs

ASSUME NoneAssumption == None \notin Msg
ASSUME SettingsAssumption ==
  /\ Settings # {}
  /\ Settings \subseteq [mode : {"collect", "followup"}, drop : {"summarize", "old", "new"},
                         cap : Nat \ {0}]

VARIABLES
  current,   \* FOLLOWUP_QUEUES.get(key): Msg \cup {None}
  queues,    \* [Msg -> Queue] queue objects
  pc,        \* [Msg -> {"idle", "debounce", "running"}] the drain of an object
  forced,    \* [Msg -> BOOLEAN] forceIndividualCollect of that drain
  batch,     \* [Msg -> Batch] what that drain last handed to runFollowup
  isActive,  \* [Msg -> BOOLEAN] isEmbeddedPiRunActive as the message saw it
  fate,      \* [Msg -> Fate] what became of the message
  home,      \* [Msg -> Msg \cup {None}] the object that accepted it
  reply,     \* [Msg -> RunState] the message's own reply run
  followup,  \* [Msg -> RunState] the run started by the drain of an object
  external,  \* RunState of an agent RPC run
  externals  \* how many of those there were

queueVars == <<current, queues, pc, forced, batch>>
runVars == <<reply, followup, external, externals>>
vars == <<current, queues, pc, forced, batch, isActive, fate, home, reply, followup,
          external, externals>>

\* A reply run that "threw" after its agent run scheduled no drain, and no reply
\* run has scheduled one since.
RunState == {"none", "waiting", "active", "ended", "lost", "threw"}
Fate == {"new", "checked", "direct", "queued", "duplicate", "refused", "dropped",
         "summarized", "handed", "reported", "cleared"}

Queue == [items : Seq(Msg), draining : BOOLEAN, mode : {"collect", "followup"},
          drop : {"summarize", "old", "new"}, cap : Nat \ {0}, dropped : Nat,
          lines : Seq(Msg), hasRun : BOOLEAN]

NewQueue(s) ==
  [items |-> <<>>, draining |-> FALSE, mode |-> s.mode, drop |-> s.drop, cap |-> s.cap,
   dropped |-> 0, lines |-> <<>>, hasRun |-> FALSE]

Elements(s) == {s[i] : i \in DOMAIN s}
LastN(s, n) == IF Len(s) <= n THEN s ELSE SubSeq(s, Len(s) - n + 1, Len(s))
Busy(q) == q.items # <<>> \/ q.dropped > 0

SessionActive ==
  \/ external = "active"
  \/ \E m \in Msg : reply[m] = "active" \/ followup[m] = "active"

-----------------------------------------------------------------------------
Init ==
  /\ current = None
  /\ queues = [m \in Msg |-> NewQueue(CHOOSE s \in Settings : TRUE)]
  /\ pc = [m \in Msg |-> "idle"]
  /\ forced = [m \in Msg |-> FALSE]
  /\ batch = [m \in Msg |-> [items |-> <<>>, summary |-> {}]]
  /\ isActive = [m \in Msg |-> FALSE]
  /\ fate = [m \in Msg |-> "new"]
  /\ home = [m \in Msg |-> None]
  /\ reply = [m \in Msg |-> "none"]
  /\ followup = [m \in Msg |-> "none"]
  /\ external = "none"
  /\ externals = 0

-----------------------------------------------------------------------------
(***************************************************************************)
(* Arrival and enqueue.                                                    *)
(***************************************************************************)

IsRunAlreadyQueued(m, items) ==
  \E k \in Elements(items) : IdOf[k] = IdOf[m] /\ RouteOf[k] = RouteOf[m]

\* getFollowupQueue: the settings of the newest message apply to the queue.
Configured(s) ==
  IF current = None THEN NewQueue(s)
  ELSE [queues[current] EXCEPT !.mode = s.mode, !.drop = s.drop, !.cap = s.cap]

\* applyQueueDropPolicy: how many of the oldest messages make room for one more.
DropCount(q) == Len(q.items) - q.cap + 1

Dropped(q) == SubSeq(q.items, 1, DropCount(q))
Kept(q) == SubSeq(q.items, DropCount(q) + 1, Len(q.items))

\* The rest of applyQueueDropPolicy on a full queue, and the push that follows.
Overflow(q, m) ==
  IF q.drop = "summarize"
    THEN [q EXCEPT !.items = Append(Kept(q), m), !.dropped = @ + DropCount(q),
                   !.lines = LastN(@ \o Dropped(q), q.cap)]
    ELSE [q EXCEPT !.items = Append(Kept(q), m)]

\* enqueueFollowupRun.
EnqueueFollowupRun(m, s) ==
  LET o == IF current = None THEN m ELSE current
      q == Configured(s)
      full == Len(q.items) >= q.cap
      next == [q EXCEPT !.hasRun = TRUE]
      fateOnDrop == IF q.drop = "summarize" THEN "summarized" ELSE "dropped"
  IN /\ current' = o
     /\ \/ /\ IsRunAlreadyQueued(m, q.items)
           /\ queues' = [queues EXCEPT ![o] = q]
           /\ fate' = [fate EXCEPT ![m] = "duplicate"]
           /\ UNCHANGED home
        \/ /\ ~IsRunAlreadyQueued(m, q.items)
           /\ full /\ q.drop = "new"
           /\ queues' = [queues EXCEPT ![o] = next]
           /\ fate' = [fate EXCEPT ![m] = "refused"]
           /\ UNCHANGED home
        \/ /\ ~IsRunAlreadyQueued(m, q.items)
           /\ ~full
           /\ queues' = [queues EXCEPT ![o] = [next EXCEPT !.items = Append(@, m)]]
           /\ fate' = [fate EXCEPT ![m] = "queued"]
           /\ home' = [home EXCEPT ![m] = o]
        \/ /\ ~IsRunAlreadyQueued(m, q.items)
           /\ full /\ q.drop # "new"
           /\ queues' = [queues EXCEPT ![o] = Overflow(next, m)]
           /\ fate' = [k \in Msg |-> IF k = m THEN "queued"
                                     ELSE IF k \in Elements(Dropped(q)) THEN fateOnDrop ELSE fate[k]]
           /\ home' = [home EXCEPT ![m] = o]
     /\ UNCHANGED <<pc, forced, batch>>

\* runReplyAgent with the snapshot of isActive: queue, or run at once.
QueueOrRun(m, active) ==
  \/ /\ active
     /\ \E s \in Settings : EnqueueFollowupRun(m, s)
     /\ UNCHANGED runVars
  \/ /\ ~active
     /\ fate' = [fate EXCEPT ![m] = "direct"]
     /\ reply' = [reply EXCEPT ![m] = "waiting"]
     /\ UNCHANGED <<queueVars, home, followup, external, externals>>

\* A message arrives and is dispatched while nothing else happens.
Arrive(m) ==
  /\ fate[m] = "new"
  /\ QueueOrRun(m, SessionActive)
  /\ UNCHANGED isActive

\* runPreparedReply awaits the auth profile between the check and its use.
CheckActive(m) ==
  /\ "stale" \in Disturb
  /\ fate[m] = "new"
  /\ isActive' = [isActive EXCEPT ![m] = SessionActive]
  /\ fate' = [fate EXCEPT ![m] = "checked"]
  /\ UNCHANGED <<queueVars, runVars, home>>

Dispatch(m) ==
  /\ fate[m] = "checked"
  /\ QueueOrRun(m, isActive[m])
  /\ UNCHANGED isActive

-----------------------------------------------------------------------------
(***************************************************************************)
(* Drain.                                                                  *)
(***************************************************************************)
\* scheduleFollowupDrain, where the objects are qs, the drains pcs and the entry
\* of the key is c: the synchronous part runs up to the first await.
\* Mutant: the draining flag is not looked at.
AnyObject(qs) == Msg

Undrained(qs) == {o \in Msg : ~qs[o].draining}

ScheduleFollowupDrain(qs, c, pcs) ==
  \/ /\ c \notin Undrained(qs)
     /\ queues' = qs /\ current' = c /\ pc' = pcs
     /\ UNCHANGED forced
  \/ /\ c \in Undrained(qs) /\ Busy(qs[c])
     /\ queues' = [qs EXCEPT ![c].draining = TRUE]
     /\ current' = c
     /\ pc' = [pcs EXCEPT ![c] = "debounce"]
     /\ forced' = [forced EXCEPT ![c] = FALSE]
  \/ /\ c \in Undrained(qs) /\ ~Busy(qs[c])
     /\ queues' = qs /\ current' = None /\ pc' = pcs
     /\ UNCHANGED forced

\* The finally block of the drain of o, whose object is now q: delete the entry
\* of the key, whichever object it names by then, or schedule again.
FinishDrain(o, q) ==
  LET qs == [queues EXCEPT ![o] = [q EXCEPT !.draining = FALSE]]
      pcs == [pc EXCEPT ![o] = "idle"]
  IN IF Busy(q)
       THEN ScheduleFollowupDrain(qs, current, pcs)
       ELSE queues' = qs /\ current' = None /\ pc' = pcs /\ UNCHANGED forced

\* Mutant: only an unroutable item makes a batch mixed.
HasUnroutableItem(items) == \E m \in Elements(items) : RouteOf[m] = Unroutable

\* hasCrossChannelItems with the routing keys of followup runs.
HasCrossChannelItems(items) ==
  LET keys == {RouteOf[m] : m \in Elements(items)} IN
    \/ Unroutable \in keys
    \/ Cardinality(keys) > 1

\* Mutant: a single dropped message gets no summary.
HasLongSummary(q) == q.drop = "summarize" /\ q.dropped > 1

\* buildQueueSummaryPrompt: the dropped messages it reports, if it is built.
HasSummary(q) == q.drop = "summarize" /\ q.dropped > 0
Pending(o) == {m \in Msg : fate[m] = "summarized" /\ home[m] = o}
Summarized(q) == [q EXCEPT !.dropped = 0, !.lines = <<>>]

\* The call of runFollowup: the run queues on the session lane.
RunFollowup(o, q, items, summary) ==
  /\ queues' = [queues EXCEPT ![o] = q]
  /\ pc' = [pc EXCEPT ![o] = "running"]
  /\ batch' = [batch EXCEPT ![o] = [items |-> items, summary |-> summary]]
  /\ followup' = [followup EXCEPT ![o] = "waiting"]
  /\ fate' = [m \in Msg |-> IF m \in Elements(items) THEN "handed"
                            ELSE IF m \in summary THEN "reported" ELSE fate[m]]
  /\ UNCHANGED current

Break(o, q) == FinishDrain(o, q) /\ UNCHANGED <<batch, followup, fate>>

\* Mutant: the newest item is taken.
TakeNewest(o, individually) ==
  LET q == queues[o]
      n == Len(q.items)
  IN \/ /\ q.items # <<>>
        /\ forced' = [forced EXCEPT ![o] = individually]
        /\ RunFollowup(o, [q EXCEPT !.items = SubSeq(@, 1, n - 1)], <<q.items[n]>>, {})
     \/ /\ q.items = <<>>
        /\ Break(o, q)

\* One item is taken on its own; without one the loop breaks.
TakeNext(o, individually) ==
  LET q == queues[o] IN
    \/ /\ q.items # <<>>
       /\ forced' = [forced EXCEPT ![o] = individually]
       /\ RunFollowup(o, [q EXCEPT !.items = Tail(@)], <<Head(q.items)>>, {})
    \/ /\ q.items = <<>>
       /\ Break(o, q)

\* Collect mode, items of mixed or unroutable destinations.
CollectIndividually(o) ==
  /\ pc[o] = "debounce"
  /\ queues[o].mode = "collect"
  /\ forced[o] \/ HasCrossChannelItems(queues[o].items)
  /\ TakeNext(o, TRUE)
  /\ UNCHANGED <<isActive, home, reply, external, externals>>

\* Collect mode, one destination: everything queued goes in one prompt, with
\* the summary of what was dropped.
CollectBatch(o) ==
  /\ pc[o] = "debounce"
  /\ queues[o].mode = "collect"
  /\ ~forced[o] /\ ~HasCrossChannelItems(queues[o].items)
  /\ LET q == queues[o]
         rest == [(IF HasSummary(q) THEN Summarized(q) ELSE q) EXCEPT !.items = <<>>]
         summary == IF HasSummary(q) THEN Pending(o) ELSE {}
     IN \/ /\ q.items # <<>> \/ q.hasRun
           /\ RunFollowup(o, rest, q.items, summary)
           /\ UNCHANGED forced
        \/ /\ q.items = <<>> /\ ~q.hasRun
           /\ Break(o, rest)
  /\ UNCHANGED <<isActive, home, reply, external, externals>>

\* The other modes: first the summary of dropped messages, then one by one.
DrainNext(o) ==
  /\ pc[o] = "debounce"
  /\ queues[o].mode # "collect"
  /\ LET q == queues[o] IN
       \/ /\ HasSummary(q) /\ q.hasRun
          /\ RunFollowup(o, Summarized(q), <<>>, Pending(o))
          /\ UNCHANGED forced
       \/ /\ HasSummary(q) /\ ~q.hasRun
          /\ Break(o, Summarized(q))
       \/ /\ ~HasSummary(q)
          /\ TakeNext(o, forced[o])
  /\ UNCHANGED <<isActive, home, reply, external, externals>>

\* Mutant: the drain ends after one run and schedules nothing.
DrainResumeOnce(o) ==
  /\ pc[o] = "running"
  /\ followup[o] = "ended"
  /\ followup' = [followup EXCEPT ![o] = "none"]
  /\ queues' = [queues EXCEPT ![o].draining = FALSE]
  /\ pc' = [pc EXCEPT ![o] = "idle"]
  /\ UNCHANGED <<current, forced, batch, isActive, fate, home, reply, external, externals>>

\* runFollowup returned: loop again or leave.
DrainResume(o) ==
  /\ pc[o] = "running"
  /\ followup[o] = "ended"
  /\ followup' = [followup EXCEPT ![o] = "none"]
  /\ \/ /\ Busy(queues[o])
        /\ pc' = [pc EXCEPT ![o] = "debounce"]
        /\ UNCHANGED <<queues, current, forced>>
     \/ /\ ~Busy(queues[o])
        /\ FinishDrain(o, queues[o])
  /\ UNCHANGED <<batch, isActive, fate, home, reply, external, externals>>

\* runFollowup threw: the error is logged and the drain ends.
DrainFails(o) ==
  /\ pc[o] = "running"
  /\ followup[o] = "ended"
  /\ followup' = [followup EXCEPT ![o] = "none"]
  /\ FinishDrain(o, queues[o])
  /\ UNCHANGED <<batch, isActive, fate, home, reply, external, externals>>

-----------------------------------------------------------------------------
(***************************************************************************)
(* The runs of the session, one at a time on its lane.                     *)
(***************************************************************************)
StartReply(m) ==
  /\ reply[m] = "waiting" /\ ~SessionActive
  /\ reply' = [reply EXCEPT ![m] = "active"]
  /\ UNCHANGED <<queueVars, isActive, fate, home, followup, external, externals>>

EndReply(m) ==
  /\ reply[m] = "active"
  /\ reply' = [reply EXCEPT ![m] = "ended"]
  /\ UNCHANGED <<queueVars, isActive, fate, home, followup, external, externals>>

\* An update of the session entry after the agent run (or after the memory flush
\* that precedes it) rejects: runReplyAgent leaves by its finally block.
ReplyThrows(m) ==
  /\ "throw" \in Disturb
  /\ reply[m] = "ended"
  /\ reply' = [reply EXCEPT ![m] = "threw"]
  /\ UNCHANGED <<queueVars, isActive, fate, home, followup, external, externals>>

\* finalizeWithFollowup, some awaits after the agent run itself is over.
FinalizeWithFollowup(m) ==
  /\ reply[m] = "ended"
  /\ reply' = [k \in Msg |-> IF k = m \/ reply[k] = "threw" THEN "none" ELSE reply[k]]
  /\ ScheduleFollowupDrain(queues, current, pc)
  /\ UNCHANGED <<batch, isActive, fate, home, followup, external, externals>>

StartFollowup(o) ==
  /\ followup[o] = "waiting" /\ ~SessionActive
  /\ followup' = [followup EXCEPT ![o] = "active"]
  /\ UNCHANGED <<queueVars, isActive, fate, home, reply, external, externals>>

EndFollowup(o) ==
  /\ followup[o] = "active"
  /\ followup' = [followup EXCEPT ![o] = "ended"]
  /\ UNCHANGED <<queueVars, isActive, fate, home, reply, external, externals>>

\* An agent RPC run of the session: nothing is scheduled when it ends.
ExternalRun ==
  /\ "external" \in Disturb
  /\ \/ /\ external = "none" /\ externals < MaxExternal
        /\ external' = "waiting"
        /\ externals' = externals + 1
     \/ /\ external = "waiting" /\ ~SessionActive
        /\ external' = "active"
        /\ UNCHANGED externals
     \/ /\ external = "active"
        /\ external' = "none"
        /\ UNCHANGED externals
  /\ UNCHANGED <<queueVars, isActive, fate, home, reply, followup>>

\* clearCommandLane of the session lane: promises of waiting runs never settle.
WithoutWaiting(runs) ==
  [m \in Msg |-> IF runs[m] = "waiting" THEN "lost" ELSE runs[m]]

ClearLane ==
  /\ followup' = WithoutWaiting(followup)
  /\ external' = IF external = "waiting" THEN "lost" ELSE external

\* Mutant: only the entry of the key is removed.
ForgetSessionQueues ==
  /\ "stop" \in Disturb
  /\ fate' = [m \in Msg |-> IF current # None /\ home[m] = current
                                 /\ fate[m] \in {"queued", "summarized"}
                              THEN "cleared" ELSE fate[m]]
  /\ current' = None
  /\ ClearLane
  /\ reply' = WithoutWaiting(reply)
  /\ UNCHANGED <<queues, pc, forced, batch, isActive, home, externals>>

\* clearSessionQueues, for /stop and session resets.
ClearSessionQueues ==
  /\ "stop" \in Disturb
  /\ \/ /\ current # None
        /\ queues' = [queues EXCEPT ![current].items = <<>>, ![current].dropped = 0,
                                    ![current].lines = <<>>, ![current].hasRun = FALSE]
        /\ fate' = [m \in Msg |-> IF home[m] = current /\ fate[m] \in {"queued", "summarized"}
                                    THEN "cleared" ELSE fate[m]]
        /\ current' = None
     \/ /\ current = None
        /\ UNCHANGED <<queues, fate, current>>
  /\ ClearLane
  /\ reply' = WithoutWaiting(reply)
  /\ UNCHANGED <<pc, forced, batch, isActive, home, externals>>

\* A message in interrupt mode clears the lane, not the queue, and runs.
Interrupt(m) ==
  /\ "interrupt" \in Disturb
  /\ fate[m] = "new"
  /\ {"waiting", "active"} \cap ({external} \cup {reply[k] : k \in Msg}
                                \cup {followup[k] : k \in Msg}) # {}
  /\ ClearLane
  /\ reply' = [WithoutWaiting(reply) EXCEPT ![m] = "waiting"]
  /\ fate' = [fate EXCEPT ![m] = "direct"]
  /\ UNCHANGED <<queueVars, isActive, home, externals>>

Next ==
  \/ \E m \in Msg :
       \/ Arrive(m) \/ CheckActive(m) \/ Dispatch(m) \/ Interrupt(m)
       \/ StartReply(m) \/ EndReply(m) \/ ReplyThrows(m) \/ FinalizeWithFollowup(m)
  \/ \E o \in Msg :
       \/ CollectIndividually(o) \/ CollectBatch(o) \/ DrainNext(o)
       \/ DrainResume(o) \/ DrainFails(o)
       \/ StartFollowup(o) \/ EndFollowup(o)
  \/ ExternalRun
  \/ ClearSessionQueues

Spec == Init /\ [][Next]_vars

\* Timers fire, file operations and agent runs end (a run has a timeout), and
\* the session lane starts the runs that wait for it.
Fairness ==
  \A m \in Msg :
    /\ WF_vars(Dispatch(m))
    /\ WF_vars(CollectIndividually(m) \/ CollectBatch(m) \/ DrainNext(m))
    /\ WF_vars(DrainResume(m) \/ DrainFails(m))
    /\ SF_vars(StartReply(m)) /\ WF_vars(EndReply(m))
    /\ WF_vars(ReplyThrows(m) \/ FinalizeWithFollowup(m))
    /\ SF_vars(StartFollowup(m)) /\ WF_vars(EndFollowup(m))

FairSpec == Spec /\ Fairness /\ SF_vars(external # "none" /\ ExternalRun)

-----------------------------------------------------------------------------
TypeOK ==
  /\ current \in Msg \cup {None}
  /\ DOMAIN queues = Msg
  /\ \A m \in Msg :
       /\ Elements(queues[m].items) \cup Elements(queues[m].lines) \subseteq Msg
       /\ [queues[m] EXCEPT !.items = <<>>, !.lines = <<>>] \in
            [items : {<<>>}, draining : BOOLEAN, mode : {"collect", "followup"},
             drop : {"summarize", "old", "new"}, cap : Nat \ {0}, dropped : Nat,
             lines : {<<>>}, hasRun : BOOLEAN]
  /\ pc \in [Msg -> {"idle", "debounce", "running"}]
  /\ forced \in [Msg -> BOOLEAN]
  /\ isActive \in [Msg -> BOOLEAN]
  /\ fate \in [Msg -> Fate]
  /\ home \in [Msg -> Msg \cup {None}]
  /\ reply \in [Msg -> RunState] /\ followup \in [Msg -> RunState]
  /\ external \in RunState /\ externals \in Nat

\* A message counted as queued is in the items of exactly one object, once, and
\* nothing else is in there: no drain, clear, overflow or re-creation of the
\* queue hands it over twice or leaks it into a second object.
QueuedExactlyOnce ==
  /\ \A o \in Msg : \A i, j \in DOMAIN queues[o].items :
       queues[o].items[i] = queues[o].items[j] => i = j
  /\ \A m, o \in Msg :
       m \in Elements(queues[o].items) <=> fate[m] = "queued" /\ home[m] = o

\* droppedCount of an object is the number of its messages a summary still owes.
SummaryCount == \A o \in Msg : queues[o].dropped = Cardinality(Pending(o))

\* One prompt never mixes messages of different destinations, whatever the mode
\* changes and arrivals between two iterations of the drain.
CollectKeepsRouting ==
  \A o \in Msg : pc[o] = "running" =>
    \A m, n \in Elements(batch[o].items) : RouteOf[m] = RouteOf[n]

\* Each object is drained by one loop at a time: the flag is up exactly while a
\* loop is on, and a followup run is out exactly while its loop awaits it.
OneDrainPerObject ==
  \A o \in Msg :
    /\ queues[o].draining <=> pc[o] # "idle"
    /\ followup[o] # "none" <=> pc[o] = "running"

\* Two queued messages of one object never have the same id and destination.
NoDuplicateQueued ==
  \A o \in Msg : \A m, n \in Elements(queues[o].items) :
    m # n => IdOf[m] # IdOf[n] \/ RouteOf[m] # RouteOf[n]

\* After a message is accepted the queue holds at most cap messages, also when
\* the cap was lowered below the number of messages already queued.
AcceptRespectsCap ==
  [][\A m \in Msg : fate[m] # "queued" /\ fate'[m] = "queued" =>
       Len(queues'[home'[m]].items) <= queues'[home'[m]].cap]_vars

\* Messages reach the agent in arrival order: nothing accepted later is handed
\* over while an earlier message still waits in the same queue.
NoOvertaking ==
  [][\A m \in Msg : fate[m] = "queued" /\ fate'[m] = "handed" =>
       LET items == queues[home[m]].items IN
         \A i, j \in DOMAIN items : i < j /\ items[j] = m => fate'[items[i]] = "handed"]_vars

\* The queue of m is left alone: a reply run threw past finalizeWithFollowup, no
\* later one has scheduled a drain, and no loop drains the object.
LeftByThrow(m) ==
  /\ \E k \in Msg : reply[k] = "threw"
  /\ home[m] # None /\ ~queues[home[m]].draining

\* A queued message is handed to the agent, or dropped by the policy of a later
\* one, or cleared: the queue drains after the run completes.  The one excuse is
\* a reply run that threw, as long as no later reply run comes to its end.
FollowupsReachAgent ==
  \A m \in Msg : []<>(fate[m] # "queued") \/ <>[]LeftByThrow(m)

\* A message dropped under the summarize policy is reported to the agent.  The
\* excuses are a reply run that threw, as above, and a queue that is left with
\* another drop policy by the last message that set it.
SummariesReported ==
  \A m \in Msg :
    \/ []<>(fate[m] # "summarized")
    \/ <>[]LeftByThrow(m)
    \/ <>[](home[m] # None /\ queues[home[m]].drop # "summarize")

\* The summary put into a batch is about messages of that batch's destination.
SummaryKeepsRouting ==
  \A o \in Msg : pc[o] = "running" =>
    \A m \in Elements(batch[o].items), n \in batch[o].summary : RouteOf[m] = RouteOf[n]
=============================================================================
