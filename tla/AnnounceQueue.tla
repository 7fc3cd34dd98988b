--------------------------- MODULE AnnounceQueue ---------------------------
(***************************************************************************)
(* src/src/agents/subagent-announce-queue.ts: announcements of finished    *)
(* subagents that meet a busy requester wait in a queue of the requester's *)
(* session and are sent one by one or in batches.  One session key is      *)
(* modelled; an announcement is named by the subagent run it reports.  The *)
(* queue is deleted only when it is empty and not draining, so an absent   *)
(* queue is an empty one.                                                  *)
(***************************************************************************)
EXTENDS Naturals, Sequences, FiniteSets

CONSTANTS
  Run,      \* subagent runs
  Route,    \* delivery routes of announcements
  RouteOf,  \* [Run -> Route]
  Settings  \* queue settings the session may have when an announcement is made

ASSUME RouteAssumption == RouteOf \in [Run -> Route]
ASSUME SettingsAssumption ==
  /\ Settings # {}
  /\ Settings \subseteq [mode : {"collect", "followup", "steer"},
                         drop : {"summarize", "old", "new"}, cap : Nat \ {0}]

VARIABLES
  queue,   \* the AnnounceQueueState under the key
  pc,      \* the drain: "idle", "debounce", "sending", or "spin" for ever
  forced,  \* forceIndividualCollect of the drain
  batch,   \* what the drain is sending
  fate,    \* [Run -> Fate] what became of the announcement
  heard    \* [Run -> Nat] how often the requester's agent was told of it

queueVars == <<queue, pc, forced, batch, fate, heard>>

Fate == {"none", "queued", "refused", "dropped", "summarized", "told", "reported",
         "overwritten", "unreported", "failed"}

Elements(s) == {s[i] : i \in 1..Len(s)}
LastN(s, n) == IF Len(s) <= n THEN s ELSE SubSeq(s, Len(s) - n + 1, Len(s))
Mark(rs, f) == [r \in Run |-> IF r \in rs THEN f ELSE fate[r]]

NoBatch == [items |-> <<>>, summary |-> <<>>, text |-> TRUE]
\* A new queue takes its settings from the enqueue that creates it.
EmptyQueue ==
  LET s == CHOOSE s \in Settings : TRUE
  IN [items |-> <<>>, mode |-> s.mode, drop |-> s.drop, cap |-> s.cap,
      dropped |-> 0, lines |-> <<>>]
Busy(q) == q.items # <<>> \/ q.dropped > 0

QueueTypeOK ==
  /\ queue.items \in Seq(Run) /\ queue.lines \in Seq(Run) /\ queue.dropped \in Nat
  /\ [mode |-> queue.mode, drop |-> queue.drop, cap |-> queue.cap] \in Settings
  /\ pc \in {"idle", "debounce", "sending", "spin"} /\ forced \in BOOLEAN
  /\ batch \in [items : Seq(Run), summary : Seq(Run), text : BOOLEAN]
  /\ fate \in [Run -> Fate] /\ heard \in [Run -> Nat]

QueueInit ==
  /\ queue = EmptyQueue
  /\ pc = "idle" /\ forced = FALSE /\ batch = NoBatch
  /\ fate = [r \in Run |-> "none"]
  /\ heard = [r \in Run |-> 0]

-----------------------------------------------------------------------------
\* applyQueueDropPolicy: how many of the oldest make room for one more.
DropCount(q) == IF Len(q.items) < q.cap THEN 0 ELSE Len(q.items) - q.cap + 1

Evicted(q) == SubSeq(q.items, 1, DropCount(q))

\* applyQueueDropPolicy of a queue that accepts the announcement, and the push.
Pushed(q, r) ==
  LET room == [q EXCEPT !.items = Append(SubSeq(@, DropCount(q) + 1, Len(@)), r)]
  IN IF q.drop # "summarize" THEN room
     ELSE [room EXCEPT !.dropped = @ + DropCount(q), !.lines = LastN(@ \o Evicted(q), q.cap)]

\* enqueueAnnounce: the newest settings apply; the drain is started in any case.
EnqueueAnnounce(r, s) ==
  LET q == [queue EXCEPT !.mode = s.mode, !.drop = s.drop, !.cap = s.cap]
  IN /\ \/ /\ Len(q.items) < q.cap \/ q.drop # "new"
           /\ queue' = Pushed(q, r)
           /\ fate' = [Mark(Elements(Evicted(q)),
                            IF q.drop = "summarize" THEN "summarized" ELSE "dropped")
                       EXCEPT ![r] = "queued"]
        \/ /\ Len(q.items) >= q.cap /\ q.drop = "new"
           /\ queue' = q
           /\ fate' = Mark({r}, "refused")
     /\ pc' = IF pc = "idle" THEN "debounce" ELSE pc
     /\ UNCHANGED <<forced, batch, heard>>

-----------------------------------------------------------------------------
(***************************************************************************)
(* The drain, from the end of a debounce to the next await.                *)
(***************************************************************************)
HasSummary == queue.drop = "summarize" /\ queue.dropped > 0
\* The dropped announcements that the next summary speaks of.
Summarized == {r \in Run : fate[r] = "summarized"} \ Elements(batch.summary)
Reset(q) == [q EXCEPT !.dropped = 0, !.lines = <<>>]

\* hasCrossChannelItems; every announcement has a route.
CrossChannel ==
  \E i, j \in 1..Len(queue.items) : RouteOf[queue.items[i]] # RouteOf[queue.items[j]]

\* The first n items leave the queue, with the summary if there is one.
Send(n, summary, text) ==
  /\ pc' = "sending"
  /\ batch' = [items |-> SubSeq(queue.items, 1, n), summary |-> summary, text |-> text]
  /\ queue' = [(IF summary = <<>> THEN queue ELSE Reset(queue))
                 EXCEPT !.items = SubSeq(queue.items, n + 1, Len(queue.items))]
  /\ fate' = IF summary = <<>> THEN fate ELSE Mark(Summarized \ Elements(summary), "unreported")
  /\ UNCHANGED heard

\* One item, not batched, in collect mode.
SendForced ==
  /\ pc = "debounce" /\ queue.mode = "collect"
  /\ forced \/ CrossChannel
  /\ queue.items # <<>>
  /\ forced' = TRUE
  /\ Send(1, <<>>, TRUE)

SendBatch ==
  /\ pc = "debounce" /\ queue.mode = "collect"
  /\ ~forced /\ ~CrossChannel
  /\ queue.items # <<>>
  /\ UNCHANGED forced
  /\ Send(Len(queue.items), IF HasSummary THEN queue.lines ELSE <<>>, TRUE)

SendNext ==
  /\ pc = "debounce" /\ queue.mode # "collect"
  /\ ~HasSummary
  /\ queue.items # <<>>
  /\ UNCHANGED forced
  /\ Send(1, <<>>, TRUE)

\* The summary takes the place of the next item's prompt.
SendSummary ==
  /\ pc = "debounce" /\ queue.mode # "collect"
  /\ HasSummary
  /\ queue.items # <<>>
  /\ UNCHANGED forced
  /\ Send(1, queue.lines, FALSE)

\* finally: a queue with work left gets a new drain, an empty one is deleted.
EndDrain(q) ==
  /\ forced' = FALSE
  /\ pc' = IF Busy(q) THEN "debounce" ELSE "idle"
  /\ queue' = IF Busy(q) THEN q ELSE EmptyQueue

\* Nothing left to send one by one; the summary waits for the next drain.
BreakForced ==
  /\ pc = "debounce" /\ queue.mode = "collect" /\ forced
  /\ queue.items = <<>>
  /\ EndDrain(queue)
  /\ UNCHANGED <<batch, fate, heard>>

\* The summary is built, there is no item to send it with, and the loop breaks.
LoseSummary ==
  /\ pc = "debounce" /\ ~(forced /\ queue.mode = "collect")
  /\ queue.items = <<>> /\ HasSummary
  /\ EndDrain(Reset(queue))
  /\ fate' = Mark(Summarized, "unreported")
  /\ UNCHANGED <<batch, heard>>

\* Dropped messages that may no longer be summarized: the loop breaks and is
\* started again without ever leaving the microtask queue.
Spin ==
  /\ pc = "debounce" /\ queue.items = <<>>
  /\ queue.dropped > 0 /\ ~HasSummary
  /\ ~(forced /\ queue.mode = "collect")
  /\ pc' = "spin"
  /\ UNCHANGED <<queue, forced, batch, fate, heard>>

Turn == SendForced \/ SendBatch \/ SendNext \/ SendSummary
        \/ BreakForced \/ LoseSummary \/ Spin

\* The agent got the message of the batch.
Delivered ==
  LET told == IF batch.text THEN Elements(batch.items) ELSE {}
      reported == Elements(batch.summary)
  IN /\ heard' = [r \in Run |-> heard[r] + (IF r \in told \cup reported THEN 1 ELSE 0)]
     /\ fate' = [r \in Run |->
                   IF r \in told THEN "told"
                   ELSE IF r \in Elements(batch.items) THEN "overwritten"
                   ELSE IF r \in reported THEN "reported"
                   ELSE fate[r]]

\* Mutant: the drain ends after each message.
SendDoneOnce ==
  /\ pc = "sending"
  /\ Delivered
  /\ batch' = NoBatch
  /\ pc' = "idle" /\ forced' = FALSE
  /\ UNCHANGED queue

\* queue.send resolves and the loop goes on.
SendDone ==
  /\ pc = "sending"
  /\ Delivered
  /\ batch' = NoBatch
  /\ IF Busy(queue) THEN pc' = "debounce" /\ UNCHANGED <<queue, forced>>
                    ELSE EndDrain(queue)

\* queue.send throws, possibly after the agent got the message; the batch is gone.
SendFails ==
  /\ pc = "sending"
  /\ \/ Delivered
     \/ /\ fate' = Mark(Elements(batch.items) \cup Elements(batch.summary), "failed")
        /\ UNCHANGED heard
  /\ batch' = NoBatch
  /\ EndDrain(queue)

QueueStep == Turn \/ SendDone \/ SendFails

\* The process died: what was waiting is gone.
QueueLost ==
  /\ queue' = EmptyQueue
  /\ pc' = "idle" /\ forced' = FALSE /\ batch' = NoBatch
  /\ fate' = [r \in Run |-> IF fate[r] \in {"queued", "summarized"} THEN "failed" ELSE fate[r]]
  /\ UNCHANGED heard

-----------------------------------------------------------------------------
\* Every announcement the queue has accepted and not sent is in exactly one
\* place: waiting once, in the message being sent, or counted among the dropped
\* ones of a pending or departing summary; and there is a drain to move it.
AnnouncementsKept ==
  /\ \A r \in Run :
       fate[r] = "queued" <=>
         Cardinality({i \in 1..Len(queue.items) : queue.items[i] = r})
           + Cardinality({i \in 1..Len(batch.items) : batch.items[i] = r}) = 1
  /\ Cardinality(Summarized) = queue.dropped
  /\ Elements(queue.lines) \subseteq Summarized
  /\ Busy(queue) => pc # "idle"
  /\ batch # NoBatch => pc = "sending"
=============================================================================
