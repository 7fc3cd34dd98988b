--------------------------- MODULE ReplyDelivery ---------------------------
(***************************************************************************)
(* The way of one streamed reply to the chat: the blocks of the run, the   *)
(* coalescer and the pipeline (src/src/auto-reply/reply/block-reply-*.ts), *)
(* the dispatcher (reply-dispatcher.ts), the final payload that replaces   *)
(* the blocks when they failed (agent-runner-payloads.ts), and the typing  *)
(* indicator that goes with it.                                            *)
(***************************************************************************)
EXTENDS Typing, Sequences

CONSTANTS
  Key,      \* texts and media
  KeyOf,    \* the blocks of the run, in order: Seq(Key)
  Media     \* numbers of the blocks that carry media

Block == DOMAIN KeyOf

ASSUME KeyAssumption == KeyOf \in Seq(Key)
ASSUME MediaAssumption == Media \subseteq Block
ASSUME CallerAssumption == Block \subseteq Caller

VARIABLES
  config,    \* [routed, coalescing : BOOLEAN]
  run,       \* "streaming", "flushing", "replying", "waiting", "done"
  streamed,  \* number of blocks the run has produced
  buffer,    \* coalescer: the blocks of bufferText
  buffered,  \* bufferedKeys
  seen,      \* seenKeys
  chain,     \* payloads of the pipeline's sendChain, the first one being sent
  sent,      \* sentKeys; not empty: didStream
  aborted,   \* the pipeline timed out
  late,      \* payloads that were timed out and are still on their way
  outbox,    \* payloads of the dispatcher's sendChain
  awaited,   \* how many of them the dispatch waits for at the end
  chat,      \* payloads that arrived
  failed     \* history: has a delivery failed

pipeVars == <<buffer, buffered, seen, chain, sent, aborted>>
vars == <<typingVars, pipeVars, config, run, streamed, late, outbox, awaited, chat, failed>>

\* A payload: its blocks, and whether it is the final one.
Payload(bs, isFinal) == [blocks |-> bs, final |-> isFinal]
PayloadType == [blocks : Seq(Block), final : BOOLEAN]
Keys(bs) == [i \in DOMAIN bs |-> KeyOf[bs[i]]]
Whole == [i \in Block |-> i]

TypeOK ==
  /\ TypingOK
  /\ config \in [routed : BOOLEAN, coalescing : BOOLEAN]
  /\ run \in {"streaming", "flushing", "replying", "waiting", "done"}
  /\ streamed \in 0 .. Len(KeyOf)
  /\ buffer \in Seq(Block) /\ buffered \subseteq Key
  /\ seen \subseteq Seq(Key) /\ sent \subseteq seen
  /\ chain \in Seq(Seq(Block))
  /\ aborted \in BOOLEAN /\ failed \in BOOLEAN
  /\ late \in Seq(Seq(Block))
  /\ outbox \in Seq(PayloadType) /\ chat \in Seq(PayloadType)
  /\ awaited \in 0 .. Len(outbox)

Init ==
  /\ TypingInit
  /\ config \in [routed : BOOLEAN, coalescing : BOOLEAN]
  /\ run = "streaming" /\ streamed = 0
  /\ buffer = <<>> /\ buffered = {} /\ seen = {} /\ chain = <<>> /\ sent = {}
  /\ aborted = FALSE /\ late = <<>>
  /\ outbox = <<>> /\ awaited = 0 /\ chat = <<>> /\ failed = FALSE

-----------------------------------------------------------------------------
(***************************************************************************)
(* The pipeline.                                                           *)
(***************************************************************************)
\* sendPayload: a payload whose key is new joins the chain.  (What is pending or sent
\* has been seen.)
Joined(state, bs) ==
  IF bs = <<>> \/ Keys(bs) \in state.seen THEN state
  ELSE [seen |-> state.seen \cup {Keys(bs)}, chain |-> Append(state.chain, bs)]

Now == [seen |-> seen, chain |-> chain]
Enter(bs) == LET after == Joined(Now, bs) IN seen' = after.seen /\ chain' = after.chain

\* One payload, then another.
EnterBoth(bs, cs) ==
  LET after == Joined(Joined(Now, bs), cs) IN seen' = after.seen /\ chain' = after.chain

\* Mutant: media overtakes the text that is buffered.
MediaFirst(i) == EnterBoth(<<i>>, buffer) /\ buffer' = <<>> /\ buffered' = {}

\* A media block: what is buffered goes first.
EnqueueMedia(i) ==
  /\ EnterBoth(buffer, <<i>>)
  /\ buffer' = <<>>
  /\ buffered' = IF buffer = <<>> THEN buffered ELSE {}

\* A text block joins the buffer; by length or by its reply tag it closes it, opens a
\* new one, or goes alone.  A flush forgets the buffered keys, the new one included.
EnqueueText(i) ==
  IF <<KeyOf[i]>> \in seen \/ KeyOf[i] \in buffered THEN UNCHANGED <<buffer, buffered, seen, chain>>
  ELSE \/ /\ buffer' = Append(buffer, i) /\ buffered' = buffered \cup {KeyOf[i]}
          /\ UNCHANGED <<seen, chain>>
       \/ /\ Enter(Append(buffer, i))
          /\ buffer' = <<>> /\ buffered' = {}
       \/ /\ buffer # <<>>
          /\ Enter(buffer)
          /\ buffer' = <<i>> /\ buffered' = {}
       \/ /\ buffer # <<>>
          /\ EnterBoth(buffer, <<i>>)
          /\ buffer' = <<>> /\ buffered' = {}

\* onBlockReply of the run: the typing signal is not awaited.
Stream ==
  LET i == streamed + 1 IN
  /\ run = "streaming" /\ i \in Block
  /\ streamed' = i
  /\ StartTyping(i)
  /\ CASE aborted -> UNCHANGED <<buffer, buffered, seen, chain>>
       [] ~aborted /\ i \in Media -> EnqueueMedia(i)
       [] ~aborted /\ i \notin Media /\ config.coalescing -> EnqueueText(i)
       [] OTHER -> Enter(<<i>>) /\ UNCHANGED <<buffer, buffered>>
  /\ UNCHANGED <<config, run, sent, aborted, late, outbox, awaited, chat, failed>>

\* flush of the coalescer.
FlushBuffer ==
  /\ IF aborted THEN UNCHANGED <<seen, chain>> ELSE Enter(buffer)
  /\ buffer' = <<>>
  /\ buffered' = IF aborted \/ buffer = <<>> THEN buffered ELSE {}

\* The idle timer of the coalescer.
IdleFlush ==
  /\ run = "streaming" /\ buffer # <<>>
  /\ FlushBuffer
  /\ UNCHANGED <<typingVars, config, run, streamed, sent, aborted, late, outbox, awaited, chat, failed>>

\* A payload has reached the chat, or has not, which is logged only.
Arrive(p) ==
  \/ chat' = Append(chat, p) /\ UNCHANGED failed
  \/ failed' = TRUE /\ UNCHANGED chat

\* onBlockReply of the dispatch: speech synthesis, then the dispatcher, or the other
\* channel the reply is routed to.
Forward(p) ==
  IF config.routed THEN Arrive(p) /\ UNCHANGED outbox
  ELSE outbox' = Append(outbox, p) /\ UNCHANGED <<chat, failed>>

SendBlock ==
  /\ chain # <<>>
  /\ Forward(Payload(Head(chain), FALSE))
  /\ chain' = Tail(chain)
  /\ sent' = sent \cup {Keys(Head(chain))}
  /\ UNCHANGED <<typingVars, config, run, streamed, buffer, buffered, seen, aborted, late, awaited>>

\* The first payload takes too long: it is on its way, the others are skipped.
BlockTimesOut ==
  /\ chain # <<>>
  /\ aborted' = TRUE
  /\ late' = Append(late, Head(chain))
  /\ chain' = <<>>
  /\ UNCHANGED <<typingVars, config, run, streamed, buffer, buffered, seen, sent, outbox, awaited,
                 chat, failed>>

\* Routed, it is stopped by its signal or still gets through; the dispatcher takes it.
LateBlock ==
  /\ late # <<>>
  /\ late' = Tail(late)
  /\ \/ Forward(Payload(Head(late), FALSE))
     \/ config.routed /\ UNCHANGED <<outbox, chat, failed>>
  /\ UNCHANGED <<typingVars, pipeVars, config, run, streamed, awaited>>

-----------------------------------------------------------------------------
(***************************************************************************)
(* The end of the run, and the dispatcher.                                 *)
(***************************************************************************)
\* The agent is through: flush, and wait for the chain.
EndRun ==
  /\ run = "streaming" /\ streamed = Len(KeyOf)
  /\ FlushBuffer
  /\ run' = "flushing"
  /\ UNCHANGED <<typingVars, config, streamed, sent, aborted, late, outbox, awaited, chat, failed>>

\* Mutant: blocks that were sent replace the final payload, aborted or not.
DropsAnyway == sent # {}

\* shouldDropFinalPayloads, or the final payload has gone out as one block.
DropsFinal == (sent # {} /\ ~aborted) \/ Keys(Whole) \in sent

\* buildReplyPayloads; the run is marked complete before its reply is sent.
BuildReply ==
  /\ run = "flushing" /\ chain = <<>>
  /\ MarkRunComplete
  /\ IF DropsFinal THEN run' = "waiting" /\ awaited' = Len(outbox)
                   ELSE run' = "replying" /\ UNCHANGED awaited
  /\ UNCHANGED <<pipeVars, config, streamed, late, outbox, chat, failed>>

SendFinal ==
  /\ run = "replying"
  /\ Forward(Payload(Whole, TRUE))
  /\ awaited' = Len(outbox')
  /\ run' = "waiting"
  /\ UNCHANGED <<typingVars, pipeVars, config, streamed, late>>

\* The dispatcher delivers one payload; the last one makes it idle.
Deliver ==
  /\ outbox # <<>>
  /\ Arrive(Head(outbox))
  /\ outbox' = Tail(outbox)
  /\ awaited' = IF awaited > 0 THEN awaited - 1 ELSE 0
  /\ IF Len(outbox) = 1 THEN MarkDispatchIdle ELSE UNCHANGED typingVars
  /\ UNCHANGED <<pipeVars, config, run, streamed, late>>

\* waitForIdle is over, the dispatch is through.
EndDispatch ==
  /\ run = "waiting" /\ awaited = 0
  /\ run' = "done"
  /\ MarkDispatchIdle
  /\ UNCHANGED <<pipeVars, config, streamed, late, outbox, awaited, chat, failed>>

TypingStep ==
  /\ TtlFires \/ \E k \in Caller : IntervalSet(k)
  /\ UNCHANGED <<pipeVars, config, run, streamed, late, outbox, awaited, chat, failed>>

Work ==
  Stream \/ SendBlock \/ BlockTimesOut \/ EndRun \/ BuildReply \/ SendFinal \/ Deliver \/ EndDispatch

Next == Work \/ IdleFlush \/ LateBlock \/ TypingStep

Spec == Init /\ [][Next]_vars

\* The run goes on, deliveries end or time out.
FairSpec == Spec /\ WF_vars(Work)

-----------------------------------------------------------------------------
\* The key of block i is among those of a payload's blocks.
Has(bs, i) == \E n \in DOMAIN bs : KeyOf[bs[n]] = KeyOf[i]

\* When the dispatch is through and no delivery failed, every text and medium of the
\* run is in the chat, as a block or in the final reply, whatever timed out or was
\* taken for a repetition.
EverythingArrives ==
  run = "done" /\ ~failed => \A i \in Block : \E j \in DOMAIN chat : Has(chat[j].blocks, i)

\* Blocks arrive in the order of the run and once, also after a time-out; and they
\* arrive beside the final reply only if one of them timed out.
BlocksInOrder ==
  /\ \A j, k \in DOMAIN chat : ~chat[j].final /\ ~chat[k].final =>
       \A m \in DOMAIN chat[j].blocks, n \in DOMAIN chat[k].blocks :
         j < k \/ (j = k /\ m < n) => chat[j].blocks[m] < chat[k].blocks[n]
  /\ (\E j \in DOMAIN chat : chat[j].final) /\ (\E j \in DOMAIN chat : ~chat[j].final) => aborted

\* Every reply comes to its end, and from then on no typing indicator is sent, although
\* callers may still wait for the first one; the time limit is not needed for it.
RepliesEnd == <>[](run = "done" /\ ~Shown)

\* Stop only when the model run is done and the dispatcher queue is empty.
StopsWhenEmpty ==
  [][~typing.sealed /\ typing'.sealed /\ <<run, outbox>>' # <<run, outbox>>
       => outbox' = <<>> /\ (typing.runComplete \/ run = "flushing")]_vars

\* Typing that has stopped leaves no timer behind.
NoTimerLeft == typing.sealed => ~interval /\ lost = 0
=============================================================================
