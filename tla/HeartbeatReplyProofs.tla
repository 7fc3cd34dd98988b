----------------------- MODULE HeartbeatReplyProofs -----------------------
(***************************************************************************)
(* Proofs about two components that share no state.  Heartbeats            *)
(* (HeartbeatWake, HeartbeatRunner): no wake is lost, one handler call is  *)
(* out at a time, the timer never fires without a reason, and the chain of *)
(* interval beats is unbroken while heartbeats stay on.  Replies (Typing,  *)
(* ReplyDelivery): every block of a run arrives, in order, whatever times  *)
(* out, and no typing indicator outlives the dispatch.                     *)
(***************************************************************************)
EXTENDS HeartbeatRunner, ReplyDelivery, TLAPS

(***************************************************************************)
(* NoWakeLost is inductive only together with the facts that the flag is   *)
(* up exactly while a call is out and that scheduled is never set without  *)
(* a timer.                                                                *)
(***************************************************************************)
ScheduledHasTimer == scheduled => timer

IInv == WakeTypeOK /\ NoWakeLost /\ OneCallAtATime /\ TimerHasReason /\ ScheduledHasTimer

\* A queue of calls of length at most one: what Append and Tail make of it.
LEMMA CallFacts ==
  ASSUME NEW S, NEW s \in Seq(S)
  PROVE  /\ \A e \in S : Append(s, e) \in Seq(S) /\ Len(Append(s, e)) = Len(s) + 1
         /\ s # <<>> => Tail(s) \in Seq(S) /\ Len(Tail(s)) = Len(s) - 1 /\ Head(s) \in S
         /\ s # <<>> <=> Len(s) # 0
         /\ Len(s) \in Nat
  OBVIOUS

\* The initial state satisfies the invariant.
LEMMA InitHolds == WakeInit => IInv
<1> SUFFICES ASSUME WakeInit PROVE IInv
  OBVIOUS
<1> USE DEF WakeInit
<1>1. WakeTypeOK
  <2>1. calls \in Seq(Reason) /\ pending \in Reason \cup {None}
    OBVIOUS
  <2>2. /\ handler \in BOOLEAN /\ scheduled \in BOOLEAN
        /\ running \in BOOLEAN /\ timer \in BOOLEAN
    BY Zenon
  <2> QED BY <2>1, <2>2 DEF WakeTypeOK
<1>2. OneCallAtATime
  <2>1. Len(calls) = 0
    OBVIOUS
  <2> QED BY <2>1 DEF OneCallAtATime
<1>3. NoWakeLost /\ TimerHasReason /\ ScheduledHasTimer
  BY DEF NoWakeLost, TimerHasReason, ScheduledHasTimer
<1> QED BY <1>1, <1>2, <1>3 DEF IInv

\* Every step of the wake module keeps the invariant.
LEMMA StepHolds == IInv /\ [WakeStep]_wakeVars => IInv'
<1> SUFFICES ASSUME IInv, [WakeStep]_wakeVars PROVE IInv'
  OBVIOUS
<1> USE NoneAssumption
    DEF IInv, WakeTypeOK, NoWakeLost, OneCallAtATime, TimerHasReason, ScheduledHasTimer
<1>1. ASSUME NEW r \in Reason, Request(r) PROVE IInv'
  BY <1>1 DEF Request
<1>2. ASSUME NEW next \in BOOLEAN, SetHandler(next) PROVE IInv'
  BY <1>2 DEF SetHandler
<1>3. CASE FireUnheard
  BY <1>3 DEF FireUnheard
<1>4. CASE FireDuringRun
  BY <1>4 DEF FireDuringRun
<1>5. CASE Fire
  <2>1. pending \in Reason
    BY <1>5 DEF Fire
  <2>2. calls' \in Seq(Reason) /\ Len(calls') = Len(calls) + 1
    BY <1>5, <2>1, CallFacts DEF Fire, Call
  <2>3. OneCallAtATime'
    BY <1>5, <2>1, <2>2 DEF Fire, Call
  <2>4. WakeTypeOK'
    BY <1>5, <2>1, <2>2 DEF Fire, Call
  <2>5. NoWakeLost' /\ TimerHasReason' /\ ScheduledHasTimer'
    BY <1>5, <2>1, <2>2 DEF Fire, Call
  <2> QED BY <2>3, <2>4, <2>5
<1>6. CASE Settle
  <2>1. calls' \in Seq(Reason) /\ Len(calls') = Len(calls) - 1 /\ Len(calls) \in Nat \ {0}
    BY <1>6, CallFacts DEF Settle
  <2>3. OneCallAtATime'
    BY <1>6, <2>1 DEF Settle
  <2>4. WakeTypeOK'
    BY <1>6, <2>1 DEF Settle
  <2>5. NoWakeLost' /\ TimerHasReason' /\ ScheduledHasTimer'
    BY <1>6, <2>1 DEF Settle
  <2> QED BY <2>3, <2>4, <2>5
<1>7. CASE SettleRetry
  <2>1. calls' \in Seq(Reason) /\ Len(calls') = Len(calls) - 1 /\ Len(calls) \in Nat \ {0}
    BY <1>7, CallFacts DEF SettleRetry
  <2>2. pending' \in Reason
    BY <1>7, CallFacts DEF SettleRetry
  <2>3. OneCallAtATime'
    BY <1>7, <2>1, <2>2 DEF SettleRetry
  <2>4. WakeTypeOK'
    BY <1>7, <2>1, <2>2 DEF SettleRetry
  <2>5. NoWakeLost' /\ TimerHasReason' /\ ScheduledHasTimer'
    BY <1>7, <2>1, <2>2 DEF SettleRetry
  <2> QED BY <2>3, <2>4, <2>5
<1>8. CASE UNCHANGED wakeVars
  BY <1>8 DEF wakeVars
<1> QED BY <1>1, <1>2, <1>3, <1>4, <1>5, <1>6, <1>7, <1>8 DEF WakeStep

\* The invariant holds in every reachable state.
THEOREM Inductive == WakeSpec => []IInv
<1>1. WakeInit => IInv
  BY InitHolds
<1>2. IInv /\ [WakeStep]_wakeVars => IInv'
  BY StepHolds
<1> QED BY <1>1, <1>2, PTL DEF WakeSpec

(***************************************************************************)
(* The runner uses the wake module only through its operations.            *)
(***************************************************************************)
\* Every step of the runner is a step of the wake module or leaves it alone.
LEMMA StepMaps == [BeatNext]_beatVars => [WakeStep]_wakeVars
<1> SUFFICES ASSUME [BeatNext]_beatVars PROVE WakeStep \/ UNCHANGED wakeVars
  OBVIOUS
<1>1. ASSUME NEW a \in Agent,
             Elapse(a) \/ Visit(a) \/ VisitDisabled(a)
      PROVE  UNCHANGED wakeVars
  BY <1>1 DEF Elapse, Visit, VisitDisabled
<1>2. ASSUME NEW a \in Agent, ExecFinished(a) PROVE WakeStep
  BY <1>2, ReasonAssumption DEF ExecFinished, WakeStep
<1>3. ASSUME NEW a \in Agent, VisitRetry(a) PROVE WakeStep
  BY <1>3 DEF VisitRetry, WakeStep
<1>4. ASSUME NEW r \in Reason, Wake(r) PROVE WakeStep
  BY <1>4 DEF Wake, WakeStep
<1>5. ASSUME NEW es \in [Agent -> Entry], Start(es) PROVE WakeStep
  BY <1>5 DEF Start, WakeStep
<1>6. ASSUME NEW es \in [Agent -> Entry], UpdateConfig(es) PROVE UNCHANGED wakeVars
  BY <1>6 DEF UpdateConfig
<1>7. ASSUME NEW on \in BOOLEAN, SetHeartbeatsEnabled(on) PROVE UNCHANGED wakeVars
  BY <1>7 DEF SetHeartbeatsEnabled
<1>8. CASE Stop
  BY <1>8 DEF Stop, WakeStep
<1>9. CASE IntervalFires
  BY <1>9, ReasonAssumption DEF IntervalFires, WakeStep
<1>10. CASE WakeTimer
  BY <1>10 DEF WakeTimer, WakeStep
<1>11. CASE BeginRun
  BY <1>11 DEF BeginRun, WakeStep
<1>12. CASE FinishRun \/ FinishDisabled
  BY <1>12 DEF FinishRun, FinishDisabled, WakeStep
<1>13. CASE UNCHANGED beatVars
  BY <1>13 DEF beatVars
<1> QED BY <1>1, <1>2, <1>3, <1>4, <1>5, <1>6, <1>7, <1>8, <1>9, <1>10, <1>11, <1>12, <1>13
        DEF BeatNext

\* Every behaviour of the heartbeat runner is a behaviour of the wake module.
THEOREM RunnerUsesWake == BeatSpec => WakeSpec
<1>1. BeatInit => WakeInit
  BY DEF BeatInit
<1> QED BY <1>1, StepMaps, PTL DEF BeatSpec, WakeSpec

\* A pending wake with a handler has a timer or a call that looks for it,
\* through every start, stop, reload and retry of the runner.
THEOREM WakesKept == BeatSpec => []NoWakeLost
<1>1. IInv => NoWakeLost
  BY DEF IInv
<1> QED BY <1>1, Inductive, RunnerUsesWake, PTL

\* Heartbeat runs never overlap, whatever the timers and restarts do.
THEOREM CallsSerial == BeatSpec => []OneCallAtATime
<1>1. IInv => OneCallAtATime
  BY DEF IInv
<1> QED BY <1>1, Inductive, RunnerUsesWake, PTL

\* The timer is only ever set for a pending wake, so the "retry" fallback and
\* the look at scheduled when a call settles are never needed.
THEOREM TimerJustified == BeatSpec => []TimerHasReason
<1>1. IInv => TimerHasReason
  BY DEF IInv
<1> QED BY <1>1, Inductive, RunnerUsesWake, PTL

(***************************************************************************)
(* The chain of interval beats.  A run returns early when heartbeats are   *)
(* off, which wasOff records until the next beat is scheduled, or when no  *)
(* agent is configured, and then the reload that configures one schedules  *)
(* the next beat.                                                          *)
(***************************************************************************)
OrphanDetached == phase = "orphan" => ~shared

OffRecorded == ~wasOff => enabled

ChainInv == pending \in Reason \cup {None} /\ OffRecorded /\ ChainUnbroken /\ OrphanDetached

\* The initial state satisfies it.
LEMMA ChainInit == BeatInit => ChainInv
  BY DEF BeatInit, WakeInit, ChainInv, ChainUnbroken, Configured, OrphanDetached,
        OffRecorded

\* Every step keeps the chain.
LEMMA ChainStep ==
  ASSUME IInv, ChainInv, [BeatNext]_beatVars
  PROVE  ChainInv'
<1> USE NoneAssumption, ReasonAssumption DEF ChainInv, ChainUnbroken, Configured, OrphanDetached,
       OffRecorded
<1>1. ASSUME NEW a \in Agent, Elapse(a) PROVE ChainInv'
  BY <1>1 DEF Elapse, wakeVars
<1>2. ASSUME NEW a \in Agent, ExecFinished(a) PROVE ChainInv'
  BY <1>2 DEF ExecFinished, Request
<1>3. ASSUME NEW a \in Agent, VisitDisabled(a) PROVE ChainInv'
  <2>1. UNCHANGED <<enabled, life, entries, intervalTimer, pending, phase, shared, wasOff>>
    BY <1>3 DEF VisitDisabled, wakeVars
  <2> QED BY <2>1
<1>4. ASSUME NEW a \in Agent, Visit(a) PROVE ChainInv'
  <2>1. CASE shared
    <3>1. phase' = "loop" /\ UNCHANGED <<enabled, pending, wasOff>>
      BY <1>4, <2>1 DEF Visit, AtAgent, wakeVars
    <3> QED BY <3>1
  <2>2. CASE ~shared
    <3>1. UNCHANGED <<enabled, life, entries, intervalTimer, pending, phase, shared, wasOff>>
      BY <1>4, <2>2 DEF Visit, wakeVars
    <3> QED BY <3>1
  <2> QED BY <2>1, <2>2
<1>5. ASSUME NEW a \in Agent, VisitRetry(a) PROVE ChainInv'
  <2>1. Head(calls) \in Reason
    BY <1>5, CallFacts DEF VisitRetry, SettleRetry, IInv, WakeTypeOK
  <2> QED BY <1>5, <2>1 DEF VisitRetry, SettleRetry
<1>6. ASSUME NEW r \in Reason, Wake(r) PROVE ChainInv'
  BY <1>6 DEF Wake, Request, runnerVars
<1>7. ASSUME NEW es \in [Agent -> Entry], Start(es) PROVE ChainInv'
  BY <1>7 DEF Start, SetHandler, ScheduleNext
<1>8. ASSUME NEW es \in [Agent -> Entry], UpdateConfig(es) PROVE ChainInv'
  BY <1>8 DEF UpdateConfig, ScheduleNext, wakeVars
<1>9. ASSUME NEW on \in BOOLEAN, SetHeartbeatsEnabled(on) PROVE ChainInv'
  <2>1. UNCHANGED <<pending, life, entries, intervalTimer, phase, shared>>
    BY <1>9 DEF SetHeartbeatsEnabled, wakeVars
  <2>2. ~wasOff' => ~wasOff /\ enabled'
    BY <1>9 DEF SetHeartbeatsEnabled
  <2> QED BY <2>1, <2>2
<1>10. CASE Stop
  BY <1>10 DEF Stop, SetHandler
<1>11. CASE IntervalFires
  BY <1>11 DEF IntervalFires, Request
<1>12. CASE WakeTimer
  BY <1>12 DEF WakeTimer, FireUnheard, FireDuringRun, runnerVars
<1>13. CASE BeginRun
  BY <1>13 DEF BeginRun, Fire, Call
<1>14. CASE FinishRun
  <2>1. UNCHANGED <<enabled, life, entries, pending>> /\ phase' = "none"
    BY <1>14 DEF FinishRun, Settle
  <2>2. CASE phase = "loop"
    <3>1. intervalTimer' = (Configured(entries) # {}) /\ wasOff' = ~enabled
      BY <1>14, <2>2 DEF FinishRun, ScheduleNext
    <3> QED BY <2>1, <3>1
  <2>3. CASE phase = "orphan"
    <3>1. UNCHANGED <<intervalTimer, wasOff>>
      BY <1>14, <2>3 DEF FinishRun
    <3> QED BY <2>1, <2>3, <3>1
  <2> QED BY <1>14, <2>2, <2>3 DEF FinishRun
<1>15. CASE FinishDisabled
  BY <1>15 DEF FinishDisabled, Settle
<1>16. CASE UNCHANGED beatVars
  BY <1>16 DEF beatVars, wakeVars, runnerVars
<1> QED BY <1>1, <1>2, <1>3, <1>4, <1>5, <1>6, <1>7, <1>8, <1>9, <1>10, <1>11, <1>12, <1>13,
           <1>14, <1>15, <1>16 DEF BeatNext

\* Unless heartbeats were off since the last beat was scheduled, the chain of
\* interval beats survives every reload, restart, retry and coalesced wake.
THEOREM ChainKept == BeatSpec => []ChainUnbroken
<1>1. BeatInit => ChainInv
  BY ChainInit
<1>2. IInv /\ ChainInv /\ [BeatNext]_beatVars => ChainInv'
  BY ChainStep
<1>3. ChainInv => ChainUnbroken
  BY DEF ChainInv
<1> QED BY <1>1, <1>2, <1>3, Inductive, RunnerUsesWake, PTL DEF BeatSpec

-----------------------------------------------------------------------------
(***************************************************************************)
(* Replies.  Numbers of blocks on their way, and their order.              *)
(***************************************************************************)
NumsOf(bs) == {bs[m] : m \in DOMAIN bs}
Nums(q) == UNION {NumsOf(q[j]) : j \in DOMAIN q}
Lt(S, T) == \A x \in S, y \in T : x < y

Sorted(bs) == \A m, n \in DOMAIN bs : m < n => bs[m] < bs[n]
Rising(q) ==
  /\ \A j \in DOMAIN q : Sorted(q[j])
  /\ \A j, k \in DOMAIN q : j < k => Lt(NumsOf(q[j]), NumsOf(q[k]))

\* What the payloads of a queue stream: the final one streams nothing.
Part(p) == IF p.final THEN <<>> ELSE p.blocks
Parts(q) == [j \in DOMAIN q |-> Part(q[j])]

Front == Nums(Parts(chat)) \cup Nums(Parts(outbox)) \cup Nums(late)

\* What has left the pipeline is in order.
FrontInOrder ==
  /\ Rising(Parts(chat)) /\ Rising(Parts(outbox)) /\ Rising(late)
  /\ Lt(Nums(Parts(chat)), Nums(Parts(outbox)))
  /\ Lt(Nums(Parts(chat)), Nums(late)) /\ Lt(Nums(Parts(outbox)), Nums(late))
  /\ Front \subseteq 1 .. streamed

KeysIn(q) == {Keys(q[j]) : j \in DOMAIN q}
KeyNamed(keys, i) == \E ks \in keys : \E n \in DOMAIN ks : ks[n] = KeyOf[i]

\* A pipeline with chain ch, keys sn and buffer bf that was given n blocks, of which
\* front has left it, and whose keys st were sent.
Good(front, st, sn, ch, bf, n) ==
  /\ Rising(ch) /\ Sorted(bf)
  /\ Lt(front, Nums(ch)) /\ Lt(front, NumsOf(bf)) /\ Lt(Nums(ch), NumsOf(bf))
  /\ Nums(ch) \cup NumsOf(bf) \subseteq 1 .. n
  /\ sn = st \cup KeysIn(ch)
  /\ \A i \in 1 .. n : KeyNamed(sn, i) \/ Has(bf, i)

PipeInv ==
  IF aborted THEN chain = <<>>
  ELSE /\ late = <<>>
       /\ Good(Front, sent, seen, chain, buffer, streamed)
       /\ \A k \in buffered : \E n \in DOMAIN buffer : KeyOf[buffer[n]] = k
       /\ config.coalescing \/ buffer = <<>>

\* What was sent is in the chat or on its way, unless a delivery failed.
SentArrives ==
  ~failed => \A ks \in sent :
    \/ \E j \in DOMAIN chat : ~chat[j].final /\ Keys(chat[j].blocks) = ks
    \/ \E j \in DOMAIN outbox : ~outbox[j].final /\ Keys(outbox[j].blocks) = ks

Ending == {"replying", "waiting", "done"}
HasFinal(q) == \E j \in DOMAIN q : q[j].final
HasBlock(q) == \E j \in DOMAIN q : ~q[j].final

RunInv ==
  /\ config.routed => outbox = <<>>
  /\ run # "streaming" => buffer = <<>> /\ streamed = Len(KeyOf)
  /\ run \in Ending => chain = <<>>
  /\ run = "done" => awaited = 0
  /\ run = "replying" \/ HasFinal(chat) \/ HasFinal(outbox) =>
       run \in Ending /\ (sent = {} \/ aborted)
  /\ HasBlock(chat) \/ HasBlock(outbox) => sent # {} \/ aborted

\* Once the reply is built, every key is in the chat or awaited.
AllUnderway ==
  run \in {"waiting", "done"} /\ ~failed =>
    \A i \in Block :
      \/ \E j \in DOMAIN chat : Has(chat[j].blocks, i)
      \/ \E j \in 1 .. awaited : Has(outbox[j].blocks, i)

ReplyInv == TypeOK /\ FrontInOrder /\ PipeInv /\ SentArrives /\ RunInv /\ AllUnderway
-----------------------------------------------------------------------------
(***************************************************************************)
(* Sequences of sequences of numbers: what Append and Tail make of them.   *)
(***************************************************************************)
LEMMA SeqFacts ==
  ASSUME NEW S, NEW s \in Seq(S)
  PROVE  /\ Len(s) \in Nat /\ DOMAIN s = 1 .. Len(s)
         /\ \A n \in DOMAIN s : s[n] \in S
         /\ \A e \in S : /\ Append(s, e) \in Seq(S) /\ Len(Append(s, e)) = Len(s) + 1
                         /\ Append(s, e)[Len(s) + 1] = e
                         /\ \A n \in 1 .. Len(s) : Append(s, e)[n] = s[n]
         /\ s # <<>> <=> Len(s) # 0
         /\ s # <<>> => /\ Tail(s) \in Seq(S) /\ Len(Tail(s)) = Len(s) - 1
                        /\ Head(s) = s[1] /\ Head(s) \in S
                        /\ \A n \in 1 .. Len(s) - 1 : Tail(s)[n] = s[n + 1]
  OBVIOUS

\* Appending to a sequence of numbers.
LEMMA PushNum ==
  ASSUME NEW bs \in Seq(Nat), NEW i \in Nat
  PROVE  /\ NumsOf(Append(bs, i)) = NumsOf(bs) \cup {i}
         /\ Sorted(bs) /\ Lt(NumsOf(bs), {i}) => Sorted(Append(bs, i))
<1> DEFINE cs == Append(bs, i)
<1>1. /\ Len(bs) \in Nat /\ DOMAIN bs = 1 .. Len(bs) /\ DOMAIN cs = 1 .. Len(bs) + 1
      /\ cs[Len(bs) + 1] = i /\ \A n \in 1 .. Len(bs) : cs[n] = bs[n]
      /\ \A n \in 1 .. Len(bs) : bs[n] \in Nat
  BY SeqFacts
<1> HIDE DEF cs
<1>2. NumsOf(cs) = NumsOf(bs) \cup {i}
  BY <1>1 DEF NumsOf
<1>3. Sorted(bs) /\ Lt(NumsOf(bs), {i}) => Sorted(cs)
  BY <1>1 DEF Sorted, Lt, NumsOf
<1> QED BY <1>2, <1>3 DEF cs

\* A number of a queue is a number of one of its entries.
LEMMA NumsIn ==
  ASSUME NEW q, NEW x
  PROVE  x \in Nums(q) <=> \E j \in DOMAIN q : x \in NumsOf(q[j])
  BY DEF Nums

\* Appending to a queue of them.
LEMMA PushQueue ==
  ASSUME NEW q \in Seq(Seq(Nat)), NEW bs \in Seq(Nat)
  PROVE  /\ Nums(Append(q, bs)) = Nums(q) \cup NumsOf(bs)
         /\ Rising(q) /\ Sorted(bs) /\ Lt(Nums(q), NumsOf(bs)) => Rising(Append(q, bs))
<1> DEFINE r == Append(q, bs)
<1>1. /\ Len(q) \in Nat /\ DOMAIN q = 1 .. Len(q) /\ DOMAIN r = 1 .. Len(q) + 1
      /\ r[Len(q) + 1] = bs /\ \A n \in 1 .. Len(q) : r[n] = q[n]
  BY SeqFacts
<1> HIDE DEF r
<1>2. Nums(r) = Nums(q) \cup NumsOf(bs)
  <2>1. ASSUME NEW x \in Nums(r) PROVE x \in Nums(q) \cup NumsOf(bs)
    <3>1. PICK j \in DOMAIN r : x \in NumsOf(r[j])
      BY NumsIn
    <3>2. CASE j = Len(q) + 1
      BY <1>1, <3>1, <3>2
    <3>3. CASE j \in DOMAIN q
      <4>1. r[j] = q[j]
        BY <1>1, <3>3
      <4> QED BY <3>1, <3>3, <4>1, NumsIn
    <3> QED BY <1>1, <3>2, <3>3
  <2>2. ASSUME NEW x \in Nums(q) PROVE x \in Nums(r)
    <3>1. PICK j \in DOMAIN q : x \in NumsOf(q[j])
      BY NumsIn
    <3>2. j \in DOMAIN r /\ r[j] = q[j]
      BY <1>1
    <3> QED BY <3>1, <3>2, NumsIn
  <2>3. ASSUME NEW x \in NumsOf(bs) PROVE x \in Nums(r)
    <3>1. Len(q) + 1 \in DOMAIN r
      BY <1>1
    <3> QED BY <1>1, <2>3, <3>1, NumsIn
  <2> QED BY <2>1, <2>2, <2>3
<1>3. ASSUME Rising(q), Sorted(bs), Lt(Nums(q), NumsOf(bs)) PROVE Rising(r)
  <2>1. ASSUME NEW j \in DOMAIN r PROVE Sorted(r[j])
    <3>1. CASE j = Len(q) + 1
      BY <1>1, <1>3, <3>1
    <3>2. CASE j \in DOMAIN q
      <4>1. r[j] = q[j]
        BY <1>1, <3>2
      <4> QED BY <1>3, <3>2, <4>1 DEF Rising
    <3> QED BY <1>1, <3>1, <3>2
  <2>2. ASSUME NEW j \in DOMAIN r, NEW k \in DOMAIN r, j < k
        PROVE  Lt(NumsOf(r[j]), NumsOf(r[k]))
    <3>1. j \in DOMAIN q /\ r[j] = q[j]
      BY <1>1, <2>2
    <3>2. CASE k \in DOMAIN q
      BY <1>1, <1>3, <2>2, <3>1, <3>2 DEF Rising
    <3>3. CASE k = Len(q) + 1
      BY <1>1, <1>3, <3>1, <3>3, NumsIn DEF Lt
    <3> QED BY <1>1, <3>2, <3>3
  <2> QED BY <2>1, <2>2 DEF Rising
<1> QED BY <1>2, <1>3 DEF r

\* The head of a rising queue is below the rest.
LEMMA PopQueue ==
  ASSUME NEW q \in Seq(Seq(Nat)), q # <<>>
  PROVE  /\ Nums(q) = NumsOf(Head(q)) \cup Nums(Tail(q))
         /\ Rising(q) => /\ Sorted(Head(q)) /\ Rising(Tail(q))
                         /\ Lt(NumsOf(Head(q)), Nums(Tail(q)))
<1> DEFINE r == Tail(q)
<1>1. /\ Len(q) \in Nat \ {0} /\ DOMAIN q = 1 .. Len(q) /\ DOMAIN r = 1 .. Len(q) - 1
      /\ Head(q) = q[1] /\ \A n \in 1 .. Len(q) - 1 : r[n] = q[n + 1]
  BY SeqFacts
<1> HIDE DEF r
<1>2. Nums(q) = NumsOf(Head(q)) \cup Nums(r)
  <2>1. ASSUME NEW x PROVE x \in Nums(q) => x \in NumsOf(Head(q)) \cup Nums(r)
    <3>1. SUFFICES ASSUME NEW j \in DOMAIN q, x \in NumsOf(q[j])
                   PROVE  x \in NumsOf(Head(q)) \cup Nums(r)
      BY NumsIn
    <3>2. CASE j = 1
      BY <1>1, <3>1, <3>2
    <3>3. CASE j # 1
      <4>1. j - 1 \in DOMAIN r /\ r[j - 1] = q[j]
        BY <1>1, <3>3
      <4> QED BY <3>1, <4>1, NumsIn
    <3> QED BY <3>2, <3>3
  <2>2. ASSUME NEW x \in NumsOf(Head(q)) PROVE x \in Nums(q)
    <3>1. 1 \in DOMAIN q
      BY <1>1
    <3> QED BY <1>1, <2>2, <3>1, NumsIn
  <2>3. ASSUME NEW x \in Nums(r) PROVE x \in Nums(q)
    <3>1. PICK j \in DOMAIN r : x \in NumsOf(r[j])
      BY <2>3, NumsIn
    <3>2. j + 1 \in DOMAIN q /\ r[j] = q[j + 1]
      BY <1>1
    <3> QED BY <3>1, <3>2, NumsIn
  <2> QED BY <2>1, <2>2, <2>3
<1>3. ASSUME Rising(q)
      PROVE  Sorted(Head(q)) /\ Rising(r) /\ Lt(NumsOf(Head(q)), Nums(r))
  <2>1. Sorted(Head(q)) /\ \A j \in DOMAIN r : Sorted(r[j])
    <3>1. 1 \in DOMAIN q
      BY <1>1
    <3>2. Sorted(q[1])
      BY <1>3, <3>1 DEF Rising
    <3>3. ASSUME NEW j \in DOMAIN r PROVE Sorted(r[j])
      <4>1. j + 1 \in DOMAIN q /\ r[j] = q[j + 1]
        BY <1>1
      <4> QED BY <1>3, <4>1 DEF Rising
    <3> QED BY <1>1, <3>2, <3>3
  <2>2. ASSUME NEW j \in DOMAIN r, NEW k \in DOMAIN r, j < k
        PROVE  Lt(NumsOf(r[j]), NumsOf(r[k]))
    <3>1. j + 1 \in DOMAIN q /\ k + 1 \in DOMAIN q /\ j + 1 < k + 1
      BY <1>1, <2>2
    <3>2. Lt(NumsOf(q[j + 1]), NumsOf(q[k + 1]))
      BY <1>3, <3>1 DEF Rising
    <3> QED BY <1>1, <3>2
  <2>3. \A k \in DOMAIN r : Lt(NumsOf(Head(q)), NumsOf(r[k]))
    <3> SUFFICES ASSUME NEW k \in DOMAIN r PROVE Lt(NumsOf(Head(q)), NumsOf(r[k]))
      OBVIOUS
    <3>1. k + 1 \in DOMAIN q /\ 1 \in DOMAIN q /\ 1 < k + 1
      BY <1>1
    <3>2. Lt(NumsOf(q[1]), NumsOf(q[k + 1]))
      BY <1>3, <3>1 DEF Rising
    <3> QED BY <1>1, <3>2
  <2>4. Lt(NumsOf(Head(q)), Nums(r))
    BY <2>3, NumsIn DEF Lt
  <2> QED BY <2>1, <2>2, <2>4 DEF Rising
<1> QED BY <1>2, <1>3 DEF r

\* The empty queue.
LEMMA NoQueue == Nums(<<>>) = {} /\ Rising(<<>>) /\ NumsOf(<<>>) = {} /\ Sorted(<<>>)
  BY DEF Nums, Rising, NumsOf, Sorted

\* Blocks are numbers, and a final payload is a payload.
LEMMA BlockFacts ==
  /\ Len(KeyOf) \in Nat /\ Block = 1 .. Len(KeyOf) /\ Block \subseteq Nat
  /\ Seq(Block) \subseteq Seq(Nat) /\ Seq(Seq(Block)) \subseteq Seq(Seq(Nat))
  /\ Whole \in Seq(Block) /\ DOMAIN Whole = Block
<1>1. Len(KeyOf) \in Nat /\ Block = 1 .. Len(KeyOf)
  BY KeyAssumption DEF Block
<1>2. Block \subseteq Nat
  BY <1>1
<1>3. \A bs \in Seq(Block) : bs \in Seq(Nat)
  <2> SUFFICES ASSUME NEW bs \in Seq(Block) PROVE bs \in Seq(Nat)
    OBVIOUS
  <2>1. \A n \in 1 .. Len(bs) : bs[n] \in Block
    OBVIOUS
  <2>2. \A n \in 1 .. Len(bs) : bs[n] \in Nat
    BY <1>2, <2>1
  <2> QED BY <2>2
<1>4. \A q \in Seq(Seq(Block)) : q \in Seq(Seq(Nat))
  <2> SUFFICES ASSUME NEW q \in Seq(Seq(Block)) PROVE q \in Seq(Seq(Nat))
    OBVIOUS
  <2>1. \A n \in 1 .. Len(q) : q[n] \in Seq(Nat)
    BY <1>3
  <2> QED BY <2>1
<1>5. Whole \in Seq(Block) /\ DOMAIN Whole = Block
  BY <1>1 DEF Whole
<1> QED BY <1>1, <1>2, <1>3, <1>4, <1>5

\* The keys of a payload, and of the payloads of a queue.
LEMMA KeysFacts ==
  ASSUME NEW bs \in Seq(Block)
  PROVE  /\ Keys(bs) \in Seq(Key) /\ DOMAIN Keys(bs) = DOMAIN bs
         /\ \A n \in DOMAIN bs : Keys(bs)[n] = KeyOf[bs[n]]
<1>1. \A n \in 1 .. Len(bs) : KeyOf[bs[n]] \in Key
  BY BlockFacts, KeyAssumption
<1>2. Keys(bs) = [n \in 1 .. Len(bs) |-> KeyOf[bs[n]]] /\ Len(bs) \in Nat
  BY SeqFacts DEF Keys
<1> QED BY <1>1, <1>2

\* The keys of a queue with one more entry.
LEMMA KeysPush ==
  ASSUME NEW q \in Seq(Seq(Block)), NEW bs \in Seq(Block)
  PROVE  KeysIn(Append(q, bs)) = KeysIn(q) \cup {Keys(bs)}
<1> DEFINE r == Append(q, bs)
<1>1. /\ Len(q) \in Nat /\ DOMAIN q = 1 .. Len(q) /\ DOMAIN r = 1 .. Len(q) + 1
      /\ r[Len(q) + 1] = bs /\ \A n \in 1 .. Len(q) : r[n] = q[n]
  BY SeqFacts
<1> HIDE DEF r
<1>2. ASSUME NEW j \in DOMAIN r PROVE Keys(r[j]) \in KeysIn(q) \cup {Keys(bs)}
  <2>1. CASE j = Len(q) + 1
    BY <1>1, <2>1
  <2>2. CASE j \in DOMAIN q
    <3>1. r[j] = q[j]
      BY <1>1, <2>2
    <3> QED BY <2>2, <3>1 DEF KeysIn
  <2> QED BY <1>1, <2>1, <2>2
<1>3. ASSUME NEW j \in DOMAIN q PROVE Keys(q[j]) \in KeysIn(r)
  <2>1. j \in DOMAIN r /\ r[j] = q[j]
    BY <1>1
  <2> QED BY <2>1 DEF KeysIn
<1>4. Keys(bs) \in KeysIn(r)
  <2>1. Len(q) + 1 \in DOMAIN r
    BY <1>1
  <2> QED BY <1>1, <2>1 DEF KeysIn
<1>5. KeysIn(r) \subseteq KeysIn(q) \cup {Keys(bs)}
  BY <1>2 DEF KeysIn
<1>6. KeysIn(q) \subseteq KeysIn(r)
  BY <1>3 DEF KeysIn
<1> QED BY <1>4, <1>5, <1>6 DEF r

\* The keys of a queue, its first entry apart.
LEMMA KeysPop ==
  ASSUME NEW q \in Seq(Seq(Block)), q # <<>>
  PROVE  KeysIn(q) = KeysIn(Tail(q)) \cup {Keys(Head(q))}
<1> DEFINE r == Tail(q)
<1>1. /\ Len(q) \in Nat \ {0} /\ DOMAIN q = 1 .. Len(q) /\ DOMAIN r = 1 .. Len(q) - 1
      /\ Head(q) = q[1] /\ \A n \in 1 .. Len(q) - 1 : r[n] = q[n + 1]
  BY SeqFacts
<1> HIDE DEF r
<1>2. ASSUME NEW j \in DOMAIN q PROVE Keys(q[j]) \in KeysIn(r) \cup {Keys(Head(q))}
  <2>1. CASE j = 1
    BY <1>1, <2>1
  <2>2. CASE j # 1
    <3>1. j - 1 \in DOMAIN r /\ r[j - 1] = q[j]
      BY <1>1, <2>2
    <3> QED BY <3>1 DEF KeysIn
  <2> QED BY <2>1, <2>2
<1>3. KeysIn(r) \cup {Keys(Head(q))} \subseteq KeysIn(q)
  <2>1. 1 \in DOMAIN q
    BY <1>1
  <2>2. Keys(Head(q)) \in KeysIn(q)
    BY <1>1, <2>1 DEF KeysIn
  <2>3. ASSUME NEW j \in DOMAIN r PROVE Keys(r[j]) \in KeysIn(q)
    <3>1. j + 1 \in DOMAIN q /\ r[j] = q[j + 1]
      BY <1>1
    <3> QED BY <3>1 DEF KeysIn
  <2>4. KeysIn(r) \subseteq KeysIn(q)
    BY <2>3 DEF KeysIn
  <2> QED BY <2>2, <2>4
<1>4. KeysIn(q) \subseteq KeysIn(r) \cup {Keys(Head(q))}
  BY <1>2 DEF KeysIn
<1> QED BY <1>3, <1>4 DEF r

\* The streamed part of a queue of payloads.
LEMMA PartsFacts ==
  ASSUME NEW q \in Seq(PayloadType)
  PROVE  /\ Parts(q) \in Seq(Seq(Block)) /\ Len(Parts(q)) = Len(q)
         /\ \A p \in PayloadType : Parts(Append(q, p)) = Append(Parts(q), Part(p))
         /\ q # <<>> => /\ Parts(q) # <<>> /\ Parts(Tail(q)) = Tail(Parts(q))
                        /\ Head(Parts(q)) = Part(Head(q))
<1>1. \A p \in PayloadType : Part(p) \in Seq(Block)
  BY DEF Part, PayloadType
<1>2. Len(q) \in Nat /\ DOMAIN q = 1 .. Len(q) /\ \A n \in 1 .. Len(q) : q[n] \in PayloadType
  BY SeqFacts
<1>3. Parts(q) = [j \in 1 .. Len(q) |-> Part(q[j])]
  BY <1>2 DEF Parts
<1>4. Parts(q) \in Seq(Seq(Block)) /\ Len(Parts(q)) = Len(q)
  BY <1>1, <1>2, <1>3
<1>5. ASSUME NEW p \in PayloadType PROVE Parts(Append(q, p)) = Append(Parts(q), Part(p))
  <2> DEFINE r == Append(q, p)
             s == Append(Parts(q), Part(p))
  <2>1. /\ DOMAIN r = 1 .. Len(q) + 1 /\ r[Len(q) + 1] = p
        /\ \A n \in 1 .. Len(q) : r[n] = q[n]
    BY <1>2, SeqFacts
  <2>2. s \in Seq(Seq(Block)) /\ Len(s) = Len(q) + 1 /\ s[Len(q) + 1] = Part(p)
        /\ \A n \in 1 .. Len(q) : s[n] = Part(q[n])
    BY <1>1, <1>2, <1>3, <1>4, SeqFacts
  <2> HIDE DEF r, s
  <2>3. s = [n \in 1 .. Len(q) + 1 |-> s[n]]
    BY <2>2
  <2>4. Parts(r) = [n \in 1 .. Len(q) + 1 |-> Part(r[n])]
    BY <2>1 DEF Parts
  <2>5. \A n \in 1 .. Len(q) + 1 : Part(r[n]) = s[n]
    BY <1>2, <2>1, <2>2
  <2> QED BY <2>3, <2>4, <2>5 DEF r, s
<1>6. ASSUME q # <<>>
      PROVE  /\ Parts(q) # <<>> /\ Parts(Tail(q)) = Tail(Parts(q))
             /\ Head(Parts(q)) = Part(Head(q))
  <2> DEFINE r == Tail(q)
             s == Tail(Parts(q))
  <2>1. /\ DOMAIN r = 1 .. Len(q) - 1 /\ Len(q) # 0
        /\ \A n \in 1 .. Len(q) - 1 : r[n] = q[n + 1]
    BY <1>2, <1>6, SeqFacts
  <2>2. Parts(q) # <<>>
    BY <1>4, <2>1
  <2>3. /\ s \in Seq(Seq(Block)) /\ Len(s) = Len(q) - 1
        /\ \A n \in 1 .. Len(q) - 1 : s[n] = Part(q[n + 1])
    BY <1>2, <1>3, <1>4, <2>2, SeqFacts
  <2>4. Head(Parts(q)) = Part(Head(q))
    BY <1>2, <1>3, <1>6, <2>1
  <2> HIDE DEF r, s
  <2>5. s = [n \in 1 .. Len(q) - 1 |-> s[n]]
    BY <2>3
  <2>6. Parts(r) = [n \in 1 .. Len(q) - 1 |-> Part(r[n])]
    BY <2>1 DEF Parts
  <2>7. \A n \in 1 .. Len(q) - 1 : Part(r[n]) = s[n]
    BY <1>2, <2>1, <2>3
  <2>8. Parts(r) = s
    BY <2>5, <2>6, <2>7
  <2> QED BY <2>2, <2>4, <2>8 DEF r, s
<1> QED BY <1>4, <1>5, <1>6

-----------------------------------------------------------------------------
(***************************************************************************)
(* The pipeline: a block joins the buffer, is passed over, or the buffer   *)
(* is flushed into the chain.  Every branch of enqueue is made of these.   *)
(***************************************************************************)
PipeTypes(front, sn, ch, bf, n) ==
  /\ sn \subseteq Seq(Key) /\ ch \in Seq(Seq(Block)) /\ bf \in Seq(Block)
  /\ n \in Nat /\ front \subseteq 1 .. n

\* The next block joins the buffer.
LEMMA PushKeeps ==
  ASSUME NEW front, NEW st, NEW sn, NEW ch, NEW bf, NEW n,
         PipeTypes(front, sn, ch, bf, n), Good(front, st, sn, ch, bf, n), n + 1 \in Block
  PROVE  /\ PipeTypes(front, sn, ch, Append(bf, n + 1), n + 1)
         /\ Good(front, st, sn, ch, Append(bf, n + 1), n + 1)
<1> DEFINE i == n + 1
           cs == Append(bf, i)
<1>1. bf \in Seq(Nat) /\ n \in Nat /\ i \in Nat /\ bf \in Seq(Block)
  BY BlockFacts DEF PipeTypes
<1>2. cs \in Seq(Block) /\ DOMAIN bf = 1 .. Len(bf) /\ DOMAIN cs = 1 .. Len(bf) + 1
      /\ cs[Len(bf) + 1] = i /\ Len(bf) \in Nat /\ \A m \in 1 .. Len(bf) : cs[m] = bf[m]
  BY <1>1, SeqFacts
<1>3. front \cup Nums(ch) \cup NumsOf(bf) \subseteq 1 .. n
  BY DEF PipeTypes, Good
<1>4. Lt(front, {i}) /\ Lt(Nums(ch), {i}) /\ Lt(NumsOf(bf), {i})
  BY <1>1, <1>3 DEF Lt
<1>5. NumsOf(cs) = NumsOf(bf) \cup {i} /\ Sorted(cs)
  BY <1>1, <1>4, PushNum DEF Good
<1>6. ASSUME NEW j \in 1 .. i PROVE KeyNamed(sn, j) \/ Has(cs, j)
  <2>1. CASE j = i
    <3>1. Len(bf) + 1 \in DOMAIN cs
      BY <1>2
    <3> QED BY <1>2, <2>1, <3>1 DEF Has
  <2>2. CASE j \in 1 .. n
    <3>1. CASE Has(bf, j)
      <4>1. PICK m \in DOMAIN bf : KeyOf[bf[m]] = KeyOf[j]
        BY <3>1 DEF Has
      <4>2. m \in DOMAIN cs /\ cs[m] = bf[m]
        BY <1>2
      <4> QED BY <4>1, <4>2 DEF Has
    <3> QED BY <2>2, <3>1 DEF Good
  <2> QED BY <1>1, <2>1, <2>2
<1> HIDE DEF cs, i
<1>7. front \cup Nums(ch) \cup NumsOf(cs) \subseteq 1 .. i
  BY <1>1, <1>3, <1>5 DEF i
<1>8. Lt(front, NumsOf(cs)) /\ Lt(Nums(ch), NumsOf(cs))
  BY <1>4, <1>5 DEF Lt, Good
<1>9. PipeTypes(front, sn, ch, cs, i)
  BY <1>1, <1>2, <1>7 DEF PipeTypes
<1>10. Good(front, st, sn, ch, cs, i)
  BY <1>5, <1>6, <1>7, <1>8 DEF Good
<1> QED BY <1>9, <1>10 DEF cs, i

\* The next block is skipped: its key is there already.
LEMMA SkipKeeps ==
  ASSUME NEW front, NEW st, NEW sn, NEW ch, NEW bf, NEW n,
         PipeTypes(front, sn, ch, bf, n), Good(front, st, sn, ch, bf, n),
         KeyNamed(sn, n + 1) \/ Has(bf, n + 1)
  PROVE  Good(front, st, sn, ch, bf, n + 1)
<1>1. n \in Nat /\ \A j \in 1 .. n + 1 : j \in 1 .. n \/ j = n + 1
  BY DEF PipeTypes
<1>2. \A j \in 1 .. n + 1 : KeyNamed(sn, j) \/ Has(bf, j)
  BY <1>1 DEF Good
<1>3. Nums(ch) \cup NumsOf(bf) \subseteq 1 .. n + 1
  BY <1>1 DEF Good
<1> QED BY <1>2, <1>3 DEF Good

\* What is buffered joins the chain, or its key was seen and is there already.
LEMMA FlushKeeps ==
  ASSUME NEW front, NEW st, NEW state, NEW bf, NEW n,
         PipeTypes(front, state.seen, state.chain, bf, n),
         Good(front, st, state.seen, state.chain, bf, n)
  PROVE  LET after == Joined(state, bf)
         IN  /\ PipeTypes(front, after.seen, after.chain, <<>>, n)
             /\ Good(front, st, after.seen, after.chain, <<>>, n)
             /\ state.seen \subseteq after.seen
<1> DEFINE after == Joined(state, bf)
           sn == state.seen
           ch == state.chain
<1>0. /\ PipeTypes(front, sn, ch, bf, n) /\ Good(front, st, sn, ch, bf, n)
      /\ bf = <<>> \/ Keys(bf) \in sn => after.seen = sn /\ after.chain = ch
      /\ bf # <<>> /\ Keys(bf) \notin sn =>
           after.seen = sn \cup {Keys(bf)} /\ after.chain = Append(ch, bf)
  BY DEF Joined
<1> SUFFICES /\ PipeTypes(front, after.seen, after.chain, <<>>, n)
             /\ Good(front, st, after.seen, after.chain, <<>>, n)
             /\ sn \subseteq after.seen
  OBVIOUS
<1> HIDE DEF after, sn, ch
<1>1. /\ bf \in Seq(Block) /\ ch \in Seq(Seq(Block)) /\ sn \subseteq Seq(Key) /\ n \in Nat
      /\ bf \in Seq(Nat) /\ ch \in Seq(Seq(Nat)) /\ <<>> \in Seq(Block)
  BY <1>0, BlockFacts DEF PipeTypes
<1>2. Keys(bf) \in Seq(Key) /\ DOMAIN Keys(bf) = DOMAIN bf
      /\ \A m \in DOMAIN bf : Keys(bf)[m] = KeyOf[bf[m]]
  BY <1>1, KeysFacts
\* What the buffer holds is named by its key.
<1>3. ASSUME NEW keys, sn \subseteq keys, bf = <<>> \/ Keys(bf) \in keys
      PROVE  \A j \in 1 .. n : KeyNamed(keys, j)
  <2> SUFFICES ASSUME NEW j \in 1 .. n PROVE KeyNamed(keys, j)
    OBVIOUS
  <2>1. CASE KeyNamed(sn, j)
    BY <1>3, <2>1 DEF KeyNamed
  <2>2. CASE Has(bf, j)
    <3>1. PICK m \in DOMAIN bf : KeyOf[bf[m]] = KeyOf[j]
      BY <2>2 DEF Has
    <3>2. Keys(bf) \in keys
      BY <1>3, <3>1
    <3> QED BY <1>2, <3>1, <3>2 DEF KeyNamed
  <2> QED BY <1>0, <2>1, <2>2 DEF Good
<1>4. NumsOf(<<>>) = {} /\ Sorted(<<>>)
  BY NoQueue
<1>5. CASE bf = <<>> \/ Keys(bf) \in sn
  <2>1. after.seen = sn /\ after.chain = ch
    BY <1>0, <1>5
  <2>2. \A j \in 1 .. n : KeyNamed(sn, j)
    BY <1>3, <1>5
  <2>3. Good(front, st, sn, ch, <<>>, n)
    BY <1>0, <1>4, <2>2 DEF Good, Lt
  <2> QED BY <1>0, <1>1, <1>5, <2>1, <2>3 DEF PipeTypes
<1>6. CASE bf # <<>> /\ Keys(bf) \notin sn
  <2> DEFINE new == sn \cup {Keys(bf)}
             q == Append(ch, bf)
  <2>1. after.seen = new /\ after.chain = q
    BY <1>0, <1>6
  <2>2. q \in Seq(Seq(Block))
    BY <1>1, SeqFacts
  <2>3. Nums(q) = Nums(ch) \cup NumsOf(bf) /\ Rising(q)
    BY <1>0, <1>1, PushQueue DEF Good
  <2>4. KeysIn(q) = KeysIn(ch) \cup {Keys(bf)}
    BY <1>1, KeysPush
  <2>5. \A j \in 1 .. n : KeyNamed(new, j)
    BY <1>3
  <2> HIDE DEF new, q
  <2>6. new = st \cup KeysIn(q)
    BY <1>0, <2>4 DEF Good, new
  <2>7. Lt(front, Nums(q))
    BY <1>0, <2>3 DEF Good, Lt
  <2>8. Good(front, st, new, q, <<>>, n)
    BY <1>0, <1>4, <2>3, <2>5, <2>6, <2>7 DEF Good, Lt
  <2>9. PipeTypes(front, new, q, <<>>, n)
    BY <1>0, <1>1, <1>2, <2>2 DEF PipeTypes, new
  <2> QED BY <2>1, <2>8, <2>9 DEF new
<1> QED BY <1>5, <1>6

-----------------------------------------------------------------------------
(***************************************************************************)
(* The steps that fill the pipeline.                                       *)
(***************************************************************************)
\* The typing controller's steps keep its types.
LEMMA TypingKept ==
  ASSUME TypingOK, [Next]_vars
  PROVE  TypingOK'
<1> USE DEF TypingOK
<1>1. ASSUME NEW k \in Caller, StartTyping(k) PROVE TypingOK'
  BY <1>1 DEF StartTyping, typingVars
<1>2. ASSUME NEW k \in Caller, IntervalSet(k) PROVE TypingOK'
  BY <1>2 DEF IntervalSet
<1> DEFINE R == [started : BOOLEAN, active : BOOLEAN, runComplete : BOOLEAN,
                 dispatchIdle : BOOLEAN, sealed : BOOLEAN]
<1>0. Sealed \in R
  BY Zenon DEF Sealed
<1>3. CASE MarkRunComplete
  <2>1. [typing EXCEPT !["runComplete"] = TRUE] \in R
    OBVIOUS
  <2> QED BY <1>0, <1>3, <2>1 DEF MarkRunComplete, Mark
<1>4. CASE MarkDispatchIdle
  <2>1. [typing EXCEPT !["dispatchIdle"] = TRUE] \in R
    OBVIOUS
  <2> QED BY <1>0, <1>4, <2>1 DEF MarkDispatchIdle, Mark
<1>5. CASE TtlFires
  BY <1>0, <1>5 DEF TtlFires
<1>6. CASE UNCHANGED typingVars
  BY <1>6 DEF typingVars
<1>7. CASE Stream
  <2>1. streamed + 1 \in Caller /\ StartTyping(streamed + 1)
    BY <1>7, CallerAssumption DEF Stream
  <2> QED BY <1>1, <2>1
<1>8. CASE Deliver
  BY <1>4, <1>6, <1>8 DEF Deliver
<1>9. CASE BuildReply \/ EndDispatch
  BY <1>3, <1>4, <1>9 DEF BuildReply, EndDispatch
<1>10. CASE SendBlock \/ BlockTimesOut \/ EndRun \/ SendFinal \/ IdleFlush \/ LateBlock
  BY <1>6, <1>10 DEF SendBlock, BlockTimesOut, EndRun, SendFinal, IdleFlush, LateBlock
<1>11. CASE TypingStep
  BY <1>2, <1>5, <1>11 DEF TypingStep
<1>12. CASE UNCHANGED vars
  BY <1>6, <1>12 DEF vars
<1> QED BY <1>7, <1>8, <1>9, <1>10, <1>11, <1>12 DEF Next, Work

Named(ks, bf) == \A k \in ks : \E n \in DOMAIN bf : KeyOf[bf[n]] = k

\* The pipeline of a reachable state, as those lemmas see it.
LEMMA PipeTyped ==
  ASSUME TypeOK, FrontInOrder
  PROVE  PipeTypes(Front, seen, chain, buffer, streamed)
  BY BlockFacts DEF TypeOK, FrontInOrder, PipeTypes

\* What the pipeline is after a step that fills it.
Filled ==
  /\ PipeTypes(Front, seen', chain', buffer', streamed')
  /\ Good(Front, sent, seen', chain', buffer', streamed')
  /\ seen \subseteq seen' /\ buffered' \subseteq Key
  /\ Named(buffered', buffer')
  /\ config.coalescing \/ buffer' = <<>>

\* A flush fills the pipeline.
LEMMA FlushFills ==
  ASSUME TypeOK, FrontInOrder, PipeInv, ~aborted, FlushBuffer, streamed' = streamed
  PROVE  Filled
<1> DEFINE after == Joined(Now, buffer)
<1>1. PipeTypes(Front, seen, chain, buffer, streamed)
      /\ Good(Front, sent, seen, chain, buffer, streamed)
  BY PipeTyped DEF PipeInv
<1>2. seen' = after.seen /\ chain' = after.chain /\ buffer' = <<>>
  BY DEF FlushBuffer, Enter
<1>3. Now.seen = seen /\ Now.chain = chain
  BY DEF Now
<1> HIDE DEF after
<1>4. /\ PipeTypes(Front, seen', chain', buffer', streamed')
      /\ Good(Front, sent, seen', chain', buffer', streamed')
      /\ seen \subseteq seen'
  BY <1>1, <1>2, <1>3, FlushKeeps DEF after
<1>5. buffered' = {}
  BY DEF FlushBuffer, PipeInv
<1> QED BY <1>2, <1>4, <1>5 DEF Filled, Named

\* So does every branch of enqueue: pushes, skips and flushes in a row.
LEMMA StreamFills ==
  ASSUME TypeOK, FrontInOrder, PipeInv, ~aborted, Stream
  PROVE  Filled
<1> DEFINE i == streamed + 1
           P(sn, ch, bf, n) == PipeTypes(Front, sn, ch, bf, n) /\ Good(Front, sent, sn, ch, bf, n)
<1>1. P(seen, chain, buffer, streamed)
  BY PipeTyped DEF PipeInv
<1>2. streamed' = i /\ i \in Block /\ streamed \in Nat /\ buffered \subseteq Key
  BY BlockFacts DEF Stream, TypeOK
<1>3. Named(buffered, buffer)
  BY DEF PipeInv, Named
<1>4. KeyOf[i] \in Key /\ Keys(<<i>>) = <<KeyOf[i]>> /\ <<i>> = Append(<<>>, i)
  BY <1>2, KeyAssumption DEF Block, Keys
<1>5. buffer \in Seq(Block)
  BY DEF TypeOK
<1>0. Now.seen = seen /\ Now.chain = chain
  BY DEF Now
\* The buffer, flushed.
<1> DEFINE one == Joined(Now, buffer)
<1>6. P(one.seen, one.chain, <<>>, streamed) /\ seen \subseteq one.seen
  BY <1>0, <1>1, FlushKeeps
\* The buffer with the block, flushed.
<1> DEFINE all == Joined(Now, Append(buffer, i))
<1>7. P(seen, chain, Append(buffer, i), i)
  BY <1>1, <1>2, PushKeeps
<1>8. P(all.seen, all.chain, <<>>, i) /\ seen \subseteq all.seen
  BY <1>0, <1>7, FlushKeeps
\* The buffer, flushed, and the block in the buffer.
<1>9. P(one.seen, one.chain, <<i>>, i)
  <2> HIDE DEF one
  <2> QED BY <1>2, <1>4, <1>6, PushKeeps
\* The buffer, flushed, and the block behind it.
<1> DEFINE two == Joined(one, <<i>>)
<1>10. P(two.seen, two.chain, <<>>, i) /\ seen \subseteq two.seen
  <2> HIDE DEF one
  <2> QED BY <1>6, <1>9, FlushKeeps
<1> HIDE DEF one, all, two, P
<1>11. CASE i \in Media
  <2>1. EnqueueMedia(i)
    BY <1>11 DEF Stream
  <2>2. seen' = two.seen /\ chain' = two.chain /\ buffer' = <<>>
    BY <2>1 DEF EnqueueMedia, EnterBoth, two, one
  <2>3. buffered' = {}
    BY <1>3, <2>1 DEF EnqueueMedia, Named
  <2> QED BY <1>2, <1>10, <2>2, <2>3 DEF Filled, P, Named
<1>12. CASE i \notin Media /\ config.coalescing
  <2>1. EnqueueText(i)
    BY <1>12 DEF Stream
  <2>2. CASE <<KeyOf[i]>> \in seen \/ KeyOf[i] \in buffered
    <3>1. KeyNamed(seen, i) \/ Has(buffer, i)
      <4>1. CASE <<KeyOf[i]>> \in seen
        <5>1. 1 \in DOMAIN <<KeyOf[i]>> /\ <<KeyOf[i]>>[1] = KeyOf[i]
          OBVIOUS
        <5> QED BY <4>1, <5>1 DEF KeyNamed
      <4>2. CASE KeyOf[i] \in buffered
        BY <1>3, <4>2 DEF Named, Has
      <4> QED BY <2>2, <4>1, <4>2
    <3>2. UNCHANGED <<buffer, buffered, seen, chain>>
      BY <2>1, <2>2 DEF EnqueueText
    <3>3. Good(Front, sent, seen, chain, buffer, i)
      BY <1>1, <3>1, SkipKeeps DEF P
    <3>4. PipeTypes(Front, seen, chain, buffer, i)
      BY <1>1, <1>2 DEF P, PipeTypes
    <3> QED BY <1>2, <1>3, <1>12, <3>2, <3>3, <3>4 DEF Filled
  <2>3. CASE /\ buffer' = Append(buffer, i) /\ buffered' = buffered \cup {KeyOf[i]}
             /\ UNCHANGED <<seen, chain>>
    <3>1. Named(buffered', buffer')
      <4> DEFINE cs == Append(buffer, i)
      <4>1. /\ Len(buffer) \in Nat /\ DOMAIN buffer = 1 .. Len(buffer)
            /\ DOMAIN cs = 1 .. Len(buffer) + 1 /\ cs[Len(buffer) + 1] = i
            /\ \A n \in 1 .. Len(buffer) : cs[n] = buffer[n]
        BY <1>2, <1>5, SeqFacts
      <4> HIDE DEF cs
      <4>2. ASSUME NEW k \in buffered PROVE \E n \in DOMAIN cs : KeyOf[cs[n]] = k
        <5>1. PICK n \in DOMAIN buffer : KeyOf[buffer[n]] = k
          BY <1>3, <4>2 DEF Named
        <5>2. n \in DOMAIN cs /\ cs[n] = buffer[n]
          BY <4>1
        <5> QED BY <5>1, <5>2
      <4>3. \E n \in DOMAIN cs : KeyOf[cs[n]] = KeyOf[i]
        <5>1. Len(buffer) + 1 \in DOMAIN cs
          BY <4>1
        <5> QED BY <4>1, <5>1
      <4> QED BY <2>3, <4>2, <4>3 DEF Named, cs
    <3> QED BY <1>2, <1>4, <1>7, <1>12, <2>3, <3>1 DEF Filled, P
  <2>4. CASE Enter(Append(buffer, i)) /\ buffer' = <<>> /\ buffered' = {}
    <3>1. seen' = all.seen /\ chain' = all.chain
      BY <2>4 DEF Enter, all
    <3> QED BY <1>2, <1>8, <2>4, <3>1 DEF Filled, P, Named
  <2>5. CASE Enter(buffer) /\ buffer' = <<i>> /\ buffered' = {}
    <3>1. seen' = one.seen /\ chain' = one.chain
      BY <2>5 DEF Enter, one
    <3> QED BY <1>2, <1>6, <1>9, <1>12, <2>5, <3>1 DEF Filled, P, Named
  <2>6. CASE EnterBoth(buffer, <<i>>) /\ buffer' = <<>> /\ buffered' = {}
    <3>1. seen' = two.seen /\ chain' = two.chain
      BY <2>6 DEF EnterBoth, two, one
    <3> QED BY <1>2, <1>10, <2>6, <3>1 DEF Filled, P, Named
  <2> QED BY <2>1, <2>2, <2>3, <2>4, <2>5, <2>6 DEF EnqueueText
<1>13. CASE i \notin Media /\ ~config.coalescing
  <2>1. Enter(<<i>>) /\ UNCHANGED <<buffer, buffered>>
    BY <1>13 DEF Stream
  <2>2. buffer = <<>>
    BY <1>13 DEF PipeInv
  <2>3. seen' = all.seen /\ chain' = all.chain
    BY <1>4, <2>1, <2>2 DEF Enter, all
  <2> QED BY <1>2, <1>3, <1>8, <2>1, <2>2, <2>3 DEF Filled, P
<1> QED BY <1>11, <1>12, <1>13

-----------------------------------------------------------------------------
(***************************************************************************)
(* The steps that empty it.  A payload is forwarded to the chat or to the  *)
(* dispatcher's queue, and is lost only when a delivery fails.             *)
(***************************************************************************)
\* q with p at its end.
Extends(r, q, p) ==
  /\ Len(r) = Len(q) + 1 /\ DOMAIN r = 1 .. Len(q) + 1 /\ r[Len(q) + 1] = p
  /\ \A n \in 1 .. Len(q) : r[n] = q[n]

\* Append extends.
LEMMA ExtendsAppend ==
  ASSUME NEW q \in Seq(PayloadType), NEW p \in PayloadType
  PROVE  /\ Extends(Append(q, p), q, p) /\ Append(q, p) \in Seq(PayloadType)
         /\ Len(q) \in Nat /\ DOMAIN q = 1 .. Len(q)
  BY SeqFacts DEF Extends

\* What is in an extended queue was there or is the new payload.
LEMMA ExtendsFacts ==
  ASSUME NEW q \in Seq(PayloadType), NEW r, NEW p, Extends(r, q, p)
  PROVE  /\ HasFinal(r) => HasFinal(q) \/ p.final
         /\ HasBlock(r) => HasBlock(q) \/ ~p.final
         /\ \A j \in DOMAIN q : j \in DOMAIN r /\ r[j] = q[j]
         /\ Len(q) + 1 \in DOMAIN r /\ r[Len(q) + 1] = p
<1>1. Len(q) \in Nat /\ DOMAIN q = 1 .. Len(q)
  BY SeqFacts
<1>2. \A j \in DOMAIN r : j = Len(q) + 1 \/ (j \in DOMAIN q /\ r[j] = q[j])
  BY <1>1 DEF Extends
<1>3. \A j \in DOMAIN q : j \in DOMAIN r /\ r[j] = q[j]
  BY <1>1 DEF Extends
<1>4. Len(q) + 1 \in DOMAIN r /\ r[Len(q) + 1] = p
  BY <1>1 DEF Extends
<1> QED BY <1>2, <1>3, <1>4 DEF HasFinal, HasBlock

\* Where a forwarded payload may be.
Forwarded(p) ==
  \/ Extends(chat', chat, p) /\ failed' = failed /\ outbox' = outbox /\ config.routed
  \/ failed' /\ chat' = chat /\ outbox' = outbox /\ config.routed
  \/ Extends(outbox', outbox, p) /\ failed' = failed /\ chat' = chat /\ ~config.routed

\* What Forward does: one of three things, all well typed.
LEMMA ForwardTypes ==
  ASSUME TypeOK, NEW p \in PayloadType, Forward(p)
  PROVE  /\ Forwarded(p)
         /\ chat' \in Seq(PayloadType) /\ outbox' \in Seq(PayloadType) /\ failed' \in BOOLEAN
<1>1. chat \in Seq(PayloadType) /\ outbox \in Seq(PayloadType) /\ failed \in BOOLEAN
  BY DEF TypeOK
<1>2. CASE config.routed /\ chat' = Append(chat, p) /\ UNCHANGED <<failed, outbox>>
  BY <1>1, <1>2, ExtendsAppend DEF Forwarded
<1>3. CASE config.routed /\ failed' = TRUE /\ UNCHANGED <<chat, outbox>>
  BY <1>1, <1>3 DEF Forwarded
<1>4. CASE ~config.routed /\ outbox' = Append(outbox, p) /\ UNCHANGED <<chat, failed>>
  BY <1>1, <1>4, ExtendsAppend DEF Forwarded
<1> QED BY <1>2, <1>3, <1>4 DEF Forward, Arrive

\* The order of what has left the pipeline, when a payload that is not below it follows.
LEMMA ForwardOrder ==
  ASSUME TypeOK, FrontInOrder, config.routed => outbox = <<>>,
         NEW p \in PayloadType, Forward(p), Sorted(Part(p)),
         Lt(Nums(Parts(chat)), NumsOf(Part(p))), Lt(Nums(Parts(outbox)), NumsOf(Part(p)))
  PROVE  /\ Rising(Parts(chat')) /\ Rising(Parts(outbox'))
         /\ Lt(Nums(Parts(chat')), Nums(Parts(outbox')))
         /\ Nums(Parts(chat')) \subseteq Nums(Parts(chat)) \cup NumsOf(Part(p))
         /\ Nums(Parts(outbox')) \subseteq Nums(Parts(outbox)) \cup NumsOf(Part(p))
<1>1. chat \in Seq(PayloadType) /\ outbox \in Seq(PayloadType)
  BY DEF TypeOK
<1>2. /\ Parts(chat) \in Seq(Seq(Nat)) /\ Parts(outbox) \in Seq(Seq(Nat))
      /\ Part(p) \in Seq(Nat)
  <2>1. Part(p) \in Seq(Block)
    BY DEF Part, PayloadType
  <2>2. Parts(chat) \in Seq(Seq(Block)) /\ Parts(outbox) \in Seq(Seq(Block))
    BY <1>1, PartsFacts
  <2> QED BY <2>1, <2>2, BlockFacts
<1>3. /\ Rising(Parts(chat)) /\ Rising(Parts(outbox))
      /\ Lt(Nums(Parts(chat)), Nums(Parts(outbox)))
  BY DEF FrontInOrder
<1>4. CASE config.routed /\ chat' = Append(chat, p) /\ UNCHANGED outbox
  <2>1. Parts(chat') = Append(Parts(chat), Part(p))
    BY <1>1, <1>4, PartsFacts
  <2>2. Rising(Parts(chat')) /\ Nums(Parts(chat')) = Nums(Parts(chat)) \cup NumsOf(Part(p))
    BY <1>2, <1>3, <2>1, PushQueue
  <2>3. Nums(Parts(outbox)) = {}
    <3>1. Parts(outbox) = <<>>
      <4>1. outbox = <<>> /\ Len(outbox) = 0
        BY <1>1, <1>4, SeqFacts
      <4>2. Len(Parts(outbox)) = 0 /\ Parts(outbox) \in Seq(Seq(Block))
        BY <1>1, <4>1, PartsFacts
      <4> QED BY <4>2
    <3> QED BY <3>1, NoQueue
  <2> QED BY <1>3, <1>4, <2>2, <2>3 DEF Lt
<1>5. CASE UNCHANGED <<chat, outbox>>
  BY <1>3, <1>5
<1>6. CASE outbox' = Append(outbox, p) /\ UNCHANGED chat
  <2>1. Parts(outbox') = Append(Parts(outbox), Part(p))
    BY <1>1, <1>6, PartsFacts
  <2>2. /\ Rising(Parts(outbox'))
        /\ Nums(Parts(outbox')) = Nums(Parts(outbox)) \cup NumsOf(Part(p))
    BY <1>2, <1>3, <2>1, PushQueue
  <2> QED BY <1>3, <1>6, <2>2 DEF Lt
<1> QED BY <1>4, <1>5, <1>6 DEF Forward, Arrive

\* What is there stays there.
LEMMA ForwardKeeps ==
  ASSUME TypeOK, SentArrives, AllUnderway, NEW p \in PayloadType, Forwarded(p),
         awaited' = awaited
  PROVE  /\ ~failed' => \A ks \in sent :
              \/ \E j \in DOMAIN chat' : ~chat'[j].final /\ Keys(chat'[j].blocks) = ks
              \/ \E j \in DOMAIN outbox' : ~outbox'[j].final /\ Keys(outbox'[j].blocks) = ks
         /\ run' = run => AllUnderway'
         /\ HasFinal(chat') \/ HasFinal(outbox') => HasFinal(chat) \/ HasFinal(outbox) \/ p.final
         /\ HasBlock(chat') \/ HasBlock(outbox') => HasBlock(chat) \/ HasBlock(outbox) \/ ~p.final
         /\ ~failed' => ~failed /\ \/ \E j \in DOMAIN chat' : chat'[j] = p
                                   \/ /\ Len(outbox') \in DOMAIN outbox'
                                      /\ outbox'[Len(outbox')] = p
         /\ Len(outbox') \in Nat /\ Len(outbox) <= Len(outbox')
         /\ config.routed => outbox' = outbox
<1>1. /\ chat \in Seq(PayloadType) /\ outbox \in Seq(PayloadType) /\ Len(outbox) \in Nat
      /\ DOMAIN outbox = 1 .. Len(outbox) /\ awaited \in 0 .. Len(outbox)
  BY SeqFacts DEF TypeOK
<1>2. CASE Extends(chat', chat, p) /\ failed' = failed /\ outbox' = outbox /\ config.routed
  <2>1. /\ \A j \in DOMAIN chat : j \in DOMAIN chat' /\ chat'[j] = chat[j]
        /\ Len(chat) + 1 \in DOMAIN chat' /\ chat'[Len(chat) + 1] = p
        /\ HasFinal(chat') => HasFinal(chat) \/ p.final
        /\ HasBlock(chat') => HasBlock(chat) \/ ~p.final
    BY <1>1, <1>2, ExtendsFacts
  <2>2. run' = run => AllUnderway'
    BY <1>2, <2>1 DEF AllUnderway
  <2>3. ~failed' => \A ks \in sent :
              \/ \E j \in DOMAIN chat' : ~chat'[j].final /\ Keys(chat'[j].blocks) = ks
              \/ \E j \in DOMAIN outbox' : ~outbox'[j].final /\ Keys(outbox'[j].blocks) = ks
    BY <1>2, <2>1 DEF SentArrives
  <2> QED BY <1>1, <1>2, <2>1, <2>2, <2>3
<1>3. CASE failed' /\ chat' = chat /\ outbox' = outbox /\ config.routed
  BY <1>1, <1>3 DEF AllUnderway
<1>4. CASE Extends(outbox', outbox, p) /\ failed' = failed /\ chat' = chat /\ ~config.routed
  <2>1. /\ \A j \in DOMAIN outbox : j \in DOMAIN outbox' /\ outbox'[j] = outbox[j]
        /\ Len(outbox) + 1 \in DOMAIN outbox' /\ outbox'[Len(outbox) + 1] = p
        /\ HasFinal(outbox') => HasFinal(outbox) \/ p.final
        /\ HasBlock(outbox') => HasBlock(outbox) \/ ~p.final
    BY <1>1, <1>4, ExtendsFacts
  <2>2. Len(outbox') = Len(outbox) + 1
    BY <1>4 DEF Extends
  <2>3. \A j \in 1 .. awaited : outbox'[j] = outbox[j]
    BY <1>1, <2>1
  <2>4. run' = run => AllUnderway'
    BY <1>4, <2>3 DEF AllUnderway
  <2>5. ~failed' => \A ks \in sent :
              \/ \E j \in DOMAIN chat' : ~chat'[j].final /\ Keys(chat'[j].blocks) = ks
              \/ \E j \in DOMAIN outbox' : ~outbox'[j].final /\ Keys(outbox'[j].blocks) = ks
    BY <1>4, <2>1 DEF SentArrives
  <2> QED BY <1>1, <1>4, <2>1, <2>2, <2>4, <2>5
<1> QED BY <1>2, <1>3, <1>4 DEF Forwarded

-----------------------------------------------------------------------------
(***************************************************************************)
(* The invariant.                                                          *)
(***************************************************************************)
LEMMA ReplyInit == Init => ReplyInv
<1> SUFFICES ASSUME Init PROVE ReplyInv
  OBVIOUS
<1>1. /\ TypingInit /\ config \in [routed : BOOLEAN, coalescing : BOOLEAN]
      /\ run = "streaming" /\ streamed = 0 /\ buffer = <<>> /\ buffered = {} /\ seen = {}
      /\ chain = <<>> /\ sent = {} /\ aborted = FALSE /\ late = <<>> /\ outbox = <<>>
      /\ awaited = 0 /\ chat = <<>> /\ failed = FALSE
  BY DEF Init
<1>2. TypingOK
  <2>1. typing \in [started : BOOLEAN, active : BOOLEAN, runComplete : BOOLEAN,
                    dispatchIdle : BOOLEAN, sealed : BOOLEAN]
    BY <1>1, Zenon DEF TypingInit
  <2> QED BY <1>1, <2>1 DEF TypingInit, TypingOK
<1>3. TypeOK
  <2>1. /\ streamed \in 0 .. Len(KeyOf) /\ awaited \in 0 .. Len(outbox)
        /\ buffer \in Seq(Block) /\ chain \in Seq(Seq(Block)) /\ late \in Seq(Seq(Block))
        /\ outbox \in Seq(PayloadType) /\ chat \in Seq(PayloadType)
    BY <1>1, BlockFacts
  <2>2. aborted \in BOOLEAN /\ failed \in BOOLEAN
    BY <1>1, Zenon
  <2> QED BY <1>1, <1>2, <2>1, <2>2 DEF TypeOK
<1>4. Parts(chat) = <<>> /\ Parts(outbox) = <<>>
  BY <1>1 DEF Parts
<1>5. FrontInOrder /\ Front = {}
  BY <1>1, <1>4, NoQueue DEF FrontInOrder, Front, Lt
<1>6. PipeInv
  <2>1. KeysIn(<<>>) = {}
    BY DEF KeysIn
  <2>2. Good({}, {}, {}, <<>>, <<>>, 0)
    BY <2>1, NoQueue DEF Good, Lt
  <2> QED BY <1>1, <1>5, <2>2 DEF PipeInv
<1>7. SentArrives /\ RunInv /\ AllUnderway
  BY <1>1 DEF SentArrives, RunInv, AllUnderway, HasFinal, HasBlock, Ending
<1> QED BY <1>3, <1>5, <1>6, <1>7 DEF ReplyInv

\* A block is streamed, or the buffer is flushed.
LEMMA FillStep ==
  ASSUME ReplyInv, TypingOK', Stream \/ IdleFlush \/ EndRun
  PROVE  ReplyInv'
<1>1. TypeOK /\ FrontInOrder /\ PipeInv /\ SentArrives /\ RunInv /\ AllUnderway
  BY DEF ReplyInv
<1>2. UNCHANGED <<config, sent, aborted, late, outbox, awaited, chat, failed>>
  BY DEF Stream, IdleFlush, EndRun
<1>3. /\ run = "streaming" /\ run' \in {"streaming", "flushing"}
      /\ streamed \in Nat /\ streamed' \in 0 .. Len(KeyOf) /\ streamed <= streamed'
      /\ run' = "flushing" => streamed' = Len(KeyOf) /\ buffer' = <<>>
  <2>1. streamed \in 0 .. Len(KeyOf) /\ Len(KeyOf) \in Nat /\ Block = 1 .. Len(KeyOf)
    BY <1>1, BlockFacts DEF TypeOK
  <2>2. CASE Stream
    BY <1>1, <2>1, <2>2 DEF Stream
  <2>3. CASE IdleFlush
    BY <2>1, <2>3 DEF IdleFlush
  <2>4. CASE EndRun
    BY <2>1, <2>4 DEF EndRun, FlushBuffer
  <2> QED BY <2>2, <2>3, <2>4
<1>4. Front' = Front /\ FrontInOrder'
  <2>1. Front' = Front
    BY <1>2 DEF Front
  <2>2. Front \subseteq 1 .. streamed'
    BY <1>1, <1>3 DEF FrontInOrder
  <2> QED BY <1>1, <1>2, <2>1, <2>2 DEF FrontInOrder
<1>5. CASE aborted
  <2>1. UNCHANGED <<seen, chain>> /\ buffer' \in Seq(Block) /\ buffered' \subseteq Key
    <3>1. CASE Stream
      BY <1>1, <1>5, <3>1 DEF Stream, TypeOK
    <3>2. CASE IdleFlush \/ EndRun
      <4>1. FlushBuffer
        BY <3>2 DEF IdleFlush, EndRun
      <4>2. UNCHANGED <<seen, chain, buffered>> /\ buffer' = <<>>
        BY <1>5, <4>1 DEF FlushBuffer
      <4>3. <<>> \in Seq(Block)
        OBVIOUS
      <4> QED BY <1>1, <4>2, <4>3 DEF TypeOK
    <3> QED BY <3>1, <3>2
  <2>2. TypeOK'
    BY <1>1, <1>2, <1>3, <2>1 DEF TypeOK
  <2>3. PipeInv'
    BY <1>1, <1>2, <1>5, <2>1 DEF PipeInv
  <2>4. SentArrives' /\ RunInv' /\ AllUnderway'
    BY <1>1, <1>2, <1>3 DEF SentArrives, RunInv, AllUnderway, Ending
  <2> QED BY <1>4, <2>2, <2>3, <2>4 DEF ReplyInv
<1>6. CASE ~aborted
  <2>1. Filled
    <3>1. CASE Stream
      BY <1>1, <1>6, <3>1, StreamFills
    <3>2. CASE IdleFlush \/ EndRun
      BY <1>1, <1>6, <3>2, FlushFills DEF IdleFlush, EndRun
    <3> QED BY <3>1, <3>2
  <2>2. TypeOK'
    BY <1>1, <1>2, <1>3, <2>1 DEF TypeOK, Filled, PipeTypes
  <2>3. PipeInv'
    BY <1>1, <1>2, <1>4, <1>6, <2>1 DEF PipeInv, Filled, Named
  <2>4. SentArrives' /\ RunInv' /\ AllUnderway'
    BY <1>1, <1>2, <1>3 DEF SentArrives, RunInv, AllUnderway, Ending
  <2> QED BY <1>4, <2>2, <2>3, <2>4 DEF ReplyInv
<1> QED BY <1>5, <1>6

\* The first payload of the chain is forwarded.
LEMMA SendStep ==
  ASSUME ReplyInv, TypingOK', SendBlock
  PROVE  ReplyInv'
<1> DEFINE h == Head(chain)
           p == Payload(h, FALSE)
<1>1. TypeOK /\ FrontInOrder /\ PipeInv /\ SentArrives /\ RunInv /\ AllUnderway
  BY DEF ReplyInv
<1>2. /\ chain # <<>> /\ chain' = Tail(chain) /\ sent' = sent \cup {Keys(h)} /\ Forward(p)
      /\ UNCHANGED <<config, run, streamed, buffer, buffered, seen, aborted, late, awaited>>
  BY DEF SendBlock
<1>3. ~aborted /\ late = <<>> /\ run \notin Ending
  BY <1>1, <1>2 DEF PipeInv, RunInv
<1>4. /\ chain \in Seq(Seq(Block)) /\ chain \in Seq(Seq(Nat)) /\ h \in Seq(Block)
      /\ Tail(chain) \in Seq(Seq(Block))
  <2>1. chain \in Seq(Seq(Block))
    BY <1>1 DEF TypeOK
  <2> QED BY <1>2, <2>1, BlockFacts, SeqFacts
<1>5. p \in PayloadType /\ Part(p) = h /\ p.final = FALSE /\ p.blocks = h
  BY <1>4 DEF Payload, PayloadType, Part
<1>6. Good(Front, sent, seen, chain, buffer, streamed)
  BY <1>1, <1>3 DEF PipeInv
<1>7. /\ Nums(chain) = NumsOf(h) \cup Nums(Tail(chain))
      /\ Sorted(h) /\ Rising(Tail(chain)) /\ Lt(NumsOf(h), Nums(Tail(chain)))
  BY <1>2, <1>4, <1>6, PopQueue DEF Good
<1>8. /\ Forwarded(p) /\ failed' \in BOOLEAN
      /\ chat' \in Seq(PayloadType) /\ outbox' \in Seq(PayloadType)
  BY <1>1, <1>2, <1>5, ForwardTypes
<1>9. KeysIn(chain) = KeysIn(Tail(chain)) \cup {Keys(h)}
  BY <1>2, <1>4, KeysPop
<1> HIDE DEF h, p
<1>10. Lt(Front, NumsOf(h)) /\ NumsOf(h) \subseteq 1 .. streamed
  BY <1>6, <1>7 DEF Good, Lt
<1>11. Lt(Nums(Parts(chat)), NumsOf(h)) /\ Lt(Nums(Parts(outbox)), NumsOf(h))
  BY <1>10 DEF Lt, Front
<1>12. /\ Rising(Parts(chat')) /\ Rising(Parts(outbox'))
       /\ Lt(Nums(Parts(chat')), Nums(Parts(outbox')))
       /\ Nums(Parts(chat')) \subseteq Nums(Parts(chat)) \cup NumsOf(h)
       /\ Nums(Parts(outbox')) \subseteq Nums(Parts(outbox)) \cup NumsOf(h)
  BY <1>1, <1>2, <1>5, <1>7, <1>11, ForwardOrder DEF RunInv
<1>13. Nums(late) = {} /\ Rising(late)
  BY <1>3, NoQueue
<1>14. Front' \subseteq Front \cup NumsOf(h)
  BY <1>2, <1>12, <1>13 DEF Front
<1>15. FrontInOrder'
  BY <1>1, <1>2, <1>10, <1>12, <1>13, <1>14 DEF FrontInOrder, Lt
<1>16. Good(Front', sent', seen, Tail(chain), buffer, streamed)
  <2>1. Lt(Front', Nums(Tail(chain))) /\ Lt(Front', NumsOf(buffer))
    BY <1>6, <1>7, <1>14 DEF Good, Lt
  <2>2. seen = sent' \cup KeysIn(Tail(chain))
    BY <1>2, <1>6, <1>9 DEF Good
  <2>3. /\ Lt(Nums(Tail(chain)), NumsOf(buffer))
        /\ Nums(Tail(chain)) \cup NumsOf(buffer) \subseteq 1 .. streamed
    BY <1>6, <1>7 DEF Good, Lt
  <2> QED BY <1>6, <1>7, <2>1, <2>2, <2>3 DEF Good
<1>17. PipeInv'
  BY <1>1, <1>2, <1>3, <1>16 DEF PipeInv
<1>18. Keys(h) \in seen
  BY <1>6, <1>9 DEF Good
<1>19. /\ ~failed' => \A ks \in sent :
            \/ \E j \in DOMAIN chat' : ~chat'[j].final /\ Keys(chat'[j].blocks) = ks
            \/ \E j \in DOMAIN outbox' : ~outbox'[j].final /\ Keys(outbox'[j].blocks) = ks
       /\ AllUnderway'
       /\ HasFinal(chat') \/ HasFinal(outbox') => HasFinal(chat) \/ HasFinal(outbox)
       /\ ~failed' => \/ \E j \in DOMAIN chat' : chat'[j] = p
                      \/ Len(outbox') \in DOMAIN outbox' /\ outbox'[Len(outbox')] = p
       /\ Len(outbox') \in Nat /\ Len(outbox) <= Len(outbox')
       /\ config.routed => outbox' = outbox
  BY <1>1, <1>2, <1>5, <1>8, ForwardKeeps
<1>20. TypeOK'
  <2>1. awaited \in 0 .. Len(outbox) /\ Len(outbox) \in Nat
    BY <1>1, SeqFacts DEF TypeOK
  <2>2. awaited' \in 0 .. Len(outbox')
    BY <1>2, <1>19, <2>1
  <2> QED BY <1>1, <1>2, <1>4, <1>8, <1>18, <2>2 DEF TypeOK
<1>21. SentArrives'
  <2> SUFFICES ASSUME ~failed', NEW ks \in sent'
               PROVE \/ \E j \in DOMAIN chat' : ~chat'[j].final /\ Keys(chat'[j].blocks) = ks
                     \/ \E j \in DOMAIN outbox' : ~outbox'[j].final /\ Keys(outbox'[j].blocks) = ks
    BY DEF SentArrives
  <2>1. CASE ks \in sent
    BY <1>19, <2>1
  <2>2. CASE ks = Keys(h)
    BY <1>5, <1>19, <2>2
  <2> QED BY <1>2, <2>1, <2>2
<1>22. RunInv'
  BY <1>1, <1>2, <1>3, <1>19 DEF RunInv, Ending
<1> QED BY <1>15, <1>17, <1>19, <1>20, <1>21, <1>22 DEF ReplyInv

\* The first payload of the chain is given up, and the others with it.
LEMMA TimeOutStep ==
  ASSUME ReplyInv, TypingOK', BlockTimesOut
  PROVE  ReplyInv'
<1> DEFINE h == Head(chain)
<1>1. TypeOK /\ FrontInOrder /\ PipeInv /\ SentArrives /\ RunInv /\ AllUnderway
  BY DEF ReplyInv
<1>2. /\ chain # <<>> /\ chain' = <<>> /\ aborted' = TRUE /\ late' = Append(late, h)
      /\ UNCHANGED <<config, run, streamed, buffer, buffered, seen, sent, outbox, awaited,
                     chat, failed>>
  BY DEF BlockTimesOut
<1>3. ~aborted /\ late = <<>>
  BY <1>1, <1>2 DEF PipeInv
<1>4. chain \in Seq(Seq(Block)) /\ chain \in Seq(Seq(Nat)) /\ h \in Seq(Block) /\ h \in Seq(Nat)
  <2>1. chain \in Seq(Seq(Block)) /\ h \in Seq(Block)
    BY <1>1, <1>2, SeqFacts DEF TypeOK
  <2> QED BY <2>1, BlockFacts
<1>5. /\ Nums(chain) = NumsOf(h) \cup Nums(Tail(chain)) /\ Sorted(h)
      /\ Lt(Front, Nums(chain)) /\ Nums(chain) \subseteq 1 .. streamed
  BY <1>1, <1>2, <1>3, <1>4, PopQueue DEF PipeInv, Good
<1>6. late \in Seq(Seq(Nat)) /\ Nums(late) = {} /\ Rising(late) /\ late \in Seq(Seq(Block))
  BY <1>1, <1>3, NoQueue DEF TypeOK
<1>7. Nums(late') = NumsOf(h) /\ Rising(late') /\ late' \in Seq(Seq(Block))
  <2>1. late' \in Seq(Seq(Block))
    BY <1>2, <1>4, <1>6, SeqFacts
  <2>2. Nums(late') = Nums(late) \cup NumsOf(h)
    BY <1>2, <1>4, <1>6, PushQueue
  <2>3. Rising(late')
    BY <1>2, <1>4, <1>5, <1>6, PushQueue DEF Lt
  <2> QED BY <1>6, <2>1, <2>2, <2>3
<1> HIDE DEF h
<1>8. FrontInOrder'
  <2>1. Front' = Nums(Parts(chat)) \cup Nums(Parts(outbox)) \cup NumsOf(h)
    BY <1>2, <1>7 DEF Front
  <2>2. Front' \subseteq 1 .. streamed
    BY <1>1, <1>5, <2>1 DEF FrontInOrder, Front
  <2>3. Lt(Nums(Parts(chat)), NumsOf(h)) /\ Lt(Nums(Parts(outbox)), NumsOf(h))
    BY <1>5 DEF Lt, Front
  <2> QED BY <1>1, <1>2, <1>7, <2>2, <2>3 DEF FrontInOrder
<1>9. TypeOK'
  <2>1. chain' \in Seq(Seq(Block)) /\ aborted' \in BOOLEAN
    BY <1>2
  <2> QED BY <1>1, <1>2, <1>7, <2>1 DEF TypeOK
<1>10. PipeInv' /\ SentArrives' /\ RunInv' /\ AllUnderway'
  BY <1>1, <1>2 DEF PipeInv, SentArrives, RunInv, AllUnderway
<1> QED BY <1>8, <1>9, <1>10 DEF ReplyInv

\* What was given up arrives after all, or is stopped.
LEMMA LateStep ==
  ASSUME ReplyInv, TypingOK', LateBlock
  PROVE  ReplyInv'
<1> DEFINE h == Head(late)
           p == Payload(h, FALSE)
<1>1. TypeOK /\ FrontInOrder /\ PipeInv /\ SentArrives /\ RunInv /\ AllUnderway
  BY DEF ReplyInv
<1>2. /\ late # <<>> /\ late' = Tail(late)
      /\ Forward(p) \/ UNCHANGED <<outbox, chat, failed>>
      /\ UNCHANGED <<config, run, streamed, buffer, buffered, seen, chain, sent, aborted, awaited>>
  BY DEF LateBlock, pipeVars
<1>3. aborted /\ chain = <<>>
  BY <1>1, <1>2 DEF PipeInv
<1>4. /\ late \in Seq(Seq(Nat)) /\ h \in Seq(Block) /\ late' \in Seq(Seq(Block))
  <2>1. late \in Seq(Seq(Block))
    BY <1>1 DEF TypeOK
  <2> QED BY <1>2, <2>1, BlockFacts, SeqFacts
<1>5. p \in PayloadType /\ Part(p) = h /\ p.final = FALSE
  BY <1>4 DEF Payload, PayloadType, Part
<1>6. /\ Nums(late) = NumsOf(h) \cup Nums(late')
      /\ Sorted(h) /\ Rising(late') /\ Lt(NumsOf(h), Nums(late'))
  BY <1>1, <1>2, <1>4, PopQueue DEF FrontInOrder
<1> HIDE DEF h, p
<1>7. /\ Lt(Nums(Parts(chat)), NumsOf(h)) /\ Lt(Nums(Parts(outbox)), NumsOf(h))
      /\ Lt(Nums(Parts(chat)), Nums(late')) /\ Lt(Nums(Parts(outbox)), Nums(late'))
  BY <1>1, <1>6 DEF FrontInOrder, Lt
<1>8. PipeInv'
  BY <1>2, <1>3 DEF PipeInv
<1>9. CASE UNCHANGED <<outbox, chat, failed>>
  <2>1. Front' \subseteq Front
    BY <1>2, <1>6, <1>9 DEF Front
  <2>2. FrontInOrder'
    BY <1>1, <1>2, <1>6, <1>7, <1>9, <2>1 DEF FrontInOrder
  <2>3. TypeOK'
    BY <1>1, <1>2, <1>4, <1>9 DEF TypeOK
  <2>4. SentArrives' /\ RunInv' /\ AllUnderway'
    BY <1>1, <1>2, <1>9 DEF SentArrives, RunInv, AllUnderway
  <2> QED BY <1>8, <2>2, <2>3, <2>4 DEF ReplyInv
<1>10. CASE Forward(p)
  <2>1. Forwarded(p) /\ chat' \in Seq(PayloadType) /\ outbox' \in Seq(PayloadType)
        /\ failed' \in BOOLEAN
    BY <1>1, <1>5, <1>10, ForwardTypes
  <2>2. /\ Rising(Parts(chat')) /\ Rising(Parts(outbox'))
        /\ Lt(Nums(Parts(chat')), Nums(Parts(outbox')))
        /\ Nums(Parts(chat')) \subseteq Nums(Parts(chat)) \cup NumsOf(h)
        /\ Nums(Parts(outbox')) \subseteq Nums(Parts(outbox)) \cup NumsOf(h)
    BY <1>1, <1>5, <1>6, <1>7, <1>10, ForwardOrder DEF RunInv
  <2>3. Front' \subseteq Front
    BY <1>6, <2>2 DEF Front
  <2>4. Lt(Nums(Parts(chat')), Nums(late')) /\ Lt(Nums(Parts(outbox')), Nums(late'))
    BY <1>6, <1>7, <2>2 DEF Lt
  <2>5. FrontInOrder'
    BY <1>1, <1>2, <1>6, <2>2, <2>3, <2>4 DEF FrontInOrder
  <2>6. /\ ~failed' => \A ks \in sent :
             \/ \E j \in DOMAIN chat' : ~chat'[j].final /\ Keys(chat'[j].blocks) = ks
             \/ \E j \in DOMAIN outbox' : ~outbox'[j].final /\ Keys(outbox'[j].blocks) = ks
        /\ AllUnderway'
        /\ HasFinal(chat') \/ HasFinal(outbox') => HasFinal(chat) \/ HasFinal(outbox)
        /\ Len(outbox') \in Nat /\ Len(outbox) <= Len(outbox')
        /\ config.routed => outbox' = outbox
    BY <1>1, <1>2, <1>5, <2>1, ForwardKeeps
  <2>7. TypeOK'
    <3>1. awaited \in 0 .. Len(outbox) /\ Len(outbox) \in Nat
      BY <1>1, SeqFacts DEF TypeOK
    <3>2. awaited' \in 0 .. Len(outbox')
      BY <1>2, <2>6, <3>1
    <3> QED BY <1>1, <1>2, <1>4, <2>1, <3>2 DEF TypeOK
  <2>8. SentArrives'
    BY <1>2, <2>6 DEF SentArrives
  <2>9. RunInv'
    BY <1>1, <1>2, <1>3, <2>6 DEF RunInv
  <2> QED BY <1>8, <2>5, <2>6, <2>7, <2>8, <2>9 DEF ReplyInv
<1> QED BY <1>2, <1>9, <1>10

-----------------------------------------------------------------------------
(***************************************************************************)
(* The end of the run.                                                     *)
(***************************************************************************)
\* What is sent at that point covers the reply.
LEMMA DroppedIsSent ==
  ASSUME ReplyInv, run = "flushing", chain = <<>>, DropsFinal, ~failed, NEW i \in Block
  PROVE  \/ \E j \in DOMAIN chat : Has(chat[j].blocks, i)
         \/ \E j \in DOMAIN outbox : Has(outbox[j].blocks, i)
<1>1. TypeOK /\ FrontInOrder /\ PipeInv /\ SentArrives /\ RunInv
  BY DEF ReplyInv
<1>2. /\ Block = 1 .. Len(KeyOf) /\ streamed = Len(KeyOf) /\ buffer = <<>>
      /\ chat \in Seq(PayloadType) /\ outbox \in Seq(PayloadType)
  BY <1>1, BlockFacts DEF RunInv, TypeOK
\* A key list that was sent and names the block's key.
<1>3. \E ks \in sent : \E n \in DOMAIN ks : ks[n] = KeyOf[i]
  <2>1. CASE Keys(Whole) \in sent
    <3>1. DOMAIN Keys(Whole) = Block /\ Keys(Whole)[i] = KeyOf[i]
      BY BlockFacts, KeysFacts DEF Whole
    <3> QED BY <2>1, <3>1
  <2>2. CASE ~aborted
    <3>1. Good(Front, sent, seen, chain, buffer, streamed)
      BY <1>1, <2>2 DEF PipeInv
    <3>2. seen = sent
      <4>1. KeysIn(<<>>) = {}
        BY DEF KeysIn
      <4> QED BY <3>1, <4>1 DEF Good
    <3>3. ~Has(buffer, i)
      BY <1>2 DEF Has
    <3>4. KeyNamed(seen, i)
      BY <1>2, <3>1, <3>3 DEF Good
    <3> QED BY <3>2, <3>4 DEF KeyNamed
  <2> QED BY <2>1, <2>2 DEF DropsFinal
<1>4. PICK ks \in sent : \E n \in DOMAIN ks : ks[n] = KeyOf[i]
  BY <1>3
<1>5. ASSUME NEW p \in PayloadType, Keys(p.blocks) = ks PROVE Has(p.blocks, i)
  <2>1. p.blocks \in Seq(Block)
    BY DEF PayloadType
  <2>2. DOMAIN ks = DOMAIN p.blocks /\ \A n \in DOMAIN p.blocks : ks[n] = KeyOf[p.blocks[n]]
    BY <1>5, <2>1, KeysFacts
  <2> QED BY <1>4, <2>2 DEF Has
<1>6. /\ \A j \in DOMAIN chat : chat[j] \in PayloadType
      /\ \A j \in DOMAIN outbox : outbox[j] \in PayloadType
  BY <1>2, SeqFacts
<1> QED BY <1>1, <1>4, <1>5, <1>6 DEF SentArrives

\* The reply is built: what was streamed and sent replaces the final payload.
LEMMA BuildStep ==
  ASSUME ReplyInv, TypingOK', BuildReply
  PROVE  ReplyInv'
<1>1. TypeOK /\ FrontInOrder /\ PipeInv /\ SentArrives /\ RunInv /\ AllUnderway
  BY DEF ReplyInv
<1>2. /\ run = "flushing" /\ chain = <<>>
      /\ UNCHANGED <<config, streamed, buffer, buffered, seen, chain, sent, aborted, late,
                     outbox, chat, failed>>
  BY DEF BuildReply, pipeVars
<1>3. FrontInOrder' /\ PipeInv' /\ SentArrives'
  BY <1>1, <1>2 DEF FrontInOrder, PipeInv, SentArrives, Front, Good
<1>4. /\ Len(outbox) \in Nat /\ DOMAIN outbox = 1 .. Len(outbox)
      /\ awaited \in 0 .. Len(outbox)
  BY <1>1, SeqFacts DEF TypeOK
<1>5. ~HasFinal(chat) /\ ~HasFinal(outbox)
  BY <1>1, <1>2 DEF RunInv, Ending
<1>6. CASE DropsFinal
  <2>1. run' = "waiting" /\ awaited' = Len(outbox)
    BY <1>6 DEF BuildReply
  <2>2. TypeOK'
    BY <1>1, <1>2, <1>4, <2>1 DEF TypeOK
  <2>3. RunInv'
    BY <1>1, <1>2, <1>5, <2>1 DEF RunInv, Ending
  <2>4. AllUnderway'
    BY <1>2, <1>4, <1>6, <2>1, DroppedIsSent DEF AllUnderway
  <2> QED BY <1>3, <2>2, <2>3, <2>4 DEF ReplyInv
<1>7. CASE ~DropsFinal
  <2>1. run' = "replying" /\ awaited' = awaited
    BY <1>7 DEF BuildReply
  <2>2. sent = {} \/ aborted
    BY <1>7 DEF DropsFinal
  <2>3. TypeOK'
    BY <1>1, <1>2, <2>1 DEF TypeOK
  <2>4. RunInv' /\ AllUnderway'
    BY <1>1, <1>2, <1>5, <2>1, <2>2 DEF RunInv, Ending, AllUnderway
  <2> QED BY <1>3, <2>3, <2>4 DEF ReplyInv
<1> QED BY <1>6, <1>7

\* The final payload is sent, whole.
LEMMA FinalStep ==
  ASSUME ReplyInv, TypingOK', SendFinal
  PROVE  ReplyInv'
<1> DEFINE p == Payload(Whole, TRUE)
<1>1. TypeOK /\ FrontInOrder /\ PipeInv /\ SentArrives /\ RunInv /\ AllUnderway
  BY DEF ReplyInv
<1>2. /\ run = "replying" /\ run' = "waiting" /\ Forward(p) /\ awaited' = Len(outbox')
      /\ UNCHANGED <<config, streamed, buffer, buffered, seen, chain, sent, aborted, late>>
  BY DEF SendFinal, pipeVars
<1>3. p \in PayloadType /\ Part(p) = <<>> /\ p.final = TRUE /\ p.blocks = Whole
  BY BlockFacts DEF Payload, PayloadType, Part
<1> HIDE DEF p
<1>4. /\ Forwarded(p) /\ failed' \in BOOLEAN
      /\ chat' \in Seq(PayloadType) /\ outbox' \in Seq(PayloadType)
  BY <1>1, <1>2, <1>3, ForwardTypes
<1>5. /\ Rising(Parts(chat')) /\ Rising(Parts(outbox'))
      /\ Lt(Nums(Parts(chat')), Nums(Parts(outbox')))
      /\ Nums(Parts(chat')) \subseteq Nums(Parts(chat))
      /\ Nums(Parts(outbox')) \subseteq Nums(Parts(outbox))
  <2>1. NumsOf(Part(p)) = {} /\ Sorted(Part(p))
    BY <1>3, NoQueue
  <2>2. Lt(Nums(Parts(chat)), NumsOf(Part(p))) /\ Lt(Nums(Parts(outbox)), NumsOf(Part(p)))
    BY <2>1 DEF Lt
  <2>3. config.routed => outbox = <<>>
    BY <1>1 DEF RunInv
  <2> QED BY <1>1, <1>2, <1>3, <2>1, <2>2, <2>3, ForwardOrder
<1>6. Front' \subseteq Front
  BY <1>2, <1>5 DEF Front
<1>7. FrontInOrder'
  BY <1>1, <1>2, <1>5, <1>6 DEF FrontInOrder, Lt
<1>8. PipeInv'
  <2>1. CASE aborted
    BY <1>1, <1>2, <2>1 DEF PipeInv
  <2>2. CASE ~aborted
    <3>1. Good(Front', sent, seen, chain, buffer, streamed)
      BY <1>1, <1>6, <2>2 DEF PipeInv, Good, Lt
    <3> QED BY <1>1, <1>2, <2>2, <3>1 DEF PipeInv
  <2> QED BY <2>1, <2>2
<1>9. TypeOK'
  <2>1. Len(outbox') \in Nat
    BY <1>4, SeqFacts
  <2> QED BY <1>1, <1>2, <1>4, <2>1 DEF TypeOK
<1>10. Len(outbox) \in Nat /\ DOMAIN outbox = 1 .. Len(outbox)
       /\ chat \in Seq(PayloadType) /\ outbox \in Seq(PayloadType)
  BY <1>1, SeqFacts DEF TypeOK
<1>11. ASSUME NEW i \in Block PROVE Has(p.blocks, i)
  BY <1>3, BlockFacts DEF Has, Whole
<1>12. CASE Extends(chat', chat, p) /\ failed' = failed /\ outbox' = outbox
  <2>1. /\ \A j \in DOMAIN chat : j \in DOMAIN chat' /\ chat'[j] = chat[j]
        /\ Len(chat) + 1 \in DOMAIN chat' /\ chat'[Len(chat) + 1] = p
        /\ HasBlock(chat') => HasBlock(chat)
    BY <1>3, <1>10, <1>12, ExtendsFacts
  <2>2. SentArrives'
    BY <1>1, <1>2, <1>12, <2>1 DEF SentArrives
  <2>3. AllUnderway'
    BY <1>11, <2>1 DEF AllUnderway
  <2>4. RunInv'
    BY <1>1, <1>2, <1>12, <2>1 DEF RunInv, Ending
  <2> QED BY <1>7, <1>8, <1>9, <2>2, <2>3, <2>4 DEF ReplyInv
<1>13. CASE failed' /\ chat' = chat /\ outbox' = outbox
  BY <1>1, <1>2, <1>7, <1>8, <1>9, <1>13 DEF ReplyInv, SentArrives, AllUnderway, RunInv, Ending
<1>14. CASE Extends(outbox', outbox, p) /\ failed' = failed /\ chat' = chat /\ ~config.routed
  <2>1. /\ \A j \in DOMAIN outbox : j \in DOMAIN outbox' /\ outbox'[j] = outbox[j]
        /\ Len(outbox) + 1 \in DOMAIN outbox' /\ outbox'[Len(outbox) + 1] = p
        /\ HasBlock(outbox') => HasBlock(outbox)
    BY <1>3, <1>10, <1>14, ExtendsFacts
  <2>2. SentArrives'
    BY <1>1, <1>2, <1>14, <2>1 DEF SentArrives
  <2>3. Len(outbox) + 1 \in 1 .. awaited'
    BY <1>2, <1>10, <1>14 DEF Extends
  <2>4. AllUnderway'
    BY <1>11, <2>1, <2>3 DEF AllUnderway
  <2>5. RunInv'
    BY <1>1, <1>2, <1>14, <2>1 DEF RunInv, Ending
  <2> QED BY <1>7, <1>8, <1>9, <2>2, <2>4, <2>5 DEF ReplyInv
<1> QED BY <1>4, <1>12, <1>13, <1>14 DEF Forwarded

\* The dispatcher's first payload reaches the chat, or does not.
LEMMA DeliverStep ==
  ASSUME ReplyInv, TypingOK', Deliver
  PROVE  ReplyInv'
<1> DEFINE p == Head(outbox)
<1>1. TypeOK /\ FrontInOrder /\ PipeInv /\ SentArrives /\ RunInv /\ AllUnderway
  BY DEF ReplyInv
<1>2. /\ outbox # <<>> /\ Arrive(p) /\ outbox' = Tail(outbox)
      /\ awaited' = IF awaited > 0 THEN awaited - 1 ELSE 0
      /\ UNCHANGED <<config, run, streamed, buffer, buffered, seen, chain, sent, aborted, late>>
  BY DEF Deliver, pipeVars
<1>3. /\ outbox \in Seq(PayloadType) /\ chat \in Seq(PayloadType) /\ failed \in BOOLEAN
      /\ awaited \in 0 .. Len(outbox)
  BY <1>1 DEF TypeOK
<1>4. /\ Len(outbox) \in Nat \ {0} /\ DOMAIN outbox = 1 .. Len(outbox)
      /\ p \in PayloadType /\ p = outbox[1]
      /\ outbox' \in Seq(PayloadType) /\ Len(outbox') = Len(outbox) - 1
      /\ DOMAIN outbox' = 1 .. Len(outbox) - 1
      /\ \A n \in 1 .. Len(outbox) - 1 : outbox'[n] = outbox[n + 1]
  BY <1>2, <1>3, SeqFacts
<1>5. Parts(outbox') = Tail(Parts(outbox)) /\ Head(Parts(outbox)) = Part(p)
      /\ Parts(outbox) # <<>> /\ Parts(outbox) \in Seq(Seq(Block))
      /\ Parts(chat) \in Seq(Seq(Block)) /\ Part(p) \in Seq(Block)
  <2>1. Part(p) \in Seq(Block)
    BY <1>4 DEF Part, PayloadType
  <2> QED BY <1>2, <1>3, <2>1, PartsFacts
<1>6. /\ Parts(outbox) \in Seq(Seq(Nat)) /\ Parts(chat) \in Seq(Seq(Nat)) /\ Part(p) \in Seq(Nat)
  BY <1>5, BlockFacts
<1> HIDE DEF p
<1>7. /\ Nums(Parts(outbox)) = NumsOf(Part(p)) \cup Nums(Parts(outbox'))
      /\ Sorted(Part(p)) /\ Rising(Parts(outbox'))
      /\ Lt(NumsOf(Part(p)), Nums(Parts(outbox')))
  BY <1>1, <1>5, <1>6, PopQueue DEF FrontInOrder
<1>8. /\ Lt(Nums(Parts(chat)), NumsOf(Part(p)))
      /\ Lt(Nums(Parts(chat)), Nums(Parts(outbox')))
      /\ Lt(NumsOf(Part(p)), Nums(late)) /\ Lt(Nums(Parts(outbox')), Nums(late))
  BY <1>1, <1>7 DEF FrontInOrder, Lt
<1>9. \/ chat' = Append(chat, p) /\ failed' = failed
      \/ chat' = chat /\ failed' = TRUE
  BY <1>2 DEF Arrive
<1>10. /\ chat' \in Seq(PayloadType) /\ failed' \in BOOLEAN /\ Rising(Parts(chat'))
       /\ Nums(Parts(chat')) \subseteq Nums(Parts(chat)) \cup NumsOf(Part(p))
  <2>1. CASE chat' = Append(chat, p) /\ failed' = failed
    <3>1. chat' \in Seq(PayloadType) /\ Parts(chat') = Append(Parts(chat), Part(p))
      BY <1>3, <1>4, <2>1, SeqFacts, PartsFacts
    <3> QED BY <1>1, <1>3, <1>6, <1>7, <1>8, <2>1, <3>1, PushQueue DEF FrontInOrder
  <2>2. CASE chat' = chat /\ failed' = TRUE
    BY <1>1, <1>3, <2>2 DEF FrontInOrder
  <2> QED BY <1>9, <2>1, <2>2
<1>11. Front' \subseteq Front
  BY <1>2, <1>7, <1>10 DEF Front
<1>12. FrontInOrder'
  <2>1. /\ Lt(Nums(Parts(chat')), Nums(Parts(outbox')))
        /\ Lt(Nums(Parts(chat')), Nums(late)) /\ Lt(Nums(Parts(outbox')), Nums(late))
    BY <1>1, <1>7, <1>8, <1>10 DEF FrontInOrder, Lt
  <2> QED BY <1>1, <1>2, <1>7, <1>10, <1>11, <2>1 DEF FrontInOrder
<1>13. PipeInv'
  <2>1. CASE aborted
    BY <1>1, <1>2, <2>1 DEF PipeInv
  <2>2. CASE ~aborted
    <3>1. Good(Front', sent, seen, chain, buffer, streamed)
      BY <1>1, <1>11, <2>2 DEF PipeInv, Good, Lt
    <3> QED BY <1>1, <1>2, <2>2, <3>1 DEF PipeInv
  <2> QED BY <2>1, <2>2
<1>14. TypeOK'
  <2>1. awaited' \in 0 .. Len(outbox')
    BY <1>2, <1>3, <1>4
  <2> QED BY <1>1, <1>2, <1>4, <1>10, <2>1 DEF TypeOK
\* Where a payload is after the step.
<1>15. ASSUME ~failed', NEW j \in DOMAIN outbox
       PROVE  \/ j = 1 /\ \E n \in DOMAIN chat' : chat'[n] = outbox[j]
              \/ j # 1 /\ j - 1 \in DOMAIN outbox' /\ outbox'[j - 1] = outbox[j]
  <2>1. CASE j = 1
    <3>1. chat' = Append(chat, p)
      BY <1>9, <1>15
    <3>2. Extends(chat', chat, p)
      BY <1>3, <1>4, <3>1, ExtendsAppend
    <3>3. Len(chat) + 1 \in DOMAIN chat' /\ chat'[Len(chat) + 1] = p
      BY <1>3, <3>2, ExtendsFacts
    <3> QED BY <1>4, <2>1, <3>3
  <2>2. CASE j # 1
    BY <1>4, <2>2
  <2> QED BY <2>1, <2>2
<1>16. ASSUME NEW j \in DOMAIN chat
       PROVE  j \in DOMAIN chat' /\ chat'[j] = chat[j]
  <2>1. CASE chat' = chat
    BY <2>1
  <2>2. CASE chat' = Append(chat, p)
    <3>1. Extends(chat', chat, p)
      BY <1>3, <1>4, <2>2, ExtendsAppend
    <3> QED BY <1>3, <3>1, ExtendsFacts
  <2> QED BY <1>9, <2>1, <2>2
<1>17. /\ HasFinal(chat') \/ HasFinal(outbox') => HasFinal(chat) \/ HasFinal(outbox)
       /\ HasBlock(chat') \/ HasBlock(outbox') => HasBlock(chat) \/ HasBlock(outbox)
  <2>1. 1 \in DOMAIN outbox /\ outbox[1] = p
    BY <1>4
  <2>2. \A j \in DOMAIN outbox' : j + 1 \in DOMAIN outbox /\ outbox'[j] = outbox[j + 1]
    BY <1>4
  <2>3. /\ HasFinal(chat') => HasFinal(chat) \/ p.final
        /\ HasBlock(chat') => HasBlock(chat) \/ ~p.final
    <3>1. CASE chat' = chat
      BY <3>1
    <3>2. CASE chat' = Append(chat, p)
      <4>1. Extends(chat', chat, p)
        BY <1>3, <1>4, <3>2, ExtendsAppend
      <4> QED BY <1>3, <4>1, ExtendsFacts
    <3> QED BY <1>9, <3>1, <3>2
  <2> QED BY <2>1, <2>2, <2>3 DEF HasFinal, HasBlock
<1>18. ~failed' => ~failed
  BY <1>9
<1>19. SentArrives'
  <2> SUFFICES ASSUME ~failed', NEW ks \in sent
               PROVE \/ \E j \in DOMAIN chat' : ~chat'[j].final /\ Keys(chat'[j].blocks) = ks
                     \/ \E j \in DOMAIN outbox' : ~outbox'[j].final /\ Keys(outbox'[j].blocks) = ks
    BY <1>2 DEF SentArrives
  <2>1. CASE \E j \in DOMAIN chat : ~chat[j].final /\ Keys(chat[j].blocks) = ks
    BY <1>16, <2>1
  <2>2. CASE \E j \in DOMAIN outbox : ~outbox[j].final /\ Keys(outbox[j].blocks) = ks
    <3>1. PICK j \in DOMAIN outbox : ~outbox[j].final /\ Keys(outbox[j].blocks) = ks
      BY <2>2
    <3> QED BY <1>15, <3>1
  <2> QED BY <1>1, <1>18, <2>1, <2>2 DEF SentArrives
<1>20. AllUnderway'
  <2> SUFFICES ASSUME run \in {"waiting", "done"}, ~failed', NEW i \in Block
               PROVE \/ \E j \in DOMAIN chat' : Has(chat'[j].blocks, i)
                     \/ \E j \in 1 .. awaited' : Has(outbox'[j].blocks, i)
    BY <1>2 DEF AllUnderway
  <2>1. CASE \E j \in DOMAIN chat : Has(chat[j].blocks, i)
    BY <1>16, <2>1
  <2>2. CASE \E j \in 1 .. awaited : Has(outbox[j].blocks, i)
    <3>1. PICK j \in 1 .. awaited : Has(outbox[j].blocks, i)
      BY <2>2
    <3>2. j \in DOMAIN outbox /\ (j # 1 => j - 1 \in 1 .. awaited')
      BY <1>2, <1>3, <1>4, <3>1
    <3> QED BY <1>15, <3>1, <3>2
  <2> QED BY <1>1, <1>18, <2>1, <2>2 DEF AllUnderway
<1>21. RunInv'
  <2>1. config.routed => FALSE
    BY <1>1, <1>2 DEF RunInv
  <2>2. run = "done" => awaited' = 0
    BY <1>1, <1>2 DEF RunInv
  <2> QED BY <1>1, <1>2, <1>17, <2>1, <2>2 DEF RunInv
<1> QED BY <1>12, <1>13, <1>14, <1>19, <1>20, <1>21 DEF ReplyInv

\* Every step keeps the invariant.
LEMMA ReplyStep == ReplyInv /\ [Next]_vars => ReplyInv'
<1> SUFFICES ASSUME ReplyInv, [Next]_vars PROVE ReplyInv'
  OBVIOUS
<1>1. TypingOK'
  BY TypingKept DEF ReplyInv, TypeOK
<1>2. CASE Stream \/ IdleFlush \/ EndRun
  BY <1>1, <1>2, FillStep
<1>3. CASE SendBlock
  BY <1>1, <1>3, SendStep
<1>4. CASE BlockTimesOut
  BY <1>1, <1>4, TimeOutStep
<1>5. CASE LateBlock
  BY <1>1, <1>5, LateStep
<1>6. CASE BuildReply
  BY <1>1, <1>6, BuildStep
<1>7. CASE SendFinal
  BY <1>1, <1>7, FinalStep
<1>8. CASE Deliver
  BY <1>1, <1>8, DeliverStep
<1>9. CASE EndDispatch
  <2>1. /\ run = "waiting" /\ awaited = 0 /\ run' = "done"
        /\ UNCHANGED <<pipeVars, config, streamed, late, outbox, awaited, chat, failed>>
    BY <1>9 DEF EndDispatch
  <2>2. TypeOK' /\ FrontInOrder' /\ PipeInv' /\ SentArrives'
    BY <1>1, <2>1 DEF ReplyInv, TypeOK, FrontInOrder, Front, PipeInv, SentArrives, pipeVars
  <2>3. RunInv' /\ AllUnderway'
    BY <2>1 DEF ReplyInv, RunInv, AllUnderway, pipeVars, Ending
  <2> QED BY <2>2, <2>3 DEF ReplyInv
<1>10. CASE TypingStep \/ UNCHANGED vars
  <2>1. UNCHANGED <<pipeVars, config, run, streamed, late, outbox, awaited, chat, failed>>
    BY <1>10 DEF TypingStep, vars
  <2>2. TypeOK' /\ FrontInOrder' /\ PipeInv' /\ SentArrives'
    BY <1>1, <2>1 DEF ReplyInv, TypeOK, FrontInOrder, Front, PipeInv, SentArrives, pipeVars
  <2>3. RunInv' /\ AllUnderway'
    BY <2>1 DEF ReplyInv, RunInv, AllUnderway, pipeVars
  <2> QED BY <2>2, <2>3 DEF ReplyInv
<1> QED BY <1>2, <1>3, <1>4, <1>5, <1>6, <1>7, <1>8, <1>9, <1>10 DEF Next, Work

\* The invariant holds in every reachable state.
THEOREM ReplyInductive == Spec => []ReplyInv
  BY ReplyInit, ReplyStep, PTL DEF Spec

\* The variables keep their types.
THEOREM ReplyTypes == Spec => []TypeOK
<1>1. ReplyInv => TypeOK
  BY DEF ReplyInv
<1> QED BY <1>1, ReplyInductive, PTL

\* A dispatch that is through has brought every text and medium to the chat, unless a
\* delivery failed: whatever the coalescer joined, the keys took for a repetition, a
\* time-out skipped, or the final reply replaced.
THEOREM EverythingTheorem == Spec => []EverythingArrives
<1>1. ReplyInv => EverythingArrives
  <2> SUFFICES ASSUME ReplyInv, run = "done", ~failed, NEW i \in Block
               PROVE  \E j \in DOMAIN chat : Has(chat[j].blocks, i)
    BY DEF EverythingArrives
  <2>1. awaited = 0 /\ AllUnderway
    BY DEF ReplyInv, RunInv
  <2> QED BY <2>1 DEF AllUnderway
<1> QED BY <1>1, ReplyInductive, PTL

\* Blocks reach the chat in the order of the run and once, and next to a final reply
\* only after a time-out.
THEOREM OrderTheorem == Spec => []BlocksInOrder
<1>1. ReplyInv => BlocksInOrder
  <2> SUFFICES ASSUME ReplyInv PROVE BlocksInOrder
    OBVIOUS
  <2>1. TypeOK /\ Rising(Parts(chat)) /\ RunInv
    BY DEF ReplyInv, FrontInOrder
  <2>2. HasFinal(chat) /\ HasBlock(chat) => aborted
    BY <2>1 DEF RunInv
  <2>3. ASSUME NEW j \in DOMAIN chat, NEW k \in DOMAIN chat, ~chat[j].final, ~chat[k].final,
               NEW m \in DOMAIN chat[j].blocks, NEW n \in DOMAIN chat[k].blocks,
               j < k \/ (j = k /\ m < n)
        PROVE  chat[j].blocks[m] < chat[k].blocks[n]
    <3>1. /\ DOMAIN Parts(chat) = DOMAIN chat
          /\ Parts(chat)[j] = chat[j].blocks /\ Parts(chat)[k] = chat[k].blocks
      BY <2>3 DEF Parts, Part
    <3>2. CASE j < k
      <4>1. Lt(NumsOf(chat[j].blocks), NumsOf(chat[k].blocks))
        BY <2>1, <3>1, <3>2 DEF Rising
      <4> QED BY <4>1 DEF Lt, NumsOf
    <3>3. CASE j = k /\ m < n
      <4>1. Sorted(chat[j].blocks)
        BY <2>1, <3>1 DEF Rising
      <4> QED BY <3>3, <4>1 DEF Sorted
    <3> QED BY <2>3, <3>2, <3>3
  <2> QED BY <2>2, <2>3 DEF BlocksInOrder, HasFinal, HasBlock
<1> QED BY <1>1, ReplyInductive, PTL

-----------------------------------------------------------------------------
(***************************************************************************)
(* The typing indicator.  Whoever waits for the first indicator or repeats *)
(* it has made the controller active; the flags of an active controller    *)
(* are never both up, a sealed one is not active, and a run past its reply *)
(* starts nothing.                                                         *)
(***************************************************************************)
Busy == first # {} \/ interval \/ lost > 0

TypingInv ==
  /\ Busy => typing.active \/ typing.sealed
  /\ run \in Ending => typing.runComplete \/ typing.sealed
  /\ run = "done" => ~typing.active
  /\ typing.sealed => ~typing.active

\* Nothing shows once the dispatch is through.
DoneIsSilent == run = "done" => ~Shown

\* A flag is set, and the controller sealed if the other one was.
LEMMA MarkFacts ==
  ASSUME TypingOK, NEW flag \in {"runComplete", "dispatchIdle"}, Mark(flag),
         Busy => typing.active \/ typing.sealed
  PROVE  /\ Busy' => typing'.active \/ typing'.sealed
         /\ typing'[flag] \/ typing'.sealed
         /\ typing.runComplete \/ typing.sealed => typing'.runComplete \/ typing'.sealed
         /\ typing'.active =>
              typing.active /\ ~(typing'.runComplete /\ typing'.dispatchIdle)
         /\ (typing.sealed => ~typing.active) => (typing'.sealed => ~typing'.active)
<1> DEFINE now == [typing EXCEPT ![flag] = TRUE]
<1>1. /\ now[flag] = TRUE /\ now.active = typing.active /\ now.sealed = typing.sealed
      /\ typing.runComplete => now.runComplete
  BY DEF TypingOK
<1>2. CASE now.active /\ now.runComplete /\ now.dispatchIdle
  <2>1. typing' = Sealed /\ Sealed.sealed = TRUE /\ Sealed.active = FALSE
    BY <1>2 DEF Mark, Sealed
  <2> QED BY <2>1
<1>3. CASE ~(now.active /\ now.runComplete /\ now.dispatchIdle)
  <2>1. typing' = now /\ UNCHANGED <<first, interval, lost>>
    BY <1>3 DEF Mark
  <2> HIDE DEF now
  <2> QED BY <1>1, <1>3, <2>1 DEF Busy
<1> QED BY <1>2, <1>3

\* Every step keeps the facts about the typing controller.
LEMMA TypingStepKeeps == TypeOK /\ TypingInv /\ [Next]_vars => TypingInv'
<1> SUFFICES ASSUME TypeOK, TypingInv, [Next]_vars PROVE TypingInv'
  OBVIOUS
<1> USE DEF TypingInv, Ending
<1>1. TypingOK /\ run \in {"streaming", "flushing", "replying", "waiting", "done"}
  BY DEF TypeOK
<1>2. CASE Stream
  <2>1. StartTyping(streamed + 1) /\ run = "streaming" /\ run' = run
    BY <1>2 DEF Stream
  <2>2. CASE typing.sealed
    <3>1. UNCHANGED typingVars
      BY <2>1, <2>2 DEF StartTyping
    <3> QED BY <2>1, <3>1 DEF typingVars, Busy
  <2>3. CASE ~typing.sealed /\ ~typing.runComplete /\ ~interval
    <3>1. typing'.active = TRUE /\ typing'.sealed = typing.sealed
      BY <1>1, <2>1, <2>3 DEF StartTyping, TypingOK
    <3> QED BY <2>1, <2>3, <3>1
  <2>4. CASE ~typing.sealed /\ (typing.runComplete \/ interval)
    <3>1. UNCHANGED <<typing, first, interval, lost>>
      BY <1>1, <2>1, <2>4 DEF StartTyping, TypingOK
    <3> QED BY <2>1, <3>1 DEF Busy
  <2> QED BY <2>2, <2>3, <2>4
<1>3. CASE BuildReply
  <2>1. Mark("runComplete") /\ run = "flushing" /\ run' \in {"replying", "waiting"}
    BY <1>3 DEF BuildReply, MarkRunComplete
  <2> QED BY <1>1, <2>1, MarkFacts
<1>4. CASE Deliver
  <2>1. run' = run /\ (MarkDispatchIdle \/ UNCHANGED typingVars)
    BY <1>4 DEF Deliver
  <2>2. CASE MarkDispatchIdle
    BY <1>1, <2>1, <2>2, MarkFacts DEF MarkDispatchIdle
  <2>3. CASE UNCHANGED typingVars
    BY <2>1, <2>3 DEF typingVars, Busy
  <2> QED BY <2>1, <2>2, <2>3
<1>5. CASE EndDispatch
  <2>1. Mark("dispatchIdle") /\ run = "waiting" /\ run' = "done"
    BY <1>5 DEF EndDispatch, MarkDispatchIdle
  <2>2. typing.runComplete \/ typing.sealed
    BY <2>1
  <2>3. /\ Busy' => typing'.active \/ typing'.sealed
        /\ typing'.dispatchIdle \/ typing'.sealed
        /\ typing'.runComplete \/ typing'.sealed
    BY <1>1, <2>1, <2>2, MarkFacts
  <2>4. /\ typing'.active => typing.active /\ ~(typing'.runComplete /\ typing'.dispatchIdle)
        /\ typing'.sealed => ~typing'.active
    BY <1>1, <2>1, MarkFacts
  <2> QED BY <2>1, <2>3, <2>4
<1>6. CASE SendBlock \/ BlockTimesOut \/ EndRun \/ SendFinal \/ IdleFlush \/ LateBlock
  <2>1. UNCHANGED typingVars
    BY <1>6 DEF SendBlock, BlockTimesOut, EndRun, SendFinal, IdleFlush, LateBlock
  <2>2. \/ run' = run
        \/ run = "streaming" /\ run' = "flushing"
        \/ run = "replying" /\ run' = "waiting"
    BY <1>6 DEF SendBlock, BlockTimesOut, EndRun, SendFinal, IdleFlush, LateBlock
  <2> QED BY <2>1, <2>2 DEF typingVars, Busy
<1>7. ASSUME NEW k \in Caller, IntervalSet(k), run' = run PROVE TypingInv'
  BY <1>7 DEF IntervalSet, Busy
<1>8. CASE TtlFires /\ run' = run
  <2>1. CASE interval
    <3>1. typing' = Sealed /\ Sealed.sealed = TRUE /\ Sealed.active = FALSE
      BY <1>8, <2>1 DEF TtlFires, Sealed
    <3> QED BY <1>8, <3>1
  <2>2. CASE ~interval
    BY <1>8, <2>2 DEF TtlFires, Busy
  <2> QED BY <2>1, <2>2
<1>9. CASE TypingStep
  BY <1>7, <1>8, <1>9 DEF TypingStep
<1>10. CASE UNCHANGED vars
  BY <1>10 DEF vars, typingVars, Busy
<1> QED BY <1>2, <1>3, <1>4, <1>5, <1>6, <1>9, <1>10 DEF Next, Work

\* When the dispatch is through, no indicator is sent, although callers that waited for
\* the first one may still set their interval.
THEOREM SilentTheorem == Spec => []DoneIsSilent
<1>1. Init => TypingInv
  BY DEF Init, TypingInit, TypingInv, Busy, Ending
<1>2. TypeOK /\ TypingInv /\ [Next]_vars => TypingInv'
  BY TypingStepKeeps
<1>3. TypingInv => DoneIsSilent
  BY DEF TypingInv, DoneIsSilent, Shown, Busy
<1> QED BY <1>1, <1>2, <1>3, ReplyTypes, PTL DEF Spec
=============================================================================
