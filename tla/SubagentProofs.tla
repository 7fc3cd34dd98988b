--------------------------- MODULE SubagentProofs ---------------------------
(***************************************************************************)
(* Proofs about SubagentRegistry and its AnnounceQueue.                    *)
(***************************************************************************)
EXTENDS SubagentRegistry, SequenceTheorems, FiniteSetTheorems, TLAPS

USE RouteAssumption, SettingsAssumption, TrackedAssumption, LimitAssumption

Queue == [items : Seq(Run), mode : {"collect", "followup", "steer"},
          drop : {"summarize", "old", "new"}, cap : Nat \ {0}, dropped : Nat, lines : Seq(Run)]

\* QueueTypeOK, and that the queue is a record.
QueueTypes == QueueTypeOK /\ queue \in Queue

Distinct(s) == \A i, j \in 1 .. Len(s) : s[i] = s[j] => i = j

Fated(f) == {r \in Run : fate[r] = f}

\* An announcement marked as queued is in the queue or in the message that is
\* being sent, and there once.
Placed ==
  /\ Distinct(queue.items) /\ Distinct(batch.items)
  /\ Elements(queue.items) \cap Elements(batch.items) = {}
  /\ Elements(queue.items) \cup Elements(batch.items) = Fated("queued")

\* The pending summary and the departing one speak of what was dropped for them.
Accounted ==
  /\ Elements(batch.summary) \subseteq Fated("summarized")
  /\ IsFiniteSet(Summarized) /\ Cardinality(Summarized) = queue.dropped
  /\ Elements(queue.lines) \subseteq Summarized

Driven ==
  /\ Busy(queue) => pc # "idle"
  /\ batch # NoBatch => pc = "sending"

QueueInv == QueueTypes /\ Placed /\ Accounted /\ Driven

-----------------------------------------------------------------------------
(***************************************************************************)
(* Sequences of runs.                                                      *)
(***************************************************************************)
\* The empty sequence.
LEMMA NoElements == /\ <<>> \in Seq(Run) /\ Elements(<<>>) = {} /\ Distinct(<<>>)
                    /\ \A s \in Seq(Run) : Elements(s) = {} <=> s = <<>>
<1>1. <<>> \in Seq(Run) /\ Elements(<<>>) = {} /\ Distinct(<<>>)
  BY DEF Elements, Distinct
<1>2. ASSUME NEW s \in Seq(Run), s # <<>> PROVE Elements(s) # {}
  <2>1. 1 \in 1 .. Len(s)
    BY <1>2
  <2>2. s[1] \in Elements(s)
    BY <2>1 DEF Elements
  <2> QED
    BY <2>2
<1> QED
  BY <1>1, <1>2

\* A run more at the end.
LEMMA Appended ==
  ASSUME NEW s \in Seq(Run), NEW r \in Run
  PROVE  /\ Append(s, r) \in Seq(Run)
         /\ Elements(Append(s, r)) = Elements(s) \cup {r}
         /\ Distinct(s) /\ r \notin Elements(s) => Distinct(Append(s, r))
<1>1. /\ Append(s, r) \in Seq(Run) /\ Len(Append(s, r)) = Len(s) + 1 /\ Len(s) \in Nat
      /\ \A i \in 1 .. Len(s) : Append(s, r)[i] = s[i]
      /\ Append(s, r)[Len(s) + 1] = r
  OBVIOUS
<1> DEFINE t == Append(s, r)
<1> HIDE DEF t
<1>2. Elements(t) = Elements(s) \cup {r}
  BY <1>1 DEF Elements, t
<1>3. Distinct(s) /\ r \notin Elements(s) => Distinct(t)
  BY <1>1 DEF Elements, Distinct, t
<1> QED
  BY <1>1, <1>2, <1>3 DEF t

\* A sequence cut in two after its first n elements.
LEMMA CutInTwo ==
  ASSUME NEW s \in Seq(Run), NEW n \in 0 .. Len(s)
  PROVE  LET t == SubSeq(s, 1, n)
             u == SubSeq(s, n + 1, Len(s))
         IN /\ t \in Seq(Run) /\ u \in Seq(Run)
            /\ Len(t) = n /\ Len(u) = Len(s) - n
            /\ Elements(s) = Elements(t) \cup Elements(u)
            /\ Distinct(s) => /\ Elements(t) \cap Elements(u) = {}
                              /\ Distinct(t) /\ Distinct(u)
<1> DEFINE t == SubSeq(s, 1, n)
           u == SubSeq(s, n + 1, Len(s))
<1>1. /\ t \in Seq(Run) /\ Len(t) = n /\ \A i \in 1 .. n : t[i] = s[i]
      /\ u \in Seq(Run) /\ Len(u) = Len(s) - n /\ \A i \in 1 .. Len(s) - n : u[i] = s[n + i]
  OBVIOUS
<1> HIDE DEF t, u
<1>2. n \in Nat /\ Len(s) \in Nat /\ n <= Len(s)
  OBVIOUS
<1>3. /\ \A i \in 1 .. n : i \in 1 .. Len(s)
      /\ \A i \in 1 .. Len(s) - n : n + i \in 1 .. Len(s) /\ n + i > n
  BY <1>2
<1>4. ASSUME NEW i \in 1 .. n PROVE t[i] \in Elements(s)
  BY <1>1, <1>3 DEF Elements
<1>5. ASSUME NEW i \in 1 .. Len(s) - n PROVE u[i] \in Elements(s)
  <2>1. u[i] = s[n + i] /\ n + i \in 1 .. Len(s)
    BY <1>1, <1>3
  <2> QED
    BY <2>1 DEF Elements
<1>9. Elements(t) \subseteq Elements(s) /\ Elements(u) \subseteq Elements(s)
  BY <1>1, <1>4, <1>5 DEF Elements
<1>6. ASSUME NEW r \in Elements(s) PROVE r \in Elements(t) \cup Elements(u)
  <2>1. PICK i \in 1 .. Len(s) : r = s[i]
    BY DEF Elements
  <2>2. CASE i <= n
    <3>1. i \in 1 .. n
      BY <1>2, <2>2
    <3> QED
      BY <1>1, <2>1, <3>1 DEF Elements
  <2>3. CASE i > n
    <3>1. i - n \in 1 .. Len(s) - n /\ s[n + (i - n)] = s[i]
      BY <1>2, <2>3
    <3>2. u[i - n] = r /\ i - n \in 1 .. Len(u)
      BY <1>1, <2>1, <3>1
    <3> QED
      BY <3>2 DEF Elements
  <2> QED
    BY <1>2, <2>2, <2>3
<1>7. ASSUME Distinct(s) PROVE Distinct(t) /\ Distinct(u)
  <2>1. Distinct(t)
    BY <1>1, <1>3, <1>7 DEF Distinct
  <2>2. ASSUME NEW i \in 1 .. Len(s) - n, NEW j \in 1 .. Len(s) - n, u[i] = u[j] PROVE i = j
    <3>1. s[n + i] = s[n + j] /\ n + i \in 1 .. Len(s) /\ n + j \in 1 .. Len(s)
      BY <1>1, <1>3, <2>2
    <3>2. n + i = n + j
      BY <1>7, <3>1 DEF Distinct
    <3> QED
      BY <1>2, <3>2
  <2> QED
    BY <1>1, <2>1, <2>2 DEF Distinct
<1>8. ASSUME Distinct(s), NEW r \in Elements(t), r \in Elements(u) PROVE FALSE
  <2>1. PICK i \in 1 .. n : r = s[i]
    BY <1>1 DEF Elements
  <2>2. PICK j \in 1 .. Len(s) - n : r = s[n + j]
    <3>1. PICK j \in 1 .. Len(s) - n : r = u[j]
      BY <1>1, <1>8 DEF Elements
    <3> QED
      BY <1>1, <3>1
  <2>3. i = n + j
    BY <1>3, <1>8, <2>1, <2>2 DEF Distinct
  <2> QED
    BY <1>2, <2>3
<1> QED
  BY <1>1, <1>6, <1>7, <1>8, <1>9 DEF t, u

\* What LastN leaves of two sequences one after the other comes from them.
LEMMA LastOfBoth ==
  ASSUME NEW s \in Seq(Run), NEW t \in Seq(Run), NEW n \in Nat
  PROVE  /\ LastN(s \o t, n) \in Seq(Run)
         /\ Elements(LastN(s \o t, n)) \subseteq Elements(s) \cup Elements(t)
<1> DEFINE b == s \o t
<1>1. /\ b \in Seq(Run) /\ Len(b) = Len(s) + Len(t) /\ Len(s) \in Nat /\ Len(t) \in Nat
      /\ \A i \in 1 .. Len(b) : b[i] = IF i <= Len(s) THEN s[i] ELSE t[i - Len(s)]
  OBVIOUS
<1> HIDE DEF b
<1>2. ASSUME NEW i \in 1 .. Len(b) PROVE b[i] \in Elements(s) \cup Elements(t)
  <2>1. CASE i <= Len(s)
    BY <1>1, <2>1 DEF Elements
  <2>2. CASE ~(i <= Len(s))
    <3>1. i - Len(s) \in 1 .. Len(t) /\ b[i] = t[i - Len(s)]
      BY <1>1, <2>2
    <3> QED
      BY <3>1 DEF Elements
  <2> QED
    BY <2>1, <2>2
<1>3. Elements(b) \subseteq Elements(s) \cup Elements(t)
  BY <1>2 DEF Elements
<1>4. CASE Len(b) <= n
  BY <1>1, <1>3, <1>4 DEF LastN, b
<1>5. CASE ~(Len(b) <= n)
  <2>1. Len(b) - n \in 0 .. Len(b)
    BY <1>1, <1>5
  <2>2. LastN(b, n) = SubSeq(b, (Len(b) - n) + 1, Len(b))
    BY <1>5 DEF LastN
  <2>3. PICK k \in 0 .. Len(b) : k = Len(b) - n
    BY <2>1
  <2>4. LastN(b, n) = SubSeq(b, k + 1, Len(b))
    BY <2>2, <2>3
  <2>5. /\ SubSeq(b, k + 1, Len(b)) \in Seq(Run)
        /\ Elements(b) = Elements(SubSeq(b, 1, k)) \cup Elements(SubSeq(b, k + 1, Len(b)))
    BY <1>1, CutInTwo
  <2> QED
    BY <1>3, <2>4, <2>5 DEF b
<1> QED
  BY <1>4, <1>5

\* A sequence without repetition has as many elements as its length.
LEMMA DistinctSize ==
  ASSUME NEW s \in Seq(Run), Distinct(s)
  PROVE  IsFiniteSet(Elements(s)) /\ Cardinality(Elements(s)) = Len(s)
<1> DEFINE f == [i \in 1 .. Len(s) |-> s[i]]
<1>1. IsFiniteSet(1 .. Len(s)) /\ Cardinality(1 .. Len(s)) = Len(s)
  <2>1. Len(s) \in Nat
    OBVIOUS
  <2>2. \A n \in Nat : IsFiniteSet(1 .. n) /\ Cardinality(1 .. n) = IF 1 > n THEN 0 ELSE n - 1 + 1
    <3> SUFFICES ASSUME NEW n \in Nat
                 PROVE  IsFiniteSet(1 .. n) /\ Cardinality(1 .. n) = IF 1 > n THEN 0 ELSE n - 1 + 1
      OBVIOUS
    <3>1. 1 \in Int /\ n \in Int
      OBVIOUS
    <3> QED
      BY ONLY <3>1, FS_Interval
  <2> HIDE DEF f
  <2>3. \A n \in Nat : n = IF 1 > n THEN 0 ELSE n - 1 + 1
    OBVIOUS
  <2> QED
    BY <2>1, <2>2, <2>3
<1>2. f \in Bijection(1 .. Len(s), Elements(s))
  BY DEF Elements, Distinct, Bijection, Injection, Surjection, IsInjective
<1> QED
  BY <1>1, <1>2, FS_Bijection DEF ExistsBijection

\* A run that is in a sequence without repetition is at one place.
LEMMA PlacesCounted ==
  ASSUME NEW s \in Seq(Run), Distinct(s), NEW r
  PROVE  Cardinality({i \in 1 .. Len(s) : s[i] = r}) = IF r \in Elements(s) THEN 1 ELSE 0
<1>1. CASE r \in Elements(s)
  <2>1. PICK i \in 1 .. Len(s) : r = s[i]
    BY <1>1 DEF Elements
  <2>2. {j \in 1 .. Len(s) : s[j] = r} = {i}
    BY <2>1 DEF Distinct
  <2> QED
    BY <1>1, <2>2, FS_Singleton
<1>2. CASE r \notin Elements(s)
  <2>1. {j \in 1 .. Len(s) : s[j] = r} = {}
    BY <1>2 DEF Elements
  <2> QED
    BY <1>2, <2>1, FS_EmptySet
<1> QED
  BY <1>1, <1>2

-----------------------------------------------------------------------------
(***************************************************************************)
(* What the queue's operations do.                                         *)
(***************************************************************************)
\* A new queue is empty and has settings.
LEMMA FreshQueue ==
  /\ EmptyQueue \in Queue
  /\ EmptyQueue.items = <<>> /\ EmptyQueue.dropped = 0 /\ EmptyQueue.lines = <<>>
  /\ [mode |-> EmptyQueue.mode, drop |-> EmptyQueue.drop, cap |-> EmptyQueue.cap] \in Settings
<1> DEFINE s == CHOOSE s \in Settings : TRUE
<1>1. s \in Settings
  OBVIOUS
<1>2. EmptyQueue = [items |-> <<>>, mode |-> s.mode, drop |-> s.drop, cap |-> s.cap,
                    dropped |-> 0, lines |-> <<>>]
  BY DEF EmptyQueue
<1>3. s \in [mode : {"collect", "followup", "steer"},
             drop : {"summarize", "old", "new"}, cap : Nat \ {0}]
  BY <1>1
<1> HIDE DEF s
<1>4. s = [mode |-> s.mode, drop |-> s.drop, cap |-> s.cap]
  BY <1>3
<1> QED
  BY <1>1, <1>2, <1>3, <1>4, NoElements DEF Queue

\* The items of the queue q that stay when a message is pushed.
Left(q) == SubSeq(q.items, DropCount(q) + 1, Len(q.items))

\* A full queue is cut after the announcements that make room.
LEMMA RoomMade ==
  ASSUME NEW q \in Queue
  PROVE  /\ Left(q) \in Seq(Run) /\ Evicted(q) \in Seq(Run)
         /\ DropCount(q) \in Nat /\ Len(Evicted(q)) = DropCount(q)
         /\ Elements(q.items) = Elements(Evicted(q)) \cup Elements(Left(q))
         /\ Distinct(q.items) => /\ Elements(Evicted(q)) \cap Elements(Left(q)) = {}
                                 /\ Distinct(Evicted(q)) /\ Distinct(Left(q))
<1>1. q.items \in Seq(Run) /\ q.cap \in Nat \ {0} /\ Len(q.items) \in Nat
  BY DEF Queue
<1>2. DropCount(q) \in 0 .. Len(q.items) /\ DropCount(q) \in Nat
  BY <1>1 DEF DropCount
<1> HIDE DEF DropCount
<1> QED
  BY <1>1, <1>2, CutInTwo DEF Left, Evicted

\* The queue an announcement is pushed into.
LEMMA PushedQueue ==
  ASSUME NEW q \in Queue, NEW r \in Run
  PROVE  /\ Pushed(q, r) \in Queue
         /\ Pushed(q, r).items = Append(Left(q), r)
         /\ Pushed(q, r).mode = q.mode /\ Pushed(q, r).drop = q.drop /\ Pushed(q, r).cap = q.cap
         /\ q.drop = "summarize" =>
              /\ Pushed(q, r).dropped = q.dropped + DropCount(q)
              /\ Elements(Pushed(q, r).lines) \subseteq Elements(q.lines) \cup Elements(Evicted(q))
         /\ q.drop # "summarize" => Pushed(q, r).dropped = q.dropped /\ Pushed(q, r).lines = q.lines
<1>1. /\ Left(q) \in Seq(Run) /\ Evicted(q) \in Seq(Run) /\ DropCount(q) \in Nat
  BY RoomMade
<1>2. q.lines \in Seq(Run) /\ q.cap \in Nat \ {0} /\ q.cap \in Nat /\ q.dropped \in Nat
  BY DEF Queue
<1>3. Append(Left(q), r) \in Seq(Run)
  BY <1>1, Appended
<1> DEFINE kept == LastN(q.lines \o Evicted(q), q.cap)
<1>4. kept \in Seq(Run) /\ Elements(kept) \subseteq Elements(q.lines) \cup Elements(Evicted(q))
  BY <1>1, <1>2, LastOfBoth
<1> HIDE DEF kept
<1>5. Pushed(q, r) =
        IF q.drop # "summarize" THEN [q EXCEPT !.items = Append(Left(q), r)]
        ELSE [q EXCEPT !.items = Append(Left(q), r), !.dropped = @ + DropCount(q), !.lines = kept]
  BY DEF Pushed, Left, Queue, kept
<1>6. q.dropped + DropCount(q) \in Nat
  BY <1>1, <1>2
<1> HIDE DEF Left, Evicted, DropCount, LastN
<1>7. CASE q.drop = "summarize"
  BY <1>3, <1>4, <1>5, <1>6, <1>7 DEF Queue
<1>8. CASE q.drop # "summarize"
  BY <1>3, <1>5, <1>8 DEF Queue
<1> QED
  BY <1>7, <1>8

\* Two finite sets with nothing in common.
LEMMA SizesAdd ==
  ASSUME NEW S, NEW T, IsFiniteSet(S), IsFiniteSet(T), S \cap T = {}
  PROVE  IsFiniteSet(S \cup T) /\ Cardinality(S \cup T) = Cardinality(S) + Cardinality(T)
<1>1. /\ IsFiniteSet(S \cup T)
      /\ Cardinality(S \cup T) = Cardinality(S) + Cardinality(T) - Cardinality(S \cap T)
  BY FS_Union
<1>2. Cardinality(S) \in Nat /\ Cardinality(T) \in Nat /\ Cardinality(S \cap T) = 0
  BY FS_CardinalityType, FS_EmptySet
<1> QED
  BY <1>1, <1>2

\* An announcement that waits in the queue, or for its next summary.
InQueue(r) == fate[r] \in {"queued", "summarized"}

\* What has been announced stays so, what has left the queue does not return to it,
\* and nothing is refused afterwards.
FatesGoOn(r) ==
  /\ fate'[r] = "none" <=> fate[r] = "none"
  /\ fate'[r] \in {"queued", "summarized"} => fate[r] \in {"queued", "summarized"}
  /\ fate'[r] = "refused" => fate[r] = "refused"

\* An accepted announcement pushes the oldest out, a refused one changes nothing.
LEMMA EnqueueEffect ==
  ASSUME QueueTypes, NEW r \in Run, NEW s \in Settings, EnqueueAnnounce(r, s)
  PROVE  /\ QueueTypes' /\ batch' = batch /\ heard' = heard
         /\ pc' = IF pc = "idle" THEN "debounce" ELSE pc
         /\ \/ /\ fate' = [fate EXCEPT ![r] = "refused"] /\ s.drop = "new"
               /\ queue'.items = queue.items
               /\ queue'.dropped = queue.dropped /\ queue'.lines = queue.lines
            \/ \E q \in Queue :
                 /\ q.items = queue.items /\ q.lines = queue.lines /\ q.dropped = queue.dropped
                 /\ queue'.items = Append(Left(q), r)
                 /\ \/ /\ queue'.dropped = q.dropped + DropCount(q)
                       /\ Elements(queue'.lines) \subseteq Elements(q.lines) \cup Elements(Evicted(q))
                       /\ fate' = [Mark(Elements(Evicted(q)), "summarized") EXCEPT ![r] = "queued"]
                    \/ /\ queue'.dropped = q.dropped /\ queue'.lines = q.lines
                       /\ fate' = [Mark(Elements(Evicted(q)), "dropped") EXCEPT ![r] = "queued"]
<1> DEFINE q == [queue EXCEPT !.mode = s.mode, !.drop = s.drop, !.cap = s.cap]
<1>1. s \in [mode : {"collect", "followup", "steer"},
             drop : {"summarize", "old", "new"}, cap : Nat \ {0}]
  OBVIOUS
<1>2. /\ q \in Queue /\ q.items = queue.items /\ q.lines = queue.lines /\ q.dropped = queue.dropped
      /\ q.mode = s.mode /\ q.drop = s.drop /\ q.cap = s.cap
  BY <1>1 DEF QueueTypes, Queue
<1>3. [mode |-> s.mode, drop |-> s.drop, cap |-> s.cap] \in Settings
  <2>1. s = [mode |-> s.mode, drop |-> s.drop, cap |-> s.cap]
    BY <1>1
  <2> QED
    BY <2>1
<1>4. /\ \/ /\ queue' = Pushed(q, r)
            /\ fate' = [Mark(Elements(Evicted(q)),
                             IF q.drop = "summarize" THEN "summarized" ELSE "dropped")
                        EXCEPT ![r] = "queued"]
         \/ queue' = q /\ fate' = Mark({r}, "refused") /\ q.drop = "new"
      /\ pc' = (IF pc = "idle" THEN "debounce" ELSE pc)
      /\ UNCHANGED <<forced, batch, heard>>
  BY DEF EnqueueAnnounce
<1> HIDE DEF q
<1>5. CASE queue' = q /\ fate' = Mark({r}, "refused") /\ q.drop = "new"
  <2>1. fate' = [fate EXCEPT ![r] = "refused"] /\ fate' \in [Run -> Fate]
    BY <1>5 DEF Mark, QueueTypes, QueueTypeOK, Fate
  <2>2. QueueTypes'
    BY <1>2, <1>3, <1>4, <1>5, <2>1 DEF QueueTypes, QueueTypeOK, Queue
  <2> QED
    BY <1>2, <1>4, <1>5, <2>1, <2>2
<1>6. ASSUME queue' = Pushed(q, r), NEW f \in {"summarized", "dropped"},
             fate' = [Mark(Elements(Evicted(q)), f) EXCEPT ![r] = "queued"]
      PROVE  QueueTypes'
  <2>1. fate' \in [Run -> Fate]
    BY <1>6 DEF Mark, QueueTypes, QueueTypeOK, Fate
  <2>2. Pushed(q, r) \in Queue /\ Pushed(q, r).mode = s.mode /\ Pushed(q, r).drop = s.drop
        /\ Pushed(q, r).cap = s.cap
    BY <1>2, PushedQueue
  <2> QED
    BY <1>3, <1>4, <1>6, <2>1, <2>2 DEF QueueTypes, QueueTypeOK, Queue
<1>7. CASE /\ queue' = Pushed(q, r) /\ q.drop = "summarize"
           /\ fate' = [Mark(Elements(Evicted(q)), "summarized") EXCEPT ![r] = "queued"]
  <2>1. /\ queue'.items = Append(Left(q), r)
        /\ queue'.dropped = q.dropped + DropCount(q)
        /\ Elements(queue'.lines) \subseteq Elements(q.lines) \cup Elements(Evicted(q))
    BY <1>2, <1>7, PushedQueue
  <2> QED
    BY <1>2, <1>4, <1>6, <1>7, <2>1
<1>8. CASE /\ queue' = Pushed(q, r) /\ q.drop # "summarize"
           /\ fate' = [Mark(Elements(Evicted(q)), "dropped") EXCEPT ![r] = "queued"]
  <2>1. /\ queue'.items = Append(Left(q), r)
        /\ queue'.dropped = q.dropped /\ queue'.lines = q.lines
    BY <1>2, <1>8, PushedQueue
  <2> QED
    BY <1>2, <1>4, <1>6, <1>8, <2>1
<1> QED
  BY <1>4, <1>5, <1>7, <1>8

\* An announcement that is not in the queue yet keeps the queue's invariant.
LEMMA EnqueueKeeps ==
  ASSUME QueueInv, NEW r \in Run, ~InQueue(r), NEW s \in Settings, EnqueueAnnounce(r, s)
  PROVE  QueueInv' /\ fate'[r] # "none" /\ \A k \in Run \ {r} : FatesGoOn(k)
<1>1. QueueTypes'
  BY EnqueueEffect DEF QueueInv
<1>2. batch' = batch /\ Driven'
  BY EnqueueEffect DEF QueueInv, Driven
<1>3. CASE /\ fate' = [fate EXCEPT ![r] = "refused"]
           /\ queue'.items = queue.items
           /\ queue'.dropped = queue.dropped /\ queue'.lines = queue.lines
  <2>1. Fated("queued")' = Fated("queued") /\ Fated("summarized")' = Fated("summarized")
    BY <1>3 DEF QueueInv, QueueTypes, QueueTypeOK, Fated, InQueue
  <2>2. Summarized' = Summarized
    BY <1>2, <2>1 DEF Summarized, Fated
  <2>3. fate'[r] # "none" /\ \A k \in Run \ {r} : FatesGoOn(k)
    BY <1>3 DEF QueueInv, QueueTypes, QueueTypeOK, FatesGoOn
  <2> QED
    BY <1>1, <1>2, <1>3, <2>1, <2>2, <2>3 DEF QueueInv, Placed, Accounted
<1>4. ASSUME NEW q \in Queue, NEW f \in {"summarized", "dropped"},
             q.items = queue.items, q.lines = queue.lines, q.dropped = queue.dropped,
             queue'.items = Append(Left(q), r),
             IF f = "summarized"
               THEN /\ queue'.dropped = q.dropped + DropCount(q)
                    /\ Elements(queue'.lines) \subseteq Elements(q.lines) \cup Elements(Evicted(q))
               ELSE queue'.dropped = q.dropped /\ queue'.lines = q.lines,
             fate' = [Mark(Elements(Evicted(q)), f) EXCEPT ![r] = "queued"]
      PROVE  Placed' /\ Accounted' /\ fate'[r] # "none" /\ \A k \in Run \ {r} : FatesGoOn(k)
  <2> DEFINE gone == Evicted(q)
             left == Left(q)
  <2>1. /\ left \in Seq(Run) /\ gone \in Seq(Run) /\ Len(gone) = DropCount(q) /\ DropCount(q) \in Nat
        /\ Elements(queue.items) = Elements(gone) \cup Elements(left)
        /\ Elements(gone) \cap Elements(left) = {} /\ Distinct(gone) /\ Distinct(left)
    BY <1>4, RoomMade DEF QueueInv, Placed
  <2> HIDE DEF gone, left
  <2>2. \A k \in Run : fate'[k] = IF k = r THEN "queued" ELSE IF k \in Elements(gone) THEN f ELSE fate[k]
    BY <1>4 DEF Mark, gone
  <2>3. /\ Elements(gone) \subseteq Fated("queued") /\ Elements(left) \subseteq Fated("queued")
        /\ r \notin Fated("queued") /\ r \notin Fated("summarized")
    BY <2>1 DEF QueueInv, Placed, Fated, InQueue
  <2>4. Fated("queued")' = (Fated("queued") \ Elements(gone)) \cup {r}
    BY <2>2 DEF Fated
  <2>5. /\ Elements(queue'.items) = Elements(left) \cup {r}
        /\ Distinct(queue'.items)
    BY <1>4, <2>1, <2>3, Appended DEF left
  <2>6. Placed'
    BY <1>2, <2>1, <2>3, <2>4, <2>5 DEF QueueInv, Placed
  <2>7. ASSUME f = "summarized" PROVE Accounted'
    <3>1. Fated("summarized")' = Fated("summarized") \cup Elements(gone)
      BY <2>2, <2>3, <2>7 DEF Fated
    <3>2. Elements(gone) \cap Elements(batch.summary) = {}
      BY <2>3 DEF QueueInv, Accounted, Fated
    <3>3. Summarized' = Summarized \cup Elements(gone) /\ Summarized \cap Elements(gone) = {}
      BY <1>2, <2>3, <3>1, <3>2 DEF Summarized, Fated
    <3>4. IsFiniteSet(Elements(gone)) /\ Cardinality(Elements(gone)) = DropCount(q)
      BY <2>1, DistinctSize
    <3>5. IsFiniteSet(Summarized') /\ Cardinality(Summarized') = Cardinality(Summarized) + DropCount(q)
      BY <3>3, <3>4, SizesAdd DEF QueueInv, Accounted
    <3>6. Cardinality(Summarized') = queue'.dropped
      BY <1>4, <2>7, <3>5 DEF QueueInv, Accounted
    <3>7. Elements(queue'.lines) \subseteq Summarized'
      BY <1>4, <2>7, <3>3 DEF QueueInv, Accounted, gone
    <3>8. Elements(batch'.summary) \subseteq Fated("summarized")'
      BY <1>2, <3>1 DEF QueueInv, Accounted
    <3> QED
      BY ONLY <3>5, <3>6, <3>7, <3>8 DEF Accounted
  <2>8. ASSUME f = "dropped" PROVE Accounted'
    <3>1. Fated("summarized")' = Fated("summarized")
      BY <2>2, <2>3, <2>8 DEF Fated
    <3>2. Summarized' = Summarized
      BY <1>2, <3>1 DEF Summarized, Fated
    <3>3. Elements(batch'.summary) \subseteq Fated("summarized")'
      BY <1>2, <3>1 DEF QueueInv, Accounted
    <3>4. queue'.dropped = queue.dropped /\ queue'.lines = queue.lines
      BY <1>4, <2>8
    <3> QED
      BY <3>2, <3>3, <3>4 DEF QueueInv, Accounted
  <2>9. fate'[r] # "none" /\ \A k \in Run \ {r} : FatesGoOn(k)
    BY <2>2, <2>3 DEF Fated, FatesGoOn
  <2> QED
    BY <2>6, <2>7, <2>8, <2>9
<1> QED
  BY <1>1, <1>2, <1>3, <1>4, EnqueueEffect DEF QueueInv

-----------------------------------------------------------------------------
(***************************************************************************)
(* The drain keeps the queue's invariant.                                  *)
(***************************************************************************)
\* While nothing is being sent, every queued announcement waits in the queue and
\* every dropped one for a summary.
LEMMA NothingUnderWay ==
  ASSUME QueueInv, pc # "sending"
  PROVE  /\ batch = NoBatch
         /\ Elements(batch.items) = {} /\ Elements(batch.summary) = {}
         /\ Elements(queue.items) = Fated("queued")
         /\ Summarized = Fated("summarized")
<1>1. batch = NoBatch
  BY DEF QueueInv, Driven
<1>2. batch.items = <<>> /\ batch.summary = <<>>
  BY <1>1 DEF NoBatch
<1>3. Elements(batch.items) = {} /\ Elements(batch.summary) = {}
  BY <1>2, NoElements
<1> QED
  BY <1>1, <1>3 DEF QueueInv, Placed, Summarized, Fated

\* What is sent leaves the queue for the batch; a summary that is sent takes all
\* that was dropped along.
LEMMA SendKeeps ==
  ASSUME QueueInv, pc = "debounce", forced' \in BOOLEAN,
         NEW n \in 0 .. Len(queue.items), NEW summary \in {<<>>, queue.lines},
         NEW text \in BOOLEAN, Send(n, summary, text)
  PROVE  QueueInv' /\ heard' = heard /\ \A k \in Run : FatesGoOn(k)
<1> DEFINE t == SubSeq(queue.items, 1, n)
           u == SubSeq(queue.items, n + 1, Len(queue.items))
<1>1. /\ pc' = "sending" /\ heard' = heard
      /\ batch' = [items |-> t, summary |-> summary, text |-> text]
      /\ queue' = [(IF summary = <<>> THEN queue ELSE Reset(queue)) EXCEPT !.items = u]
      /\ fate' = IF summary = <<>> THEN fate ELSE Mark(Summarized \ Elements(summary), "unreported")
  BY DEF Send
<1>2. queue \in Queue /\ queue.items \in Seq(Run) /\ queue.lines \in Seq(Run)
  BY DEF QueueInv, QueueTypes, Queue
<1>3. /\ t \in Seq(Run) /\ u \in Seq(Run)
      /\ Elements(queue.items) = Elements(t) \cup Elements(u)
      /\ Elements(t) \cap Elements(u) = {} /\ Distinct(t) /\ Distinct(u)
  BY <1>2, CutInTwo DEF QueueInv, Placed
<1> HIDE DEF t, u
<1>4. summary \in Seq(Run) /\ Elements(summary) \subseteq Summarized
  BY <1>2, NoElements DEF QueueInv, Accounted
<1>5. /\ queue' \in Queue /\ queue'.items = u
      /\ queue'.mode = queue.mode /\ queue'.drop = queue.drop /\ queue'.cap = queue.cap
      /\ IF summary = <<>> THEN queue'.dropped = queue.dropped /\ queue'.lines = queue.lines
                           ELSE queue'.dropped = 0 /\ queue'.lines = <<>>
  BY <1>1, <1>2, <1>3, NoElements DEF Queue, Reset
<1>6. \A k \in Run : fate'[k] = IF summary # <<>> /\ k \in Summarized \ Elements(summary)
                                  THEN "unreported" ELSE fate[k]
  BY <1>1 DEF Mark
<1>7. fate' \in [Run -> Fate]
  BY <1>1 DEF Mark, QueueInv, QueueTypes, QueueTypeOK, Fate
<1>8. QueueTypes'
  BY <1>1, <1>2, <1>3, <1>4, <1>5, <1>7 DEF QueueInv, QueueTypes, QueueTypeOK, Queue
<1>9. Summarized = Fated("summarized") /\ Elements(queue.items) = Fated("queued")
  BY NothingUnderWay
<1>10. Fated("queued")' = Fated("queued")
  BY <1>6, <1>9 DEF Fated
<1>11. Placed'
  BY <1>1, <1>3, <1>5, <1>9, <1>10 DEF Placed
<1>12. Accounted'
  <2>1. CASE summary = <<>>
    <3>1. Fated("summarized")' = Fated("summarized")
      BY <1>6, <2>1 DEF Fated
    <3>2. Elements(batch'.summary) = {}
      BY <1>1, <2>1, NoElements
    <3>3. Summarized' = Summarized
      BY <1>9, <3>1, <3>2 DEF Summarized, Fated
    <3> QED
      BY <1>5, <2>1, <3>2, <3>3 DEF QueueInv, Accounted
  <2>2. CASE summary # <<>>
    <3>1. Fated("summarized")' = Elements(summary)
      BY <1>4, <1>6, <1>9, <2>2 DEF Fated
    <3>2. Elements(batch'.summary) = Elements(summary)
      BY <1>1
    <3>3. Summarized' = {}
      BY <3>1, <3>2 DEF Summarized, Fated
    <3>4. Elements(queue'.lines) = {} /\ queue'.dropped = 0
      BY <1>5, <2>2, NoElements
    <3> QED
      BY <3>1, <3>2, <3>3, <3>4, FS_EmptySet DEF Accounted
  <2> QED
    BY <2>1, <2>2
<1>13. Driven'
  BY <1>1 DEF Driven
<1>14. \A k \in Run : FatesGoOn(k)
  BY <1>6, <1>9 DEF FatesGoOn, Fated
<1> QED
  BY <1>1, <1>8, <1>11, <1>12, <1>13, <1>14 DEF QueueInv

\* The end of a drain leaves a queue with the same work, or a new one for none.
LEMMA EndKeeps ==
  ASSUME NEW q \in Queue, EndDrain(q),
         [mode |-> q.mode, drop |-> q.drop, cap |-> q.cap] \in Settings
  PROVE  /\ queue' \in Queue
         /\ [mode |-> queue'.mode, drop |-> queue'.drop, cap |-> queue'.cap] \in Settings
         /\ queue'.items = q.items /\ queue'.dropped = q.dropped
         /\ Elements(queue'.lines) \subseteq Elements(q.lines)
         /\ pc' \in {"idle", "debounce"} /\ forced' \in BOOLEAN
         /\ Busy(queue') => pc' # "idle"
<1>1. CASE Busy(q)
  BY <1>1 DEF EndDrain
<1>2. CASE ~Busy(q)
  <2>1. q.items = <<>> /\ q.dropped = 0
    BY <1>2 DEF Busy, Queue
  <2>2. Elements(EmptyQueue.lines) = {} /\ ~Busy(EmptyQueue)
    BY FreshQueue, NoElements DEF Busy
  <2> HIDE DEF EmptyQueue
  <2> QED
    BY <1>2, <2>1, <2>2, FreshQueue DEF EndDrain
<1> QED
  BY <1>1, <1>2

\* A step that leaves the fates and the work alone and sends nothing.
LEMMA SameWork ==
  ASSUME QueueInv, QueueTypes', pc # "sending", fate' = fate, batch' = batch,
         queue'.items = queue.items, queue'.dropped = queue.dropped,
         Elements(queue'.lines) \subseteq Elements(queue.lines),
         Busy(queue') => pc' # "idle"
  PROVE  QueueInv' /\ \A k \in Run : FatesGoOn(k)
<1>1. batch' = NoBatch
  BY NothingUnderWay
<1>2. Summarized' = Summarized /\ Fated("queued")' = Fated("queued")
      /\ Fated("summarized")' = Fated("summarized")
  BY DEF Summarized, Fated
<1>3. Placed' /\ Accounted' /\ Driven'
  BY <1>1, <1>2 DEF QueueInv, Placed, Accounted, Driven
<1>4. \A k \in Run : FatesGoOn(k)
  BY DEF FatesGoOn
<1> QED
  BY <1>3, <1>4 DEF QueueInv

\* Every turn of the loop that does not wait keeps the invariant.
LEMMA TurnKeeps ==
  ASSUME QueueInv, Turn
  PROVE  QueueInv' /\ heard' = heard /\ \A k \in Run : FatesGoOn(k)
<1>1. queue \in Queue /\ queue.items \in Seq(Run) /\ Len(queue.items) \in Nat /\ forced \in BOOLEAN
  BY DEF QueueInv, QueueTypes, QueueTypeOK, Queue
<1>2. queue.items # <<>> => 1 \in 0 .. Len(queue.items)
  BY <1>1
<1>3. CASE SendForced
  BY <1>2, <1>3, SendKeeps DEF SendForced
<1>4. CASE SendBatch
  <2>1. Len(queue.items) \in 0 .. Len(queue.items)
    BY <1>1
  <2> QED
    BY <1>1, <1>4, <2>1, SendKeeps DEF SendBatch
<1>5. CASE SendNext
  BY <1>1, <1>2, <1>5, SendKeeps DEF SendNext
<1>6. CASE SendSummary
  BY <1>1, <1>2, <1>6, SendKeeps DEF SendSummary
<1>7. CASE BreakForced
  <2>1. EndDrain(queue) /\ pc = "debounce" /\ UNCHANGED <<batch, fate, heard>>
    BY <1>7 DEF BreakForced
  <2>2. /\ queue' \in Queue
        /\ [mode |-> queue'.mode, drop |-> queue'.drop, cap |-> queue'.cap] \in Settings
        /\ queue'.items = queue.items /\ queue'.dropped = queue.dropped
        /\ Elements(queue'.lines) \subseteq Elements(queue.lines)
        /\ pc' \in {"idle", "debounce"} /\ forced' \in BOOLEAN
        /\ Busy(queue') => pc' # "idle"
    BY <1>1, <2>1, EndKeeps DEF QueueInv, QueueTypes, QueueTypeOK
  <2>3. QueueTypes'
    BY <2>1, <2>2 DEF QueueInv, QueueTypes, QueueTypeOK, Queue
  <2> QED
    BY <2>1, <2>2, <2>3, SameWork
<1>8. CASE LoseSummary
  <2>1. /\ EndDrain(Reset(queue)) /\ pc = "debounce" /\ queue.items = <<>>
        /\ fate' = Mark(Summarized, "unreported") /\ UNCHANGED <<batch, heard>>
    BY <1>8 DEF LoseSummary
  <2> DEFINE q == Reset(queue)
  <2>2. /\ q \in Queue /\ q.mode = queue.mode /\ q.drop = queue.drop /\ q.cap = queue.cap
        /\ q.items = queue.items /\ q.dropped = 0 /\ q.lines = <<>>
    BY <1>1, NoElements DEF Reset, Queue
  <2> HIDE DEF q
  <2>3. [mode |-> q.mode, drop |-> q.drop, cap |-> q.cap] \in Settings
    BY <2>2 DEF QueueInv, QueueTypes, QueueTypeOK
  <2>4. /\ queue' \in Queue
        /\ [mode |-> queue'.mode, drop |-> queue'.drop, cap |-> queue'.cap] \in Settings
        /\ queue'.items = q.items /\ queue'.dropped = q.dropped
        /\ Elements(queue'.lines) \subseteq Elements(q.lines)
        /\ pc' \in {"idle", "debounce"} /\ forced' \in BOOLEAN
        /\ Busy(queue') => pc' # "idle"
    BY <2>1, <2>2, <2>3, EndKeeps DEF q
  <2>5. \A k \in Run : fate'[k] = IF k \in Summarized THEN "unreported" ELSE fate[k]
    BY <2>1 DEF Mark
  <2>6. fate' \in [Run -> Fate]
    BY <2>1 DEF Mark, QueueInv, QueueTypes, QueueTypeOK, Fate
  <2>7. QueueTypes'
    BY <2>1, <2>4, <2>6 DEF QueueInv, QueueTypes, QueueTypeOK, Queue
  <2>8. /\ batch = NoBatch /\ Elements(batch.summary) = {}
        /\ Summarized = Fated("summarized") /\ Elements(queue.items) = Fated("queued")
    BY <2>1, NothingUnderWay
  <2>9. Fated("queued")' = Fated("queued") /\ Fated("summarized")' = {}
    BY <2>5, <2>8 DEF Fated
  <2>10. Summarized' = {}
    BY <2>9 DEF Summarized, Fated
  <2>11. Placed'
    BY <2>1, <2>2, <2>4, <2>9 DEF QueueInv, Placed
  <2>12. Accounted'
    BY <2>1, <2>2, <2>4, <2>8, <2>10, NoElements, FS_EmptySet DEF Accounted
  <2>13. Driven' /\ \A k \in Run : FatesGoOn(k)
    BY <2>1, <2>4, <2>5, <2>8 DEF Driven, FatesGoOn, Fated
  <2> QED
    BY <2>1, <2>7, <2>11, <2>12, <2>13 DEF QueueInv
<1>9. CASE Spin
  <2>1. QueueTypes' /\ pc # "sending" /\ pc' # "idle" /\ UNCHANGED <<queue, forced, batch, fate, heard>>
    BY <1>9 DEF Spin, QueueInv, QueueTypes, QueueTypeOK
  <2> QED
    BY <2>1, SameWork
<1> QED
  BY <1>3, <1>4, <1>5, <1>6, <1>7, <1>8, <1>9 DEF Turn

\* The message under way has left when fates of this kind are given to all in it.
BatchGone ==
  /\ batch' = NoBatch
  /\ fate' \in [Run -> Fate]
  /\ \A k \in Run :
       IF k \in Elements(batch.items) \cup Elements(batch.summary)
         THEN fate'[k] \in {"told", "overwritten", "reported", "failed"}
         ELSE fate'[k] = fate[k]

\* When it has left, and the drain goes on or ends, the invariant holds.
LEMMA BatchGoneKeeps ==
  ASSUME QueueInv, BatchGone, QueueTypes',
         queue'.items = queue.items, queue'.dropped = queue.dropped,
         Elements(queue'.lines) \subseteq Elements(queue.lines),
         Busy(queue') => pc' # "idle"
  PROVE  QueueInv' /\ \A k \in Run : FatesGoOn(k)
<1>1. Elements(batch'.items) = {} /\ Elements(batch'.summary) = {} /\ Distinct(batch'.items)
  BY NoElements DEF BatchGone, NoBatch
<1>2. Fated("queued")' = Fated("queued") \ Elements(batch.items)
  BY DEF BatchGone, QueueInv, Accounted, Fated
<1>3. Fated("summarized")' = Fated("summarized") \ Elements(batch.summary)
  BY DEF BatchGone, QueueInv, Placed, Fated
<1>4. Summarized' = Summarized
  BY <1>1, <1>3 DEF Summarized, Fated
<1>5. Placed'
  BY <1>1, <1>2 DEF QueueInv, Placed
<1>6. Accounted'
  BY <1>1, <1>4 DEF QueueInv, Accounted
<1>7. Driven'
  BY DEF BatchGone, Driven
<1>8. \A k \in Run : FatesGoOn(k)
  BY DEF BatchGone, QueueInv, Placed, Accounted, FatesGoOn, Fated
<1> QED
  BY <1>5, <1>6, <1>7, <1>8 DEF QueueInv

\* What the agent hears of, it has not been told yet; what it is not told of is gone.
LEMMA DeliveredFates ==
  ASSUME QueueInv, Delivered
  PROVE  /\ \A k \in Run : IF k \in Elements(batch.items) \cup Elements(batch.summary)
                             THEN fate'[k] \in {"told", "overwritten", "reported"}
                             ELSE fate'[k] = fate[k]
         /\ fate' \in [Run -> Fate] /\ heard' \in [Run -> Nat]
         /\ \A k \in Run : heard'[k] \in {heard[k], heard[k] + 1}
         /\ \A k \in Run : heard'[k] # heard[k] => /\ fate[k] \in {"queued", "summarized"}
                                                  /\ fate'[k] \in {"told", "reported"}
<1> DEFINE items == Elements(batch.items)
           reported == Elements(batch.summary)
           told == IF batch.text THEN items ELSE {}
<1>1. /\ heard' = [r \in Run |-> heard[r] + (IF r \in told \cup reported THEN 1 ELSE 0)]
      /\ fate' = [r \in Run |-> IF r \in told THEN "told"
                                ELSE IF r \in items THEN "overwritten"
                                ELSE IF r \in reported THEN "reported"
                                ELSE fate[r]]
  BY DEF Delivered
<1>2. told \subseteq items /\ items \subseteq Fated("queued") /\ reported \subseteq Fated("summarized")
  BY DEF QueueInv, Placed, Accounted
<1> HIDE DEF items, reported, told
<1>3. heard \in [Run -> Nat] /\ fate \in [Run -> Fate]
  BY DEF QueueInv, QueueTypes, QueueTypeOK
<1>4. fate' \in [Run -> Fate] /\ heard' \in [Run -> Nat]
  BY <1>1, <1>3 DEF Fate
<1>5. ASSUME NEW k \in Run
      PROVE  /\ heard'[k] = heard[k] + (IF k \in told \cup reported THEN 1 ELSE 0)
             /\ fate'[k] = IF k \in told THEN "told"
                           ELSE IF k \in items THEN "overwritten"
                           ELSE IF k \in reported THEN "reported"
                           ELSE fate[k]
             /\ heard[k] \in Nat
  BY <1>1, <1>3
<1>6. ASSUME NEW k \in Run
      PROVE  /\ IF k \in items \cup reported
                  THEN fate'[k] \in {"told", "overwritten", "reported"} ELSE fate'[k] = fate[k]
             /\ heard'[k] \in {heard[k], heard[k] + 1}
             /\ heard'[k] # heard[k] => /\ fate[k] \in {"queued", "summarized"}
                                        /\ fate'[k] \in {"told", "reported"}
  <2>1. k \in items => fate[k] = "queued"
    BY <1>2 DEF Fated
  <2>2. k \in reported => fate[k] = "summarized"
    BY <1>2 DEF Fated
  <2>3. k \in told => k \in items
    BY <1>2
  <2>4. k \notin told \cup reported => heard'[k] = heard[k]
    BY <1>5
  <2>5. k \in told \cup reported => heard'[k] = heard[k] + 1
    BY <1>5
  <2> QED
    BY <1>5, <2>1, <2>2, <2>3, <2>4, <2>5
<1> QED
  BY <1>4, <1>6 DEF items, reported

\* The requester hears of what was queued or dropped only, and that is over then.
HeardGoesOn ==
  \A k \in Run : /\ heard'[k] \in {heard[k], heard[k] + 1}
                 /\ heard'[k] # heard[k] => /\ fate[k] \in {"queued", "summarized"}
                                            /\ fate'[k] \in {"told", "reported"}

\* A message that was sent, or failed, keeps the invariant.
LEMMA SentKeeps ==
  ASSUME QueueInv, SendDone \/ SendFails
  PROVE  QueueInv' /\ HeardGoesOn /\ \A k \in Run : FatesGoOn(k)
<1>1. /\ queue \in Queue /\ forced \in BOOLEAN /\ heard \in [Run -> Nat]
      /\ [mode |-> queue.mode, drop |-> queue.drop, cap |-> queue.cap] \in Settings
  BY DEF QueueInv, QueueTypes, QueueTypeOK
<1>2. pc = "sending" /\ batch' = NoBatch
  BY DEF SendDone, SendFails
<1>3. batch' \in [items : Seq(Run), summary : Seq(Run), text : BOOLEAN]
  BY <1>2, NoElements DEF NoBatch
<1>4. BatchGone /\ HeardGoesOn /\ heard' \in [Run -> Nat]
  <2>1. CASE Delivered
    BY <1>2, <2>1, DeliveredFates DEF BatchGone, HeardGoesOn
  <2>2. CASE /\ fate' = Mark(Elements(batch.items) \cup Elements(batch.summary), "failed")
             /\ UNCHANGED heard
    <3>1. /\ \A k \in Run : IF k \in Elements(batch.items) \cup Elements(batch.summary)
                              THEN fate'[k] = "failed" ELSE fate'[k] = fate[k]
          /\ fate' \in [Run -> Fate]
      BY <2>2 DEF Mark, QueueInv, QueueTypes, QueueTypeOK, Fate
    <3> QED
      BY <1>1, <1>2, <2>2, <3>1 DEF BatchGone, HeardGoesOn
  <2> QED
    BY <2>1, <2>2 DEF SendDone, SendFails
<1>5. /\ queue' \in Queue
      /\ [mode |-> queue'.mode, drop |-> queue'.drop, cap |-> queue'.cap] \in Settings
      /\ queue'.items = queue.items /\ queue'.dropped = queue.dropped
      /\ Elements(queue'.lines) \subseteq Elements(queue.lines)
      /\ pc' \in {"idle", "debounce"} /\ forced' \in BOOLEAN
      /\ Busy(queue') => pc' # "idle"
  <2>1. CASE EndDrain(queue)
    BY <1>1, <2>1, EndKeeps
  <2>2. CASE pc' = "debounce" /\ UNCHANGED <<queue, forced>>
    BY <1>1, <2>2
  <2> QED
    BY <2>1, <2>2 DEF SendDone, SendFails
<1>6. QueueTypes'
  BY <1>3, <1>4, <1>5 DEF QueueTypes, QueueTypeOK, Queue, BatchGone
<1> QED
  BY <1>4, <1>5, <1>6, BatchGoneKeeps

\* A new process starts with an empty queue; what was in it has failed.
LEMMA LossKeeps ==
  ASSUME QueueInv, QueueLost
  PROVE  QueueInv' /\ heard' = heard /\ \A k \in Run : FatesGoOn(k) /\ ~InQueue(k)'
<1>1. /\ queue' \in Queue /\ queue'.items = <<>> /\ queue'.dropped = 0 /\ queue'.lines = <<>>
      /\ [mode |-> queue'.mode, drop |-> queue'.drop, cap |-> queue'.cap] \in Settings
      /\ pc' = "idle" /\ forced' = FALSE /\ batch' = NoBatch /\ heard' = heard
      /\ fate' = [r \in Run |-> IF fate[r] \in {"queued", "summarized"} THEN "failed" ELSE fate[r]]
  <2> HIDE DEF EmptyQueue
  <2> QED
    BY FreshQueue DEF QueueLost
<1>2. batch'.items = <<>> /\ batch'.summary = <<>>
      /\ batch' \in [items : Seq(Run), summary : Seq(Run), text : BOOLEAN]
  BY <1>1, NoElements DEF NoBatch
<1>3. fate' \in [Run -> Fate]
  BY <1>1 DEF QueueInv, QueueTypes, QueueTypeOK, Fate
<1>4. QueueTypes'
  BY <1>1, <1>2, <1>3, NoElements DEF QueueInv, QueueTypes, QueueTypeOK, Queue
<1>5. Fated("queued")' = {} /\ Fated("summarized")' = {}
  BY <1>1 DEF Fated
<1>6. Summarized' = {}
  BY <1>5 DEF Summarized, Fated
<1>7. Placed'
  BY <1>1, <1>2, <1>5, NoElements DEF Placed
<1>8. Accounted'
  BY <1>1, <1>2, <1>5, <1>6, NoElements, FS_EmptySet DEF Accounted
<1>9. Driven' /\ \A k \in Run : FatesGoOn(k) /\ ~InQueue(k)'
  BY <1>1 DEF Driven, Busy, FatesGoOn, InQueue
<1> QED
  BY <1>1, <1>4, <1>7, <1>8, <1>9 DEF QueueInv

\* What is announced to an idle requester, or steered to it, never meets the queue.
LEMMA ToldKeeps ==
  ASSUME QueueInv, NEW r \in Run, ~InQueue(r), fate' = Mark({r}, "told"),
         heard' \in [Run -> Nat], UNCHANGED <<queue, pc, forced, batch>>
  PROVE  QueueInv' /\ fate'[r] = "told" /\ \A k \in Run \ {r} : FatesGoOn(k)
<1>1. \A k \in Run : fate'[k] = IF k = r THEN "told" ELSE fate[k]
  BY DEF Mark
<1>2. QueueTypes'
  BY DEF Mark, QueueInv, QueueTypes, QueueTypeOK, Fate
<1>3. Fated("queued")' = Fated("queued") /\ Fated("summarized")' = Fated("summarized")
  BY <1>1 DEF Fated, InQueue
<1>4. Summarized' = Summarized
  BY <1>3 DEF Summarized, Fated
<1>5. Placed' /\ Accounted' /\ Driven'
  BY <1>3, <1>4 DEF QueueInv, Placed, Accounted, Driven
<1> QED
  BY <1>1, <1>2, <1>5 DEF QueueInv, FatesGoOn

\* A step that touches neither the queue nor a fate.
LEMMA QueueAlone ==
  ASSUME QueueInv, heard' \in [Run -> Nat], UNCHANGED <<queue, pc, forced, batch, fate>>
  PROVE  QueueInv' /\ \A k \in Run : FatesGoOn(k)
<1>1. Fated("queued")' = Fated("queued") /\ Fated("summarized")' = Fated("summarized")
      /\ Summarized' = Summarized
  BY DEF Summarized, Fated
<1>2. QueueTypes'
  BY DEF QueueInv, QueueTypes, QueueTypeOK
<1> QED
  BY <1>1, <1>2 DEF QueueInv, Placed, Accounted, Driven, FatesGoOn

\* The queue's invariant holds initially.
LEMMA InitQueue == QueueInit => QueueInv
<1> SUFFICES ASSUME QueueInit PROVE QueueInv
  OBVIOUS
<1>1. /\ queue \in Queue /\ queue.items = <<>> /\ queue.dropped = 0 /\ queue.lines = <<>>
      /\ [mode |-> queue.mode, drop |-> queue.drop, cap |-> queue.cap] \in Settings
      /\ pc = "idle" /\ forced = FALSE /\ batch = NoBatch
      /\ fate = [r \in Run |-> "none"] /\ heard = [r \in Run |-> 0]
  <2> HIDE DEF EmptyQueue
  <2> QED
    BY FreshQueue DEF QueueInit
<1>2. batch.items = <<>> /\ batch.summary = <<>>
      /\ batch \in [items : Seq(Run), summary : Seq(Run), text : BOOLEAN]
  BY <1>1, NoElements DEF NoBatch
<1>3. QueueTypes
  BY <1>1, <1>2, NoElements DEF QueueTypes, QueueTypeOK, Queue, Fate
<1>4. Fated("queued") = {} /\ Fated("summarized") = {} /\ Summarized = {}
  BY <1>1 DEF Fated, Summarized
<1>5. Placed /\ Accounted
  BY <1>1, <1>2, <1>4, NoElements, FS_EmptySet DEF Placed, Accounted
<1>6. Driven
  BY <1>1 DEF Driven, Busy
<1> QED
  BY <1>3, <1>5, <1>6 DEF QueueInv

\* It says that announcements are kept.
LEMMA QueueInvKeeps == QueueInv => AnnouncementsKept
<1> SUFFICES ASSUME QueueInv PROVE AnnouncementsKept
  OBVIOUS
<1>1. ASSUME NEW r \in Run
      PROVE  fate[r] = "queued" <=>
               Cardinality({i \in 1..Len(queue.items) : queue.items[i] = r})
                 + Cardinality({i \in 1..Len(batch.items) : batch.items[i] = r}) = 1
  <2>1. queue.items \in Seq(Run) /\ batch.items \in Seq(Run)
    BY DEF QueueInv, QueueTypes, QueueTypeOK
  <2>2. /\ Cardinality({i \in 1..Len(queue.items) : queue.items[i] = r})
             = IF r \in Elements(queue.items) THEN 1 ELSE 0
        /\ Cardinality({i \in 1..Len(batch.items) : batch.items[i] = r})
             = IF r \in Elements(batch.items) THEN 1 ELSE 0
    BY <2>1, PlacesCounted DEF QueueInv, Placed
  <2>3. /\ fate[r] = "queued" <=> r \in Elements(queue.items) \/ r \in Elements(batch.items)
        /\ ~(r \in Elements(queue.items) /\ r \in Elements(batch.items))
    BY DEF QueueInv, Placed, Fated
  <2>4. CASE r \in Elements(queue.items)
    BY <2>2, <2>3, <2>4
  <2>5. CASE r \in Elements(batch.items)
    BY <2>2, <2>3, <2>5
  <2>6. CASE r \notin Elements(queue.items) /\ r \notin Elements(batch.items)
    BY <2>2, <2>3, <2>6
  <2> QED
    BY <2>4, <2>5, <2>6
<1> QED
  BY <1>1 DEF QueueInv, Accounted, Driven, AnnouncementsKept

-----------------------------------------------------------------------------
(***************************************************************************)
(* The registry: what holds of each run.                                   *)
(***************************************************************************)
RegistryTypes ==
  /\ up \in BOOLEAN /\ sweeping \in BOOLEAN
  /\ subagentRuns \in [Run -> Entry \cup {Absent}] /\ disk \in [Run -> Entry \cup {Absent}]
  /\ spawn \in [Run -> {"none", "calling", "done"}]
  /\ flows \in [Run -> [Stage -> Nat]]
  /\ orphans \subseteq Run /\ unsaved \subseteq Run /\ forgotten \subseteq Run

Claimable(e) == e # Absent /\ CanClaim(e)
Completed(e) == e # Absent /\ e.completed

\* One announcer at most; one for each claimed entry but those of a dead process,
\* which stay claimed.
Flowing(r) ==
  /\ FlowCount(r) <= 1
  /\ up /\ Known(r) => FlowCount(r) = IF Pending(subagentRuns[r]) /\ r \notin orphans THEN 1 ELSE 0
  /\ up /\ Known(r) /\ r \in orphans => Pending(subagentRuns[r])

\* Unless the last save failed, the file says what memory says, but for what a sweep
\* has just removed; while an announcement is under way it says that the cleanup is
\* claimed.
Saved(r) ==
  up /\ r \notin unsaved =>
        /\ disk[r] = subagentRuns[r] \/ (sweeping /\ subagentRuns[r] = Absent)
        /\ FlowCount(r) >= 1 /\ disk[r] # Absent => Pending(disk[r])

\* Between a crash and the restart there is the file only.
Down(r) ==
  ~up => /\ subagentRuns[r] = Absent /\ flows[r] = NoFlow /\ ~sweeping
         /\ r \in orphans <=> Pending(disk[r])
         /\ r \notin unsaved /\ ~InQueue(r)

\* Nobody is left to announce the run, in this life of the process.
Settled(r) ==
  /\ flows[r]["reading"] = 0 /\ flows[r]["sending"] = 0 /\ flows[r]["failed"] = 0
  /\ ~Claimable(subagentRuns[r])

\* What is announced has nobody left to announce it, in memory or in the file, unless
\* a save of it failed; what counts as announced is.
Once(r) ==
  /\ fate[r] # "none" /\ r \notin forgotten =>
       Settled(r) /\ (r \in unsaved \/ ~Claimable(disk[r]))
  /\ InQueue(r) => Settled(r)
  /\ flows[r]["announced"] > 0 \/ Completed(subagentRuns[r]) \/ Completed(disk[r])
       => fate[r] # "none"

\* A run that is not registered yet has left no trace.
Unregistered(r) ==
  /\ spawn[r] # "done" =>
       /\ subagentRuns[r] = Absent /\ disk[r] = Absent /\ flows[r] = NoFlow /\ r \notin orphans
       /\ r \in Tracked => fate[r] = "none"
  /\ r \notin Tracked => spawn[r] = "none"

RunInv(r) == Flowing(r) /\ Saved(r) /\ Down(r) /\ Once(r) /\ Unregistered(r)

\* Whoever was heard of was heard of once and waits nowhere.
HeardInv(r) ==
  heard[r] > 0 /\ r \notin doubted /\ r \notin forgotten =>
    heard[r] = 1 /\ fate[r] # "none" /\ ~InQueue(r)

\* Whoever was refused was so by a policy that somebody set.
Refusals == \A r \in Run : fate[r] = "refused" => \E s \in Settings : s.drop = "new"

\* What a save does to the file of each run.
LEMMA PersistEffect ==
  ASSUME NEW earlier, Persist(earlier),
         \A d \in earlier \cup {disk, subagentRuns'} : d \in [Run -> Entry \cup {Absent}]
  PROVE  /\ disk' \in [Run -> Entry \cup {Absent}] /\ unsaved' \subseteq Run
         /\ \A k \in Run : k \notin unsaved' => disk'[k] = subagentRuns'[k]
         /\ disk' \in earlier \cup {disk, subagentRuns', ToAll(Absent)}
         /\ \A k \in Run : ToAll(Absent)[k] = Absent
<1>1. /\ disk' \in earlier \cup {disk, subagentRuns', ToAll(Absent)}
      /\ unsaved' = {r \in Run : disk'[r] # subagentRuns'[r]}
  BY DEF Persist
<1>2. ToAll(Absent) \in [Run -> Entry \cup {Absent}] /\ \A k \in Run : ToAll(Absent)[k] = Absent
  BY DEF ToAll
<1> QED
  BY <1>1, <1>2

\* A step leaves the run k alone, but perhaps for a save of all runs.
Untouched(k) ==
  /\ up /\ up'
  /\ subagentRuns'[k] = subagentRuns[k] /\ flows'[k] = flows[k] /\ spawn'[k] = spawn[k]
  /\ orphans' = orphans /\ forgotten' = forgotten
  /\ FatesGoOn(k)
  /\ \/ /\ disk'[k] \in {subagentRuns[k], disk[k], Absent}
        /\ k \notin unsaved' => disk'[k] = subagentRuns[k]
     \/ /\ disk'[k] = disk[k] /\ (sweeping' \/ sweeping' = sweeping)
        /\ unsaved' = unsaved

\* Such a step keeps what holds of the run.
LEMMA UntouchedKeeps ==
  ASSUME RegistryTypes, NEW k \in Run, RunInv(k), Untouched(k)
  PROVE  RunInv(k)'
<1>1. FlowCount(k)' = FlowCount(k) /\ FlowCount(k) \in Nat
  BY DEF Untouched, FlowCount, RegistryTypes, Stage
<1>2. Flowing(k)'
  BY <1>1 DEF Untouched, RunInv, Flowing, Known
<1>3. Saved(k)'
  BY <1>1 DEF Untouched, RunInv, Flowing, Saved, Known
<1>4. Once(k)'
  <2>1. Settled(k)' <=> Settled(k)
    BY DEF Untouched, Settled
  <2>2. InQueue(k)' => InQueue(k)
    BY DEF Untouched, FatesGoOn, InQueue
  <2>3. fate'[k] # "none" <=> fate[k] # "none"
    BY DEF Untouched, FatesGoOn
  <2>4. k \in unsaved' \/ ~Claimable(disk'[k]) \/ ~Settled(k) \/ (k \notin unsaved /\ Claimable(disk[k]))
    BY DEF Untouched, Settled, Claimable
  <2>5. Completed(disk'[k]) => Completed(disk[k]) \/ Completed(subagentRuns[k])
    BY DEF Untouched, Completed
  <2> QED
    BY <2>1, <2>2, <2>3, <2>4, <2>5 DEF Untouched, RunInv, Once
<1>5. Unregistered(k)' /\ Down(k)'
  BY DEF Untouched, RunInv, Unregistered, Down, FatesGoOn
<1> QED
  BY <1>2, <1>3, <1>4, <1>5 DEF RunInv

\* The four stages of the flows of a run.
LEMMA FlowStages ==
  ASSUME RegistryTypes, NEW r \in Run
  PROVE  /\ \A s \in Stage : flows[r][s] \in Nat
         /\ FlowCount(r) \in Nat
         /\ FlowCount(r) = 0 <=> flows[r] = NoFlow
         /\ \A s \in Stage : flows[r][s] > 0 /\ FlowCount(r) <= 1 =>
              flows[r][s] = 1 /\ \A o \in Stage \ {s} : flows[r][o] = 0
<1>1. flows[r] \in [Stage -> Nat]
  BY DEF RegistryTypes
<1>2. flows[r] = NoFlow <=> \A s \in Stage : flows[r][s] = 0
  BY <1>1 DEF NoFlow
<1> DEFINE a == flows[r]["reading"]
           b == flows[r]["sending"]
           c == flows[r]["announced"]
           d == flows[r]["failed"]
<1>3. a \in Nat /\ b \in Nat /\ c \in Nat /\ d \in Nat /\ FlowCount(r) = a + b + c + d
  BY <1>1 DEF Stage, FlowCount
<1>4. \A s \in Stage : s = "reading" \/ s = "sending" \/ s = "announced" \/ s = "failed"
  BY DEF Stage
<1>5. (\A s \in Stage : flows[r][s] = 0) <=> (a = 0 /\ b = 0 /\ c = 0 /\ d = 0)
  BY <1>4 DEF Stage
<1> HIDE DEF a, b, c, d
<1>6. FlowCount(r) = 0 <=> a = 0 /\ b = 0 /\ c = 0 /\ d = 0
  BY <1>3
<1>7. FlowCount(r) <= 1 =>
        /\ a > 0 => a = 1 /\ b = 0 /\ c = 0 /\ d = 0
        /\ b > 0 => a = 0 /\ b = 1 /\ c = 0 /\ d = 0
        /\ c > 0 => a = 0 /\ b = 0 /\ c = 1 /\ d = 0
        /\ d > 0 => a = 0 /\ b = 0 /\ c = 0 /\ d = 1
  BY <1>3
<1>8. ASSUME NEW s \in Stage, flows[r][s] > 0, FlowCount(r) <= 1
      PROVE  flows[r][s] = 1 /\ \A o \in Stage \ {s} : flows[r][o] = 0
  BY <1>4, <1>7, <1>8 DEF Stage, a, b, c, d
<1> QED
  BY <1>1, <1>2, <1>3, <1>5, <1>6, <1>8

\* A flow that goes on to another stage is the run's only one.
LEMMA FlowMoves ==
  ASSUME RegistryTypes, NEW r \in Run, RunInv(r), NEW from \in Stage, NEW to \in Stage,
         from # to, Move(r, from, to)
  PROVE  /\ flows' \in [Run -> [Stage -> Nat]]
         /\ flows[r][from] = 1 /\ \A s \in Stage \ {from} : flows[r][s] = 0
         /\ flows'[r][to] = 1 /\ \A s \in Stage \ {to} : flows'[r][s] = 0
         /\ FlowCount(r) = 1 /\ FlowCount(r)' = 1
         /\ \A k \in Run \ {r} : flows'[k] = flows[k]
<1>1. flows[r][from] > 0 /\ flows' = [flows EXCEPT ![r][from] = @ - 1, ![r][to] = @ + 1]
  BY DEF Move
<1>2. flows[r][from] = 1 /\ \A s \in Stage \ {from} : flows[r][s] = 0
  BY <1>1, FlowStages DEF RunInv, Flowing
<1>3. flows \in [Run -> [Stage -> Nat]]
  BY DEF RegistryTypes
<1>4. \A s \in Stage : flows'[r][s] = IF s = to THEN 1 ELSE 0
  <2>1. \A s \in Stage : flows'[r][s] = IF s = to THEN flows[r][to] + 1
                                        ELSE IF s = from THEN flows[r][from] - 1 ELSE flows[r][s]
    BY <1>1, <1>3
  <2> QED
    BY <1>2, <2>1
<1>5. flows' \in [Run -> [Stage -> Nat]] /\ \A k \in Run \ {r} : flows'[k] = flows[k]
  <2>1. flows[r][from] - 1 \in Nat /\ flows[r][to] + 1 \in Nat
    BY <1>2
  <2> QED
    BY <1>1, <1>3, <2>1
<1>6. FlowCount(r) = 1 /\ FlowCount(r)' = 1
  BY <1>2, <1>4 DEF FlowCount, Stage
<1> QED
  BY <1>2, <1>4, <1>5, <1>6

\* A flow that is over leaves none behind.
LEMMA FlowEnds ==
  ASSUME RegistryTypes, NEW r \in Run, RunInv(r), NEW from \in Stage, flows[r][from] > 0,
         flows' = [flows EXCEPT ![r][from] = @ - 1]
  PROVE  /\ flows' \in [Run -> [Stage -> Nat]]
         /\ FlowCount(r) = 1 /\ FlowCount(r)' = 0
         /\ \A s \in Stage : flows'[r][s] = 0
         /\ \A k \in Run \ {r} : flows'[k] = flows[k]
<1>1. flows[r][from] = 1 /\ \A s \in Stage \ {from} : flows[r][s] = 0
  BY FlowStages DEF RunInv, Flowing
<1>2. flows \in [Run -> [Stage -> Nat]]
  BY DEF RegistryTypes
<1>3. \A s \in Stage : flows'[r][s] = 0
  <2>1. \A s \in Stage : flows'[r][s] = IF s = from THEN flows[r][from] - 1 ELSE flows[r][s]
    BY <1>2
  <2> QED
    BY <1>1, <2>1
<1>4. flows' \in [Run -> [Stage -> Nat]] /\ \A k \in Run \ {r} : flows'[k] = flows[k]
  <2>1. flows[r][from] - 1 \in Nat
    BY <1>1
  <2> QED
    BY <1>2, <2>1
<1>5. FlowCount(r) = 1 /\ FlowCount(r)' = 0
  BY <1>1, <1>3 DEF FlowCount, Stage
<1> QED
  BY <1>3, <1>4, <1>5

RegistryInv == RegistryTypes /\ \A k \in Run : RunInv(k)

\* Who leaves the other runs alone need only look at its own.
LEMMA OthersKeep ==
  ASSUME RegistryInv, NEW r \in Run, RunInv(r)', RegistryTypes',
         \A k \in Run \ {r} : Untouched(k)
  PROVE  RegistryInv'
BY UntouchedKeeps DEF RegistryInv

\* An entry that is claimed, or told of the end, is an entry.
LEMMA EntryFacts ==
  ASSUME NEW e \in Entry
  PROVE  /\ [e EXCEPT !.ended = TRUE] \in Entry
         /\ Pending([e EXCEPT !.ended = TRUE]) => e.handled /\ ~e.completed
         /\ CanClaim([e EXCEPT !.ended = TRUE]) <=> CanClaim(e)
         /\ [e EXCEPT !.ended = TRUE].handled = e.handled
         /\ [e EXCEPT !.ended = TRUE].completed = e.completed
         /\ Claimed(e) \in Entry
         /\ Claimed(e).completed = e.completed
         /\ CanClaim(e) => Claimed(e).handled /\ ~Claimed(e).completed
         /\ ~CanClaim(e) => Claimed(e) = e
         /\ ~CanClaim(Claimed(e))
BY DEF Entry, CanClaim, Claimed, Pending

\* What a save may leave in the file of the run k.
LEMMA PersistOne ==
  ASSUME RegistryTypes, NEW earlier, Persist(earlier), NEW k \in Run,
         subagentRuns' \in [Run -> Entry \cup {Absent}],
         \A d \in earlier : d \in [Run -> Entry \cup {Absent}]
  PROVE  /\ disk' \in [Run -> Entry \cup {Absent}] /\ unsaved' \subseteq Run
         /\ \/ disk'[k] \in {subagentRuns'[k], disk[k], Absent}
            \/ \E d \in earlier : disk'[k] = d[k]
         /\ k \notin unsaved' => disk'[k] = subagentRuns'[k]
<1>1. \A d \in earlier \cup {disk, subagentRuns'} : d \in [Run -> Entry \cup {Absent}]
  BY DEF RegistryTypes
<1> QED
  BY <1>1, PersistEffect

\* The run k is not the one a save is about.
LEMMA PersistOthers ==
  ASSUME RegistryTypes, NEW earlier, Persist(earlier), NEW k \in Run,
         subagentRuns' \in [Run -> Entry \cup {Absent}],
         \A d \in earlier : d \in [Run -> Entry \cup {Absent}] /\ d[k] = subagentRuns[k],
         subagentRuns'[k] = subagentRuns[k]
  PROVE  /\ disk'[k] \in {subagentRuns[k], disk[k], Absent}
         /\ k \notin unsaved' => disk'[k] = subagentRuns[k]
<1>1. \A d \in earlier \cup {disk, subagentRuns'} : d \in [Run -> Entry \cup {Absent}]
  BY DEF RegistryTypes
<1> QED
  BY <1>1, PersistEffect

\* sessions_spawn begins for a run without a trace.
LEMMA SpawnStep ==
  ASSUME RegistryInv, NEW r \in Run, Spawn(r), fate' = fate
  PROVE  RegistryInv'
<1>1. /\ up /\ up' = up /\ subagentRuns' = subagentRuns /\ disk' = disk /\ sweeping' = sweeping
      /\ unsaved' = unsaved /\ forgotten' = forgotten
      /\ flows' = flows /\ orphans' = orphans /\ r \in Tracked /\ spawn[r] = "none"
      /\ spawn' = [spawn EXCEPT ![r] = "calling"]
  BY DEF Spawn, Alive, registryVars, historyVars
<1>2. RegistryTypes' /\ spawn'[r] = "calling" /\ \A k \in Run \ {r} : spawn'[k] = spawn[k]
  BY <1>1 DEF RegistryInv, RegistryTypes
<1>3. RunInv(r)'
  <2>1. Flowing(r)' /\ Saved(r)' /\ Down(r)'
    BY <1>1 DEF RegistryInv, RunInv, Flowing, Saved, Down, FlowCount, Known, InQueue
  <2>2. Once(r)' /\ Unregistered(r)'
    BY <1>1, <1>2 DEF RegistryInv, RunInv, Once, Settled, Unregistered, InQueue
  <2> QED
    BY <2>1, <2>2 DEF RunInv
<1>4. \A k \in Run \ {r} : Untouched(k)
  BY <1>1, <1>2 DEF Untouched, FatesGoOn
<1> QED
  BY <1>2, <1>3, <1>4, OthersKeep

\* Its registration makes an entry that nobody has claimed.
LEMMA RegisterStep ==
  ASSUME RegistryInv, NEW r \in Run, NEW c \in Cleanup, Register(r, c), fate' = fate
  PROVE  RegistryInv'
<1>1. /\ up /\ up' = up /\ sweeping' = sweeping /\ forgotten' = forgotten
      /\ flows' = flows /\ orphans' = orphans /\ spawn[r] = "calling"
      /\ spawn' = [spawn EXCEPT ![r] = "done"]
      /\ subagentRuns' = [subagentRuns EXCEPT ![r] = NewEntry(c)]
      /\ Persist({})
  BY DEF Register, Alive, historyVars
<1>2. NewEntry(c) \in Entry /\ ~Pending(NewEntry(c)) /\ ~Completed(NewEntry(c))
  BY DEF NewEntry, Entry, Pending, Completed
<1>3. /\ spawn'[r] = "done" /\ \A k \in Run \ {r} : spawn'[k] = spawn[k]
      /\ spawn' \in [Run -> {"none", "calling", "done"}]
      /\ subagentRuns' \in [Run -> Entry \cup {Absent}]
      /\ subagentRuns'[r] = NewEntry(c)
      /\ \A k \in Run \ {r} : subagentRuns'[k] = subagentRuns[k]
  BY <1>1, <1>2 DEF RegistryInv, RegistryTypes
<1>4. /\ flows[r] = NoFlow /\ r \notin orphans /\ r \in Tracked /\ fate[r] = "none"
      /\ disk[r] = Absent
  BY <1>1 DEF RegistryInv, RunInv, Unregistered
<1>5. FlowCount(r)' = 0 /\ \A s \in Stage : flows'[r][s] = 0
  BY <1>1, <1>4 DEF NoFlow, FlowCount, Stage
<1>6. /\ disk' \in [Run -> Entry \cup {Absent}] /\ unsaved' \subseteq Run
      /\ disk'[r] \in {NewEntry(c), Absent} /\ (r \notin unsaved' => disk'[r] = NewEntry(c))
  BY <1>1, <1>3, <1>4, PersistOne DEF RegistryInv
<1>7. RegistryTypes'
  BY <1>1, <1>3, <1>6 DEF RegistryInv, RegistryTypes
<1>8. Flowing(r)' /\ Saved(r)' /\ Down(r)'
  BY <1>1, <1>2, <1>3, <1>4, <1>5, <1>6 DEF Flowing, Saved, Down, Known
<1>9. Once(r)' /\ Unregistered(r)'
  BY <1>1, <1>2, <1>3, <1>4, <1>5, <1>6 DEF Once, Unregistered, Stage, InQueue, Completed
<1>10. \A k \in Run \ {r} : Untouched(k)
  BY <1>1, <1>3, PersistOthers DEF Untouched, FatesGoOn, RegistryInv
<1> QED
  BY <1>7, <1>8, <1>9, <1>10, OthersKeep DEF RunInv

\* Whoever learns of an end claims the entry and starts the one flow, or finds
\* it claimed.
LEMMA LearnStep ==
  ASSUME RegistryInv, NEW r \in Run, up, Learn(r), fate' = fate,
         UNCHANGED <<up, sweeping, spawn, orphans, forgotten>>
  PROVE  RegistryInv'
<1> DEFINE e == [subagentRuns[r] EXCEPT !.ended = TRUE]
           d == Claimed(e)
           first == [subagentRuns EXCEPT ![r] = e]
<1>1. CASE ~Known(r)
  <2>1. UNCHANGED <<subagentRuns, disk, unsaved, flows>>
    BY <1>1 DEF Learn
  <2>2. RegistryTypes' /\ \A k \in Run : Untouched(k)
    BY <2>1 DEF RegistryInv, RegistryTypes, Untouched, FatesGoOn
  <2> QED
    BY <2>2, UntouchedKeeps DEF RegistryInv
<1>2. CASE Known(r)
  <2>1. /\ subagentRuns' = [subagentRuns EXCEPT ![r] = d] /\ Persist({first})
        /\ flows' = IF CanClaim(e) THEN [flows EXCEPT ![r].reading = @ + 1] ELSE flows
    BY <1>2 DEF Learn
  <2>2. subagentRuns[r] \in Entry
    BY <1>2 DEF Known, RegistryInv, RegistryTypes
  <2>3. /\ e \in Entry /\ e.handled = subagentRuns[r].handled
        /\ e.completed = subagentRuns[r].completed
        /\ CanClaim(e) <=> CanClaim(subagentRuns[r])
    BY <2>2, EntryFacts
  <2>12. /\ first \in [Run -> Entry \cup {Absent}] /\ first[r] = e
         /\ \A k \in Run \ {r} : first[k] = subagentRuns[k]
    BY <2>3 DEF RegistryInv, RegistryTypes
  <2> HIDE DEF e, first
  <2>4. /\ d \in Entry /\ d.completed = e.completed /\ ~CanClaim(d)
        /\ CanClaim(e) => d.handled /\ ~d.completed
        /\ ~CanClaim(e) => d = e
    BY <2>3, EntryFacts
  <2> HIDE DEF d
  <2>5. /\ subagentRuns'[r] = d
        /\ \A k \in Run \ {r} : subagentRuns'[k] = subagentRuns[k]
        /\ subagentRuns' \in [Run -> Entry \cup {Absent}]
    BY <2>1, <2>4 DEF RegistryInv, RegistryTypes
  <2>13. /\ disk' \in [Run -> Entry \cup {Absent}] /\ unsaved' \subseteq Run
         /\ disk'[r] \in {d, e, disk[r], Absent} /\ (r \notin unsaved' => disk'[r] = d)
    BY <2>1, <2>5, <2>12, PersistOne DEF RegistryInv
  <2>14. \A k \in Run \ {r} : flows'[k] = flows[k] => Untouched(k)
    <3>1. ASSUME NEW k \in Run \ {r}
          PROVE  /\ disk'[k] \in {subagentRuns[k], disk[k], Absent}
                 /\ k \notin unsaved' => disk'[k] = subagentRuns[k]
      BY <2>1, <2>5, <2>12, PersistOthers DEF RegistryInv
    <3> QED
      BY <2>5, <3>1 DEF Untouched, FatesGoOn
  <2>6. spawn[r] = "done" /\ RunInv(r)
    BY <1>2 DEF RegistryInv, RegistryTypes, RunInv, Unregistered, Known
  <2>7. /\ ~Claimable(d)
        /\ Completed(d) => Completed(subagentRuns[r])
        /\ Completed(e) => Completed(subagentRuns[r])
    BY <1>2, <2>3, <2>4 DEF Claimable, Completed, Known, Entry
  <2>8. CASE CanClaim(e)
    <3>1. ~Pending(subagentRuns[r]) /\ Claimable(subagentRuns[r]) /\ r \notin orphans
      BY <1>2, <2>3, <2>6, <2>8 DEF CanClaim, Pending, Claimable, Known, RunInv, Flowing
    <3>2. FlowCount(r) = 0
      BY <1>2, <2>6, <3>1 DEF RunInv, Flowing
    <3>3. flows[r] = NoFlow /\ ~InQueue(r) /\ (fate[r] = "none" \/ r \in forgotten)
      BY <2>6, <3>1, <3>2, FlowStages DEF RegistryInv, RunInv, Once, Settled
    <3>4. \A s \in Stage : flows[r][s] = 0
      BY <3>3 DEF NoFlow
    <3>5. /\ flows' \in [Run -> [Stage -> Nat]]
          /\ \A k \in Run \ {r} : flows'[k] = flows[k]
          /\ \A s \in Stage : flows'[r][s] = IF s = "reading" THEN 1 ELSE 0
      BY <2>1, <2>8, <3>4 DEF RegistryInv, RegistryTypes, Stage
    <3>6. FlowCount(r)' = 1
      BY <3>5 DEF FlowCount, Stage
    <3>7. Flowing(r)'
      BY <2>4, <2>5, <2>8, <3>1, <3>6 DEF Flowing, Known, Pending
    <3>8. Saved(r)' /\ Down(r)'
      BY <2>4, <2>5, <2>8, <2>13 DEF Saved, Down, Pending
    <3>9. Unregistered(r)'
      BY <2>6 DEF RunInv, Unregistered
    <3>11. ~Completed(d) /\ ~Completed(e) /\ flows'[r]["announced"] = 0
      BY <2>3, <2>4, <2>8, <3>5 DEF Completed, CanClaim, Stage
    <3>12. Completed(disk'[r]) => fate[r] # "none"
      BY <2>6, <2>13, <3>11 DEF RunInv, Once, Completed
    <3>13. Once(r)'
      BY <2>5, <3>3, <3>11, <3>12 DEF Once, InQueue
    <3>10. RegistryTypes' /\ \A k \in Run \ {r} : Untouched(k)
      BY <2>5, <2>13, <2>14, <3>5 DEF RegistryInv, RegistryTypes
    <3> QED
      BY <3>7, <3>8, <3>9, <3>10, <3>13, OthersKeep DEF RunInv
  <2>9. CASE ~CanClaim(e)
    <3>1. flows' = flows /\ FlowCount(r)' = FlowCount(r) /\ FlowCount(r) \in Nat
      BY <2>1, <2>9, FlowStages DEF FlowCount, RegistryInv
    <3>2. Known(r)' => (Pending(d) <=> Pending(subagentRuns[r]))
      BY <1>2, <2>3, <2>4, <2>5, <2>9 DEF Pending, Known
    <3>3. Flowing(r)'
      BY <1>2, <2>5, <2>6, <3>1, <3>2 DEF RunInv, Flowing, Known
    <3>4. Saved(r)'
      BY <2>5, <2>7, <2>13, <3>1, <3>3 DEF Saved, Flowing, Known
    <3>5. Down(r)' /\ Unregistered(r)'
      BY <2>6 DEF Down, RunInv, Unregistered
    <3>6. Once(r)'
      <4>1. Settled(r) => Settled(r)'
        BY <2>5, <2>7, <3>1 DEF Settled
      <4>2. r \in unsaved' \/ ~Claimable(disk'[r])
        BY <2>7, <2>13
      <4>3. Completed(disk'[r]) => Completed(disk[r]) \/ Completed(subagentRuns[r])
        BY <2>7, <2>13 DEF Completed
      <4> QED
        BY <2>5, <2>6, <2>7, <3>1, <4>1, <4>2, <4>3 DEF Once, RunInv, InQueue
    <3>7. RegistryTypes' /\ \A k \in Run \ {r} : Untouched(k)
      BY <2>5, <2>13, <2>14, <3>1 DEF RegistryInv, RegistryTypes
    <3> QED
      BY <3>3, <3>4, <3>5, <3>6, <3>7, OthersKeep DEF RunInv
  <2> QED
    BY <2>8, <2>9
<1> QED
  BY <1>1, <1>2

\* A run that is being announced has not been, in this life of the process.
LEMMA NotYet ==
  ASSUME RegistryInv, NEW r \in Run, NEW from \in {"reading", "sending"}, flows[r][from] > 0
  PROVE  ~InQueue(r) /\ (fate[r] = "none" \/ r \in forgotten)
BY DEF RegistryInv, RunInv, Once, Settled

\* A flow goes on: it has announced the run, or nobody has.
LEMMA MoveStep ==
  ASSUME RegistryInv, NEW r \in Run, up,
         NEW from \in {"reading", "sending"}, NEW to \in {"sending", "announced", "failed"},
         from # to, Move(r, from, to),
         IF to = "announced" THEN fate'[r] # "none" ELSE fate'[r] = fate[r],
         \A k \in Run \ {r} : FatesGoOn(k),
         UNCHANGED <<registryVars, up, spawn, orphans, forgotten>>
  PROVE  RegistryInv'
<1>1. from \in Stage /\ to \in Stage /\ RunInv(r) /\ RegistryTypes
  BY DEF Stage, RegistryInv
<1>2. /\ flows' \in [Run -> [Stage -> Nat]]
      /\ flows[r][from] = 1 /\ \A s \in Stage \ {from} : flows[r][s] = 0
      /\ flows'[r][to] = 1 /\ \A s \in Stage \ {to} : flows'[r][s] = 0
      /\ FlowCount(r) = 1 /\ FlowCount(r)' = 1
      /\ \A k \in Run \ {r} : flows'[k] = flows[k]
  BY <1>1, FlowMoves
<1>3. ~InQueue(r) /\ (fate[r] = "none" \/ r \in forgotten)
  BY <1>2, NotYet
<1>0. UNCHANGED <<subagentRuns, disk, sweeping, unsaved>>
  BY DEF registryVars
<1>4. RegistryTypes'
  BY <1>0, <1>2 DEF RegistryInv, RegistryTypes
<1>5. Flowing(r)' /\ Saved(r)'
  BY <1>0, <1>1, <1>2 DEF RunInv, Flowing, Saved, Known
<1>6. Down(r)'
  BY DEF Down
<1>7. flows[r] # NoFlow /\ Unregistered(r)'
  BY <1>1, <1>2 DEF RunInv, Unregistered, NoFlow
<1>8. Once(r)'
  <2>1. /\ ~Claimable(subagentRuns[r]) /\ ~Completed(subagentRuns[r])
        /\ r \in unsaved \/ ~Claimable(disk[r])
    BY <1>1, <1>2 DEF RunInv, Flowing, Saved, Known, Claimable, Completed, CanClaim, Pending
  <2>2. CASE to = "announced"
    BY <1>0, <1>2, <2>1, <2>2 DEF Once, Settled, Stage
  <2>3. CASE to # "announced"
    <3>1. fate'[r] = fate[r] /\ flows'[r]["announced"] = 0 /\ ~InQueue(r)'
      BY <1>2, <1>3, <2>3 DEF InQueue, Stage
    <3> QED
      BY <1>0, <1>1, <1>3, <2>1, <3>1 DEF Once, RunInv
  <2> QED
    BY <2>2, <2>3
<1>9. \A k \in Run \ {r} : Untouched(k)
  BY <1>0, <1>2 DEF Untouched
<1> QED
  BY <1>4, <1>5, <1>6, <1>7, <1>8, <1>9, OthersKeep DEF RunInv

\* The end of a flow completes the cleanup, or gives the claim back.
LEMMA FinalizeStep ==
  ASSUME RegistryInv, NEW r \in Run, NEW stage \in Stage, Finalize(r, stage), fate' = fate
  PROVE  RegistryInv'
<1>1. /\ up /\ up' = up /\ sweeping' = sweeping /\ spawn' = spawn /\ orphans' = orphans
      /\ forgotten' = forgotten
      /\ stage \in {"announced", "failed"} /\ flows[r][stage] > 0
      /\ flows' = [flows EXCEPT ![r][stage] = @ - 1]
      /\ IF Known(r)
           THEN /\ subagentRuns' = [subagentRuns EXCEPT ![r] = Finalized(r, stage = "announced")]
                /\ Persist({})
           ELSE UNCHANGED <<subagentRuns, disk, unsaved>>
  BY DEF Finalize, Alive, childVars, historyVars
<1>2. /\ flows' \in [Run -> [Stage -> Nat]]
      /\ FlowCount(r) = 1 /\ FlowCount(r)' = 0
      /\ \A s \in Stage : flows'[r][s] = 0
      /\ \A k \in Run \ {r} : flows'[k] = flows[k]
  BY <1>1, FlowEnds DEF RegistryInv
<1>3. RunInv(r) /\ flows[r] # NoFlow /\ spawn[r] = "done"
  <2>1. flows[r] # NoFlow
    BY <1>1 DEF NoFlow
  <2> QED
    BY <2>1 DEF RegistryInv, RegistryTypes, RunInv, Unregistered
<1>4. stage = "announced" => fate[r] # "none"
  BY <1>1, <1>3 DEF RunInv, Once
<1>5. stage = "failed" => ~InQueue(r) /\ (fate[r] = "none" \/ r \in forgotten)
  BY <1>1, <1>3 DEF RunInv, Once, Settled
<1>6. CASE ~Known(r)
  <2>1. UNCHANGED <<subagentRuns, disk, unsaved>>
    BY <1>1, <1>6
  <2>2. Flowing(r)' /\ Saved(r)' /\ Down(r)' /\ Unregistered(r)'
    BY <1>1, <1>2, <1>3, <1>6, <2>1 DEF RunInv, Flowing, Saved, Down, Unregistered, Known
  <2>3. Once(r)'
    BY <1>1, <1>2, <1>3, <2>1 DEF RunInv, Once, Settled, InQueue, Stage
  <2>4. RegistryTypes' /\ \A k \in Run \ {r} : Untouched(k)
    BY <1>1, <1>2, <2>1 DEF RegistryInv, RegistryTypes, Untouched, FatesGoOn
  <2> QED
    BY <2>2, <2>3, <2>4, OthersKeep DEF RunInv
<1>7. CASE Known(r)
  <2> DEFINE e == Finalized(r, stage = "announced")
  <2>1. subagentRuns[r] \in Entry /\ subagentRuns[r].handled /\ ~subagentRuns[r].completed
        /\ r \notin orphans
    BY <1>1, <1>2, <1>3, <1>7 DEF RegistryInv, RegistryTypes, RunInv, Flowing, Pending, Known
  <2>2. /\ e \in Entry \cup {Absent} /\ ~Pending(e)
        /\ Completed(e) => stage = "announced"
        /\ Claimable(e) => stage = "failed"
    BY <1>1, <2>1 DEF Finalized, Entry, Pending, Completed, Claimable, CanClaim
  <2> HIDE DEF e
  <2>3. /\ subagentRuns'[r] = e /\ Persist({})
        /\ subagentRuns' \in [Run -> Entry \cup {Absent}]
        /\ \A k \in Run \ {r} : subagentRuns'[k] = subagentRuns[k]
    BY <1>1, <1>7, <2>2 DEF RegistryInv, RegistryTypes, e
  <2>7. /\ disk' \in [Run -> Entry \cup {Absent}] /\ unsaved' \subseteq Run
        /\ disk'[r] \in {e, disk[r], Absent} /\ (r \notin unsaved' => disk'[r] = e)
    BY <2>3, PersistOne DEF RegistryInv
  <2>4. Flowing(r)' /\ Saved(r)' /\ Down(r)' /\ Unregistered(r)'
    BY <1>1, <1>2, <1>3, <2>1, <2>2, <2>3, <2>7
       DEF RunInv, Flowing, Saved, Down, Unregistered, Known
  <2>5. Once(r)'
    <3>1. stage = "announced" => Settled(r)' /\ (r \in unsaved' \/ ~Claimable(disk'[r]))
      BY <1>1, <1>2, <2>2, <2>3, <2>7 DEF Settled, Stage
    <3>2. flows'[r]["announced"] = 0
      BY <1>2 DEF Stage
    <3>3. Completed(disk'[r]) => Completed(e) \/ Completed(disk[r])
      BY <2>7 DEF Completed
    <3> QED
      BY <1>1, <1>3, <1>4, <1>5, <2>2, <2>3, <3>1, <3>2, <3>3 DEF Once, RunInv, InQueue
  <2>6. RegistryTypes' /\ \A k \in Run \ {r} : Untouched(k)
    <3>1. RegistryTypes'
      BY <1>1, <1>2, <2>3, <2>7 DEF RegistryInv, RegistryTypes
    <3>2. ASSUME NEW k \in Run \ {r}
          PROVE  /\ disk'[k] \in {subagentRuns[k], disk[k], Absent}
                 /\ k \notin unsaved' => disk'[k] = subagentRuns[k]
      BY <2>3, PersistOthers DEF RegistryInv
    <3> QED
      BY <1>1, <1>2, <2>3, <3>1, <3>2 DEF Untouched, FatesGoOn
  <2> QED
    BY <2>4, <2>5, <2>6, OthersKeep DEF RunInv
<1> QED
  BY <1>6, <1>7

\* An entry goes from memory, and from the file at once or with the sweep.
LEMMA RemovalStep ==
  ASSUME RegistryInv, NEW r \in Run, up, Known(r),
         subagentRuns' = [subagentRuns EXCEPT ![r] = Absent],
         \/ Persist({}) /\ sweeping' = sweeping
         \/ disk' = disk /\ unsaved' = unsaved /\ sweeping' = TRUE,
         UNCHANGED <<up, spawn, flows, orphans, forgotten, fate>>
  PROVE  RegistryInv'
<1>1. /\ subagentRuns' \in [Run -> Entry \cup {Absent}] /\ subagentRuns'[r] = Absent
      /\ \A k \in Run \ {r} : subagentRuns'[k] = subagentRuns[k]
  BY DEF RegistryInv, RegistryTypes
<1>2. RunInv(r) /\ spawn[r] = "done" /\ FlowCount(r)' = FlowCount(r)
  BY DEF RegistryInv, RegistryTypes, RunInv, Unregistered, Known, FlowCount
<1>3. /\ RegistryTypes' /\ disk'[r] \in {Absent, disk[r]}
      /\ \/ r \notin unsaved' => disk'[r] = Absent
         \/ disk'[r] = disk[r] /\ unsaved' = unsaved /\ sweeping'
  <2>1. CASE Persist({})
    <3>1. /\ disk' \in [Run -> Entry \cup {Absent}] /\ unsaved' \subseteq Run
          /\ disk'[r] \in {Absent, disk[r]} /\ (r \notin unsaved' => disk'[r] = Absent)
      BY <1>1, <2>1, PersistOne DEF RegistryInv
    <3> QED
      BY <1>1, <2>1, <3>1 DEF RegistryInv, RegistryTypes
  <2>2. CASE disk' = disk /\ unsaved' = unsaved /\ sweeping' = TRUE
    BY <1>1, <2>2 DEF RegistryInv, RegistryTypes
  <2> QED
    BY <2>1, <2>2
<1>4. Flowing(r)' /\ Saved(r)' /\ Down(r)' /\ Unregistered(r)'
  BY <1>1, <1>2, <1>3 DEF RunInv, Flowing, Saved, Down, Unregistered, Known
<1>5. Once(r)'
  <2>1. /\ Settled(r) => Settled(r)'
        /\ r \in unsaved \/ ~Claimable(disk[r]) => r \in unsaved' \/ ~Claimable(disk'[r])
        /\ ~Completed(subagentRuns'[r]) /\ (Completed(disk'[r]) => Completed(disk[r]))
    BY <1>1, <1>3 DEF Settled, Claimable, Completed
  <2> QED
    BY <1>2, <2>1 DEF RunInv, Once, InQueue
<1>6. ASSUME NEW k \in Run \ {r} PROVE Untouched(k)
  <2>1. CASE Persist({})
    <3>1. /\ disk'[k] \in {subagentRuns[k], disk[k], Absent}
          /\ k \notin unsaved' => disk'[k] = subagentRuns[k]
      BY <1>1, <2>1, PersistOthers DEF RegistryInv
    <3> QED
      BY <1>1, <3>1 DEF Untouched, FatesGoOn
  <2>2. CASE disk' = disk /\ unsaved' = unsaved /\ sweeping' = TRUE
    BY <1>1, <2>2 DEF Untouched, FatesGoOn
  <2> QED
    BY <2>1, <2>2
<1> QED
  BY <1>3, <1>4, <1>5, <1>6, OthersKeep DEF RunInv

\* The process dies: memory is gone, the file tells who was claimed.
LEMMA CrashStep ==
  ASSUME RegistryInv, Crash, \A k \in Run : FatesGoOn(k) /\ ~InQueue(k)'
  PROVE  RegistryInv'
<1>1. /\ up /\ up' = FALSE /\ subagentRuns' = ToAll(Absent) /\ sweeping' = FALSE /\ disk' = disk
      /\ spawn' = [r \in Run |-> IF spawn[r] = "calling" THEN "done" ELSE spawn[r]]
      /\ flows' = ToAll(NoFlow) /\ orphans' = {r \in Run : Pending(disk[r])}
      /\ forgotten' = forgotten \cup unsaved /\ unsaved' = {}
  BY DEF Crash
<1>2. RegistryTypes'
  BY <1>1 DEF RegistryInv, RegistryTypes, ToAll, NoFlow
<1>3. ASSUME NEW r \in Run PROVE RunInv(r)'
  <2>1. /\ subagentRuns'[r] = Absent /\ flows'[r] = NoFlow /\ disk'[r] = disk[r]
        /\ r \in orphans' <=> Pending(disk[r])
        /\ spawn'[r] # "done" => spawn[r] = "none" /\ spawn'[r] = "none"
        /\ r \notin Tracked => (spawn[r] = "none" => spawn'[r] = "none")
    BY <1>1 DEF RegistryInv, RegistryTypes, ToAll
  <2>2. FlowCount(r)' = 0 /\ \A s \in Stage : flows'[r][s] = 0
    BY <2>1 DEF NoFlow, FlowCount, Stage
  <2>3. Flowing(r)' /\ Saved(r)' /\ Down(r)'
    BY <1>1, <2>1, <2>2 DEF Flowing, Saved, Down, Known
  <2>4. Once(r)'
    <3>1. Settled(r)' /\ flows'[r]["announced"] = 0 /\ ~Completed(subagentRuns'[r])
      BY <2>1, <2>2 DEF Settled, Stage, Claimable, Completed
    <3>2. fate'[r] # "none" <=> fate[r] # "none"
      BY DEF FatesGoOn
    <3> QED
      BY <1>1, <2>1, <3>1, <3>2 DEF RegistryInv, RunInv, Once
  <2>5. Unregistered(r)'
    BY <2>1 DEF RegistryInv, RunInv, Unregistered, Pending, FatesGoOn
  <2> QED
    BY <2>3, <2>4, <2>5 DEF RunInv
<1> QED
  BY <1>2, <1>3 DEF RegistryInv

\* The restart claims what has ended and nobody had claimed.
LEMMA RestartStep ==
  ASSUME RegistryInv, Restart, fate' = fate
  PROVE  RegistryInv'
<1> DEFINE ended == {r \in Run : disk[r] # Absent /\ disk[r].ended /\ CanClaim(disk[r])}
<1>1. /\ ~up /\ up' = TRUE /\ sweeping' = sweeping /\ spawn' = spawn /\ orphans' = orphans
      /\ forgotten' = forgotten
      /\ subagentRuns' = Resumed(ended)
      /\ IF ended = {} THEN UNCHANGED <<disk, unsaved>>
                       ELSE Persist({Resumed(rs) : rs \in SUBSET ended})
      /\ flows' = [r \in Run |-> IF r \in ended THEN [NoFlow EXCEPT !.reading = 1] ELSE NoFlow]
  BY DEF Restart, childVars
<1>2. ASSUME NEW rs \in SUBSET ended
      PROVE  /\ Resumed(rs) \in [Run -> Entry \cup {Absent}]
             /\ \A r \in Run : Resumed(rs)[r] = IF r \in rs THEN Claimed(disk[r]) ELSE disk[r]
  <2>1. \A r \in Run : disk[r] \in Entry \cup {Absent}
    BY DEF RegistryInv, RegistryTypes
  <2>2. \A r \in rs : Claimed(disk[r]) \in Entry
    BY <2>1, EntryFacts
  <2> QED
    BY <2>1, <2>2 DEF Resumed
<1>3. /\ subagentRuns' \in [Run -> Entry \cup {Absent}]
      /\ \A r \in Run : r \notin ended => subagentRuns'[r] = disk[r]
      /\ \A r \in ended : /\ r \in Run /\ subagentRuns'[r] = Claimed(disk[r])
                          /\ disk[r] # Absent /\ CanClaim(disk[r])
  BY <1>1, <1>2
<1>4. \A r \in ended : Pending(subagentRuns'[r]) \/ subagentRuns'[r] = Absent
  <2> SUFFICES ASSUME NEW r \in ended PROVE Pending(subagentRuns'[r]) \/ subagentRuns'[r] = Absent
    OBVIOUS
  <2>1. disk[r] \in Entry
    BY <1>3 DEF RegistryInv, RegistryTypes
  <2>2. Claimed(disk[r]) \in Entry /\ Claimed(disk[r]).handled /\ ~Claimed(disk[r]).completed
    BY <1>3, <2>1, EntryFacts
  <2> QED
    BY <1>3, <2>2 DEF Pending
<1>5. /\ disk' \in [Run -> Entry \cup {Absent}] /\ unsaved' \subseteq Run
      /\ \A r \in Run : /\ disk'[r] \in {subagentRuns'[r], disk[r], Absent}
                        /\ r \notin unsaved' => disk'[r] = subagentRuns'[r]
  <2>1. CASE ended = {}
    BY <1>1, <1>3, <2>1 DEF RegistryInv, RegistryTypes
  <2>2. CASE ended # {}
    <3> DEFINE earlier == {Resumed(rs) : rs \in SUBSET ended}
    <3>1. \A d \in earlier : /\ d \in [Run -> Entry \cup {Absent}]
                             /\ \A r \in Run : d[r] \in {subagentRuns'[r], disk[r]}
      BY <1>2, <1>3
    <3>2. Persist(earlier)
      BY <1>1, <2>2
    <3> HIDE DEF earlier, ended
    <3>3. \A d \in earlier \cup {disk, subagentRuns'} : d \in [Run -> Entry \cup {Absent}]
      BY <1>3, <3>1 DEF RegistryInv, RegistryTypes
    <3>4. /\ disk' \in [Run -> Entry \cup {Absent}] /\ unsaved' \subseteq Run
          /\ \A k \in Run : k \notin unsaved' => disk'[k] = subagentRuns'[k]
          /\ disk' \in earlier \cup {disk, subagentRuns', ToAll(Absent)}
          /\ \A k \in Run : ToAll(Absent)[k] = Absent
      BY <3>2, <3>3, PersistEffect
    <3> QED
      BY <3>1, <3>4
  <2> QED
    BY <2>1, <2>2
<1> HIDE DEF ended
<1>6. flows' \in [Run -> [Stage -> Nat]]
      /\ \A r \in Run, s \in Stage : flows'[r][s] = IF r \in ended /\ s = "reading" THEN 1 ELSE 0
  BY <1>1 DEF NoFlow, Stage
<1>7. RegistryTypes'
  BY <1>1, <1>3, <1>5, <1>6 DEF RegistryInv, RegistryTypes
<1>8. ASSUME NEW r \in Run PROVE RunInv(r)'
  <2>1. RunInv(r) /\ (r \in orphans <=> Pending(disk[r])) /\ r \notin unsaved /\ ~InQueue(r)
    BY <1>1 DEF RegistryInv, RunInv, Down
  <2>2. FlowCount(r)' = IF r \in ended THEN 1 ELSE 0
    BY <1>6 DEF FlowCount, Stage
  <2>3. r \in ended => /\ r \notin orphans /\ Claimable(disk[r])
                       /\ ~Completed(disk[r]) /\ ~Completed(subagentRuns'[r])
    BY <1>3, <1>4, <2>1 DEF Pending, Claimable, CanClaim, Completed
  <2>4. Flowing(r)'
    BY <1>1, <1>3, <1>4, <2>1, <2>2, <2>3 DEF Flowing, Known
  <2>5. Saved(r)' /\ Down(r)'
    BY <1>1, <1>4, <1>5, <2>2 DEF Saved, Down
  <2>6. Once(r)'
    <3>1. ~InQueue(r)' /\ flows'[r]["announced"] = 0
      BY <1>6, <2>1 DEF InQueue, Stage
    <3>2. Completed(subagentRuns'[r]) \/ Completed(disk'[r]) => Completed(disk[r])
      BY <1>3, <1>5, <2>3 DEF Completed
    <3>3. ~Claimable(disk[r]) => Settled(r)' /\ ~Claimable(disk'[r])
      BY <1>3, <1>5, <1>6, <2>3 DEF Settled, Stage, Claimable
    <3> QED
      BY <1>1, <2>1, <3>1, <3>2, <3>3 DEF RunInv, Once
  <2>7. Unregistered(r)'
    <3>1. spawn[r] # "done" => disk[r] = Absent /\ r \notin ended
      BY <1>3, <2>1 DEF RunInv, Unregistered
    <3>2. r \notin ended => flows'[r] = NoFlow
      BY <1>1
    <3> QED
      BY <1>1, <1>3, <1>5, <2>1, <3>1, <3>2 DEF RunInv, Unregistered
  <2> QED
    BY <2>4, <2>5, <2>6, <2>7 DEF RunInv
<1> QED
  BY <1>7, <1>8 DEF RegistryInv

\* A step that has nothing to do with entries and flows, or only saves them.
LEMMA ElsewhereStep ==
  ASSUME RegistryInv, up, UNCHANGED <<up, subagentRuns, spawn, flows, orphans, forgotten>>,
         sweeping' \in BOOLEAN,
         Persist({}) \/ UNCHANGED <<disk, unsaved, sweeping>>,
         \A k \in Run : FatesGoOn(k)
  PROVE  RegistryInv'
<1>1. CASE Persist({})
  <2>1. disk' \in [Run -> Entry \cup {Absent}] /\ unsaved' \subseteq Run
    BY <1>1, PersistEffect DEF RegistryInv, RegistryTypes
  <2>2. ASSUME NEW k \in Run
        PROVE  /\ disk'[k] \in {subagentRuns[k], disk[k], Absent}
               /\ k \notin unsaved' => disk'[k] = subagentRuns[k]
    BY <1>1, PersistOthers DEF RegistryInv, RegistryTypes
  <2>3. RegistryTypes' /\ \A k \in Run : Untouched(k)
    BY <2>1, <2>2 DEF RegistryInv, RegistryTypes, Untouched
  <2> QED
    BY <2>3, UntouchedKeeps DEF RegistryInv
<1>2. CASE UNCHANGED <<disk, unsaved, sweeping>>
  <2>1. RegistryTypes' /\ \A k \in Run : Untouched(k)
    BY <1>2 DEF RegistryInv, RegistryTypes, Untouched
  <2> QED
    BY <2>1, UntouchedKeeps DEF RegistryInv
<1> QED
  BY <1>1, <1>2

\* The first announcement of a run the registry is not modelled for.
LEMMA OtherStep ==
  ASSUME RegistryInv, NEW r \in Run \ Tracked, up,
         UNCHANGED <<registryVars, up, spawn, flows, orphans, forgotten>>,
         \A k \in Run \ {r} : FatesGoOn(k), fate'[r] # "none"
  PROVE  RegistryInv'
<1>1. RegistryTypes' /\ \A k \in Run \ {r} : Untouched(k)
  BY DEF RegistryInv, RegistryTypes, registryVars, Untouched
<1>2. /\ RunInv(r) /\ spawn[r] = "none" /\ subagentRuns[r] = Absent /\ disk[r] = Absent
      /\ flows[r] = NoFlow
  BY DEF RegistryInv, RunInv, Unregistered
<1>3. \A s \in Stage : flows[r][s] = 0
  BY <1>2 DEF NoFlow
<1>4. Flowing(r)' /\ Saved(r)' /\ Down(r)' /\ Unregistered(r)'
  BY <1>2 DEF RunInv, Flowing, Saved, Down, Unregistered, FlowCount, Known, registryVars
<1>5. Once(r)'
  BY <1>2, <1>3 DEF Once, Settled, Stage, Claimable, Completed, registryVars
<1> QED
  BY <1>1, <1>4, <1>5, OthersKeep DEF RunInv

-----------------------------------------------------------------------------
(***************************************************************************)
(* What the requester has heard, and who was refused.                      *)
(***************************************************************************)
\* What is told from the queue is told for the first time.
LEMMA QueueHeard ==
  ASSUME heard \in [Run -> Nat], \A k \in Run : HeardInv(k), \A k \in Run : FatesGoOn(k),
         HeardGoesOn, doubted' = doubted, forgotten \subseteq forgotten'
  PROVE  \A k \in Run : HeardInv(k)'
<1> SUFFICES ASSUME NEW k \in Run, heard'[k] > 0, k \notin doubted', k \notin forgotten'
             PROVE  heard'[k] = 1 /\ fate'[k] \notin {"none", "queued", "summarized"}
  BY DEF HeardInv, InQueue
<1>1. /\ heard[k] \in Nat /\ HeardInv(k) /\ FatesGoOn(k) /\ heard'[k] \in {heard[k], heard[k] + 1}
      /\ heard'[k] # heard[k] => /\ fate[k] \in {"queued", "summarized"}
                                 /\ fate'[k] \in {"told", "reported"}
      /\ k \notin forgotten
  BY DEF HeardGoesOn
<1>2. CASE heard'[k] = heard[k]
  BY <1>1, <1>2 DEF HeardInv, FatesGoOn, InQueue
<1>3. CASE heard'[k] # heard[k]
  <2>1. ~(heard[k] > 0)
    BY <1>1, <1>3 DEF HeardInv, InQueue
  <2> QED
    BY <1>1, <1>3, <2>1
<1> QED
  BY <1>2, <1>3

\* So is what an announcement of its own tells, unless it throws afterwards.
LEMMA FirstHeard ==
  ASSUME heard \in [Run -> Nat], \A k \in Run : HeardInv(k), NEW r \in Run,
         fate[r] = "none" \/ r \in forgotten,
         \A k \in Run \ {r} : heard'[k] = heard[k] /\ FatesGoOn(k),
         \/ heard'[r] = heard[r]
         \/ heard'[r] = heard[r] + 1 /\ fate'[r] = "told"
         \/ r \in doubted',
         doubted \subseteq doubted', forgotten' = forgotten
  PROVE  \A k \in Run : HeardInv(k)'
<1>1. HeardInv(r)'
  BY DEF HeardInv, InQueue
<1>2. \A k \in Run \ {r} : HeardInv(k)'
  BY DEF HeardInv, FatesGoOn, InQueue
<1> QED
  BY <1>1, <1>2

-----------------------------------------------------------------------------
(***************************************************************************)
(* The invariant.                                                          *)
(***************************************************************************)
IInv == QueueInv /\ RegistryInv /\ Refusals /\ \A k \in Run : HeardInv(k)

\* It holds initially.
LEMMA InitInv == Init => IInv
<1> SUFFICES ASSUME Init PROVE IInv
  OBVIOUS
<1>1. QueueInv
  BY InitQueue DEF Init
<1>2. RegistryTypes
  BY DEF Init, RegistryTypes, ToAll, NoFlow
<1>3. \A k \in Run : fate[k] = "none" /\ heard[k] = 0
  BY DEF Init, QueueInit
<1>4. ASSUME NEW k \in Run PROVE RunInv(k)
  <2>1. /\ up /\ subagentRuns[k] = Absent /\ disk[k] = Absent /\ flows[k] = NoFlow /\ orphans = {}
        /\ spawn[k] = "none"
    BY DEF Init, ToAll
  <2>2. FlowCount(k) = 0 /\ \A s \in Stage : flows[k][s] = 0
    BY <2>1 DEF NoFlow, FlowCount, Stage
  <2>3. Flowing(k) /\ Saved(k) /\ Down(k) /\ Unregistered(k)
    BY <1>3, <2>1, <2>2 DEF Flowing, Saved, Down, Unregistered, Known, InQueue, Pending
  <2>4. Once(k)
    BY <1>3, <2>1, <2>2 DEF Once, InQueue, Completed, Stage
  <2> QED
    BY <2>3, <2>4 DEF RunInv
<1>5. Refusals /\ \A k \in Run : HeardInv(k)
  BY <1>3 DEF HeardInv, Refusals
<1> QED
  BY <1>1, <1>2, <1>4, <1>5 DEF IInv, RegistryInv

\* Who is refused now, and was not, is so by a policy that somebody set.
LEMMA RefusalsKeep ==
  ASSUME Refusals,
         \A k \in Run : \/ FatesGoOn(k) \/ fate'[k] # "refused"
                        \/ \E s \in Settings : s.drop = "new"
  PROVE  Refusals'
BY DEF Refusals, FatesGoOn

\* A step that leaves the queue alone and nobody hears of.
LEMMA SilentStep ==
  ASSUME IInv, RegistryInv', UNCHANGED <<queue, pc, forced, batch, fate, heard>>,
         doubted' = doubted, forgotten' = forgotten
  PROVE  IInv'
<1>1. heard \in [Run -> Nat]
  BY DEF IInv, QueueInv, QueueTypes, QueueTypeOK
<1>2. QueueInv' /\ \A k \in Run : FatesGoOn(k)
  BY <1>1, QueueAlone DEF IInv
<1>3. Refusals' /\ \A k \in Run : HeardInv(k)'
  BY DEF IInv, HeardInv, InQueue, Refusals
<1> QED
  BY <1>2, <1>3 DEF IInv

\* An announcement that goes into the queue, or is refused.
LEMMA QueuedStep ==
  ASSUME IInv, NEW r \in Run, NEW s \in Settings, EnqueueAnnounce(r, s), ~InQueue(r),
         fate[r] = "none" \/ r \in forgotten, doubted' = doubted, forgotten' = forgotten
  PROVE  /\ QueueInv' /\ Refusals' /\ \A k \in Run : HeardInv(k)'
         /\ fate'[r] # "none" /\ \A k \in Run \ {r} : FatesGoOn(k)
<1>1. QueueInv' /\ fate'[r] # "none" /\ \A k \in Run \ {r} : FatesGoOn(k)
  BY EnqueueKeeps DEF IInv
<1>2. heard' = heard /\ heard \in [Run -> Nat]
  BY EnqueueEffect DEF IInv, QueueInv, QueueTypes, QueueTypeOK
<1>3. \A k \in Run : HeardInv(k)'
  BY <1>1, <1>2, FirstHeard DEF IInv
<1>4. fate'[r] = "refused" => s.drop = "new"
  <2>1. \A S, v : Mark(S, v) = [k \in Run |-> IF k \in S THEN v ELSE fate[k]]
    BY DEF Mark
  <2>2. QueueTypes
    BY DEF IInv, QueueInv
  <2>3. s.drop = "new" \/ fate'[r] = "queued"
    BY <2>1, <2>2, EnqueueEffect
  <2> QED
    BY <2>3
<1>5. Refusals'
  BY <1>1, <1>4, RefusalsKeep DEF IInv
<1> QED
  BY <1>1, <1>3, <1>5

\* Every step of a run keeps it.
LEMMA RunKeeps ==
  ASSUME IInv, NEW r \in Run, RunStep(r)
  PROVE  IInv'
<1>0. /\ QueueInv /\ RegistryInv /\ Refusals /\ \A k \in Run : HeardInv(k)
      /\ heard \in [Run -> Nat] /\ sweeping \in BOOLEAN
  BY DEF IInv, QueueInv, QueueTypes, QueueTypeOK, RegistryInv, RegistryTypes
<1>1. CASE Spawn(r)
  <2>1. /\ UNCHANGED <<queue, pc, forced, batch, fate, heard>>
        /\ doubted' = doubted /\ forgotten' = forgotten
    BY <1>1 DEF Spawn, queueVars, historyVars
  <2> QED
    BY <1>0, <1>1, <2>1, SpawnStep, SilentStep
<1>2. ASSUME NEW c \in Cleanup, Register(r, c) PROVE IInv'
  <2>1. /\ UNCHANGED <<queue, pc, forced, batch, fate, heard>>
        /\ doubted' = doubted /\ forgotten' = forgotten
    BY <1>2 DEF Register, queueVars, historyVars
  <2> QED
    BY <1>0, <1>2, <2>1, RegisterStep, SilentStep
<1>15. CASE ChildStarts(r)
  <2>1. /\ UNCHANGED <<queue, pc, forced, batch, fate, heard>> /\ doubted' = doubted
        /\ up /\ UNCHANGED <<up, subagentRuns, sweeping, spawn, flows, orphans, forgotten>>
        /\ Persist({})
    BY <1>15 DEF ChildStarts, Alive, queueVars, childVars, historyVars
  <2>2. \A k \in Run : FatesGoOn(k)
    BY <2>1 DEF FatesGoOn
  <2>3. RegistryInv'
    BY <1>0, <2>1, <2>2, ElsewhereStep
  <2> QED
    BY <2>1, <2>3, SilentStep
<1>3. ASSUME NEW last \in BOOLEAN, ChildEvent(r, last) PROVE IInv'
  <2>1. /\ UNCHANGED <<queue, pc, forced, batch, fate, heard>> /\ doubted' = doubted
        /\ up /\ Learn(r) /\ UNCHANGED <<up, sweeping, spawn, orphans, forgotten>>
    BY <1>3 DEF ChildEvent, Alive, queueVars, historyVars
  <2> QED
    BY <1>0, <2>1, LearnStep, SilentStep
<1>4. CASE WaitReturns(r)
  <2>1. /\ UNCHANGED <<queue, pc, forced, batch, fate, heard>> /\ doubted' = doubted
        /\ up /\ Learn(r) /\ UNCHANGED <<up, sweeping, spawn, orphans, forgotten>>
    BY <1>4 DEF WaitReturns, Alive, queueVars, childVars, historyVars
  <2> QED
    BY <1>0, <2>1, LearnStep, SilentStep
<1>5. CASE WaitTimesOut(r)
  <2>1. /\ UNCHANGED <<queue, pc, forced, batch, fate, heard>> /\ doubted' = doubted
        /\ up /\ UNCHANGED <<up, subagentRuns, disk, sweeping, unsaved, spawn, flows, orphans,
                             forgotten>>
    BY <1>5 DEF WaitTimesOut, Alive, queueVars, registryVars, childVars, historyVars
  <2>2. \A k \in Run : FatesGoOn(k)
    BY <2>1 DEF FatesGoOn
  <2>3. RegistryInv'
    BY <1>0, <2>1, <2>2, ElsewhereStep
  <2> QED
    BY <2>1, <2>3, SilentStep
<1>6. ASSUME NEW s \in Settings, FlowQueues(r, s) PROVE IInv'
  <2>1. /\ up /\ Move(r, "reading", "announced") /\ EnqueueAnnounce(r, s)
        /\ UNCHANGED <<registryVars, up, spawn, orphans, forgotten>> /\ doubted' = doubted
    BY <1>6 DEF FlowQueues, Alive, childVars, historyVars
  <2>2. ~InQueue(r) /\ (fate[r] = "none" \/ r \in forgotten)
    BY <1>0, <2>1, NotYet DEF Move
  <2>3. /\ QueueInv' /\ Refusals' /\ \A k \in Run : HeardInv(k)'
        /\ fate'[r] # "none" /\ \A k \in Run \ {r} : FatesGoOn(k)
    BY <2>1, <2>2, QueuedStep
  <2>4. RegistryInv'
    BY <1>0, <2>1, <2>3, MoveStep
  <2> QED
    BY <2>3, <2>4 DEF IInv
<1>7. ASSUME NEW from \in {"reading", "sending"}, up, Move(r, from, "announced"),
             heard' = [heard EXCEPT ![r] = @ + 1], fate' = Mark({r}, "told"),
             UNCHANGED <<queue, pc, forced, batch, registryVars, up, spawn, orphans, doubted,
                         forgotten>>
      PROVE  IInv'
  <2>1. ~InQueue(r) /\ (fate[r] = "none" \/ r \in forgotten)
    BY <1>0, <1>7, NotYet DEF Move
  <2>2. heard' \in [Run -> Nat] /\ heard'[r] = heard[r] + 1
        /\ \A k \in Run \ {r} : heard'[k] = heard[k]
    BY <1>0, <1>7
  <2>3. QueueInv' /\ fate'[r] = "told" /\ \A k \in Run \ {r} : FatesGoOn(k)
    BY <1>0, <1>7, <2>1, <2>2, ToldKeeps
  <2>4. RegistryInv'
    BY <1>0, <1>7, <2>3, MoveStep
  <2>5. \A k \in Run : HeardInv(k)'
    BY <1>0, <1>7, <2>1, <2>2, <2>3, FirstHeard
  <2>6. Refusals'
    BY <1>0, <2>3, RefusalsKeep
  <2> QED
    BY <2>3, <2>4, <2>5, <2>6 DEF IInv
<1>8. ASSUME NEW s \in Settings, FlowSteers(r, s) PROVE IInv'
  BY <1>7, <1>8 DEF FlowSteers, Alive, childVars, historyVars
<1>9. CASE DirectDone(r)
  BY <1>7, <1>9 DEF DirectDone, Alive, childVars, historyVars
<1>10. CASE FlowSends(r)
  <2>1. /\ up /\ Move(r, "reading", "sending")
        /\ UNCHANGED <<registryVars, up, spawn, orphans, forgotten>>
        /\ UNCHANGED <<queue, pc, forced, batch, fate, heard>> /\ doubted' = doubted
    BY <1>10 DEF FlowSends, Alive, queueVars, childVars, historyVars
  <2>2. RegistryInv'
    BY <1>0, <2>1, MoveStep DEF FatesGoOn
  <2> QED
    BY <2>1, <2>2, SilentStep
<1>11. CASE FlowFails(r)
  <2>1. /\ up /\ Move(r, "reading", "failed")
        /\ UNCHANGED <<registryVars, up, spawn, orphans, forgotten>>
        /\ UNCHANGED <<queue, pc, forced, batch, fate, heard>> /\ doubted' = doubted
    BY <1>11 DEF FlowFails, Alive, queueVars, childVars
  <2>2. RegistryInv'
    BY <1>0, <2>1, MoveStep DEF FatesGoOn
  <2> QED
    BY <2>1, <2>2, SilentStep
<1>12. ASSUME NEW told \in BOOLEAN, DirectFails(r, told) PROVE IInv'
  <2>1. /\ up /\ Move(r, "sending", "failed")
        /\ heard' = [heard EXCEPT ![r] = @ + (IF told THEN 1 ELSE 0)]
        /\ doubted' = IF told THEN doubted \cup {r} ELSE doubted
        /\ UNCHANGED <<registryVars, up, spawn, orphans, forgotten>>
        /\ UNCHANGED <<queue, pc, forced, batch, fate>>
    BY <1>12 DEF DirectFails, Alive, childVars
  <2>2. RegistryInv'
    BY <1>0, <2>1, MoveStep DEF FatesGoOn
  <2>6. fate[r] = "none" \/ r \in forgotten
    BY <1>0, <2>1, NotYet DEF Move
  <2>3. heard' \in [Run -> Nat] /\ (heard'[r] = heard[r] \/ r \in doubted')
        /\ \A k \in Run \ {r} : heard'[k] = heard[k]
    BY <1>0, <2>1
  <2>4. QueueInv' /\ \A k \in Run : FatesGoOn(k)
    BY <1>0, <2>1, <2>3, QueueAlone
  <2>5. \A k \in Run : HeardInv(k)'
    BY <1>0, <2>1, <2>3, <2>4, <2>6, FirstHeard
  <2>7. Refusals'
    BY <1>0, <2>4, RefusalsKeep
  <2> QED
    BY <2>2, <2>4, <2>5, <2>7 DEF IInv
<1>13. ASSUME NEW stage \in Stage, Finalize(r, stage) PROVE IInv'
  <2>1. /\ UNCHANGED <<queue, pc, forced, batch, fate, heard>>
        /\ doubted' = doubted /\ forgotten' = forgotten
    BY <1>13 DEF Finalize, queueVars, historyVars
  <2> QED
    BY <1>0, <1>13, <2>1, FinalizeStep, SilentStep
<1>14. CASE Release(r) \/ Archive(r)
  <2>1. /\ up /\ Known(r) /\ subagentRuns' = [subagentRuns EXCEPT ![r] = Absent]
        /\ \/ Persist({}) /\ sweeping' = sweeping
           \/ disk' = disk /\ unsaved' = unsaved /\ sweeping' = TRUE
        /\ UNCHANGED <<up, spawn, flows, orphans, forgotten, fate>>
        /\ UNCHANGED <<queue, pc, forced, batch, fate, heard>> /\ doubted' = doubted
    BY <1>14 DEF Release, Archive, Alive, queueVars, childVars
  <2> QED
    BY <1>0, <2>1, RemovalStep, SilentStep
<1> QED
  BY <1>1, <1>2, <1>3, <1>4, <1>5, <1>6, <1>8, <1>9, <1>10, <1>11, <1>12, <1>13, <1>14, <1>15
     DEF RunStep

\* Every step keeps it.
LEMMA StepInv == IInv /\ [Next]_vars => IInv'
<1> SUFFICES ASSUME IInv, [Next]_vars PROVE IInv'
  OBVIOUS
<1>0. /\ QueueInv /\ RegistryInv /\ Refusals /\ \A k \in Run : HeardInv(k)
      /\ heard \in [Run -> Nat] /\ sweeping \in BOOLEAN
  BY DEF IInv, QueueInv, QueueTypes, QueueTypeOK, RegistryInv, RegistryTypes
<1>1. ASSUME NEW r \in Run, NEW s \in Settings, OtherQueues(r, s) PROVE IInv'
  <2>1. /\ up /\ r \notin Tracked /\ fate[r] = "none" /\ EnqueueAnnounce(r, s)
        /\ UNCHANGED <<registryVars, up, spawn, flows, orphans, forgotten>> /\ doubted' = doubted
    BY <1>1 DEF OtherQueues, Alive, childVars, historyVars
  <2>2. /\ QueueInv' /\ Refusals' /\ \A k \in Run : HeardInv(k)'
        /\ fate'[r] # "none" /\ \A k \in Run \ {r} : FatesGoOn(k)
    BY <2>1, QueuedStep DEF InQueue
  <2>3. RegistryInv'
    BY <1>0, <2>1, <2>2, OtherStep
  <2> QED
    BY <2>2, <2>3 DEF IInv
<1>2. CASE SweepEnds \/ RequesterTurn
  <2>1. /\ up /\ UNCHANGED <<up, subagentRuns, spawn, flows, orphans, forgotten>>
        /\ sweeping' \in BOOLEAN
        /\ Persist({}) \/ UNCHANGED <<disk, unsaved, sweeping>>
        /\ UNCHANGED <<queue, pc, forced, batch, fate, heard>> /\ doubted' = doubted
    BY <1>0, <1>2 DEF SweepEnds, RequesterTurn, Alive, queueVars, registryVars, childVars, historyVars
  <2>2. \A k \in Run : FatesGoOn(k)
    BY <2>1 DEF FatesGoOn
  <2>3. RegistryInv'
    BY <1>0, <2>1, <2>2, ElsewhereStep
  <2> QED
    BY <2>1, <2>3, SilentStep
<1>3. CASE Drain
  <2>1. /\ up /\ UNCHANGED <<up, subagentRuns, disk, unsaved, sweeping, spawn, flows, orphans,
                             forgotten>>
        /\ doubted' = doubted
        /\ Turn \/ SendDone \/ SendFails
    BY <1>3 DEF Drain, Alive, registryVars, childVars, historyVars
  <2>2. QueueInv' /\ HeardGoesOn /\ \A k \in Run : FatesGoOn(k)
    BY <1>0, <2>1, TurnKeeps, SentKeeps DEF HeardGoesOn
  <2>3. RegistryInv'
    BY <1>0, <2>1, <2>2, ElsewhereStep
  <2>4. \A k \in Run : HeardInv(k)'
    BY <1>0, <2>1, <2>2, QueueHeard
  <2>5. Refusals'
    BY <1>0, <2>2, RefusalsKeep
  <2> QED
    BY <2>2, <2>3, <2>4, <2>5 DEF IInv
<1>4. CASE Crash
  <2>1. QueueLost /\ doubted' = doubted /\ forgotten \subseteq forgotten'
    BY <1>4 DEF Crash
  <2>2. QueueInv' /\ heard' = heard /\ \A k \in Run : FatesGoOn(k) /\ ~InQueue(k)'
    BY <1>0, <2>1, LossKeeps
  <2>3. RegistryInv'
    BY <1>0, <1>4, <2>2, CrashStep
  <2>4. \A k \in Run : HeardInv(k)'
    BY <1>0, <2>1, <2>2, QueueHeard DEF HeardGoesOn
  <2>5. Refusals'
    BY <1>0, <2>2, RefusalsKeep
  <2> QED
    BY <2>2, <2>3, <2>4, <2>5 DEF IInv
<1>5. CASE Restart
  <2>1. /\ UNCHANGED <<queue, pc, forced, batch, fate, heard>>
        /\ doubted' = doubted /\ forgotten' = forgotten
    BY <1>5 DEF Restart, queueVars
  <2> QED
    BY <1>0, <1>5, <2>1, RestartStep, SilentStep
<1>6. CASE UNCHANGED vars
  <2>1. /\ UNCHANGED <<queue, pc, forced, batch, fate, heard>> /\ doubted' = doubted
        /\ UNCHANGED <<up, subagentRuns, disk, sweeping, unsaved, spawn, flows, orphans, forgotten>>
    BY <1>6 DEF vars
  <2>2. RegistryTypes'
    BY <1>0, <2>1 DEF RegistryInv, RegistryTypes
  <2>3. \A k \in Run : RunInv(k)'
    BY <1>0, <2>1 DEF RegistryInv, RunInv, Flowing, Saved, Down, Once, Settled, Unregistered,
                      FlowCount, Known, InQueue
  <2> QED
    BY <2>1, <2>2, <2>3, SilentStep DEF RegistryInv
<1> QED
  BY <1>1, <1>2, <1>3, <1>4, <1>5, <1>6, RunKeeps DEF Next

\* The inductive invariant, and with it each of its parts, always holds.
THEOREM InvTheorem == Spec => []IInv
BY InitInv, StepInv, PTL DEF Spec

\* Every announcement the queue has accepted and not sent is in one place, or
\* counted for a summary, and has a drain to move it.
THEOREM KeptTheorem == Spec => []AnnouncementsKept
<1>1. IInv => AnnouncementsKept
  BY QueueInvKeeps DEF IInv
<1> QED
  BY <1>1, InvTheorem, PTL

\* Of those who learn of an end exactly one announces it.
THEOREM ClaimTheorem == Spec => []ClaimHasFlow
<1>1. IInv => ClaimHasFlow
  BY DEF IInv, RegistryInv, RunInv, Flowing, ClaimHasFlow
<1> QED
  BY <1>1, InvTheorem, PTL

\* A cleanup is completed only after the result was told or taken into the queue, or
\* refused by a queue whose policy is "new".
THEOREM AnnouncedTheorem == Spec => []CompletedIsAnnounced
<1>1. IInv => CompletedIsAnnounced
  BY DEF IInv, RegistryInv, RunInv, Once, Completed, Known, Refusals, CompletedIsAnnounced
<1> QED
  BY <1>1, InvTheorem, PTL

\* The requester hears of a subagent at most once, through crashes and restarts,
\* unless a call threw that had been heard, or the process died after a save of the
\* run had failed.
THEOREM HeardTheorem == Spec => []HeardOnce
<1>1. IInv => HeardOnce
  <2> SUFFICES ASSUME IInv, NEW r \in Run, heard[r] > 1 PROVE r \in doubted \cup forgotten
    BY DEF HeardOnce
  <2>1. heard[r] \in Nat /\ HeardInv(r)
    BY DEF IInv, QueueInv, QueueTypes, QueueTypeOK
  <2> QED
    BY <2>1 DEF HeardInv
<1> QED
  BY <1>1, InvTheorem, PTL

\* The file never offers again what has been announced, unless a save of it failed.
THEOREM DiskTheorem == Spec => []DiskRemembers
<1>1. IInv => DiskRemembers
  BY DEF IInv, RegistryInv, RunInv, Once, Claimable, DiskRemembers
<1> QED
  BY <1>1, InvTheorem, PTL

\* The types of what the registry does not keep.
OtherTypes ==
  /\ child \in [Run -> {"none", "running", "over"}]
  /\ retried \in [Run -> BOOLEAN] /\ cached \in [Run -> BOOLEAN]
  /\ waiter \in [Run -> {"none", "waiting", "answered"}]
  /\ active \in BOOLEAN /\ runningCount \in Nat /\ crashes \in 0 .. MaxCrashes
  /\ lost \subseteq Run /\ doubted \subseteq Run

\* Every step keeps them.
LEMMA StepOtherTypes == OtherTypes /\ [Next]_vars => OtherTypes'
<1> SUFFICES ASSUME OtherTypes, [Next]_vars PROVE OtherTypes'
  OBVIOUS
<1> USE DEF OtherTypes, childVars, historyVars
<1>1. ASSUME NEW r \in Run, RunStep(r) PROVE OtherTypes'
  <2>1. CASE Spawn(r)
    BY <2>1 DEF Spawn
  <2>2. ASSUME NEW c \in Cleanup, Register(r, c) PROVE OtherTypes'
    BY <2>2 DEF Register, AskWait
  <2>3. ASSUME NEW last \in BOOLEAN, ChildEvent(r, last) PROVE OtherTypes'
    BY <2>3 DEF ChildEvent
  <2>4. CASE WaitReturns(r) \/ WaitTimesOut(r) \/ ChildStarts(r)
    BY <2>4 DEF WaitReturns, WaitTimesOut, ChildStarts
  <2>5. ASSUME NEW s \in Settings, FlowQueues(r, s) \/ FlowSteers(r, s) PROVE OtherTypes'
    BY <2>5 DEF FlowQueues, FlowSteers
  <2>6. CASE FlowSends(r) \/ FlowFails(r) \/ DirectDone(r)
    BY <2>6 DEF FlowSends, FlowFails, DirectDone
  <2>7. ASSUME NEW told \in BOOLEAN, DirectFails(r, told) PROVE OtherTypes'
    BY <2>7 DEF DirectFails
  <2>8. ASSUME NEW stage \in Stage, Finalize(r, stage) PROVE OtherTypes'
    BY <2>8 DEF Finalize
  <2>9. CASE Release(r) \/ Archive(r)
    BY <2>9 DEF Release, Archive
  <2> QED
    BY <1>1, <2>1, <2>2, <2>3, <2>4, <2>5, <2>6, <2>7, <2>8, <2>9 DEF RunStep
<1>2. ASSUME NEW r \in Run, NEW s \in Settings, OtherQueues(r, s) PROVE OtherTypes'
  BY <1>2 DEF OtherQueues
<1>3. CASE SweepEnds \/ RequesterTurn \/ Drain
  BY <1>3 DEF SweepEnds, RequesterTurn, Drain
<1>4. CASE Crash
  <2>1. crashes' \in 0 .. MaxCrashes /\ runningCount' \in Nat
    BY <1>4 DEF Crash
  <2>2. cached' \in [Run -> BOOLEAN] /\ retried' \in [Run -> BOOLEAN] /\ active' \in BOOLEAN
    BY <1>4 DEF Crash, ToAll
  <2>3. /\ child' \in [Run -> {"none", "running", "over"}]
        /\ waiter' \in [Run -> {"none", "waiting", "answered"}]
        /\ lost' \subseteq Run /\ doubted' \subseteq Run
    BY <1>4 DEF Crash, ToAll
  <2> QED
    BY <2>1, <2>2, <2>3
<1>5. CASE Restart
  BY <1>5 DEF Restart
<1>6. CASE UNCHANGED vars
  BY <1>6 DEF vars
<1> QED
  BY <1>1, <1>2, <1>3, <1>4, <1>5, <1>6 DEF Next

\* Every variable has its type in every reachable state.
THEOREM TypesTheorem == Spec => []TypeOK
<1>1. Init => OtherTypes
  <2> SUFFICES ASSUME Init PROVE OtherTypes
    OBVIOUS
  <2>1. cached \in [Run -> BOOLEAN] /\ retried \in [Run -> BOOLEAN] /\ active \in BOOLEAN
    BY DEF Init, ToAll
  <2>2. crashes \in 0 .. MaxCrashes /\ runningCount \in Nat
    BY DEF Init
  <2>3. /\ child \in [Run -> {"none", "running", "over"}]
        /\ waiter \in [Run -> {"none", "waiting", "answered"}]
        /\ lost \subseteq Run /\ doubted \subseteq Run
    BY DEF Init, ToAll
  <2> QED
    BY <2>1, <2>2, <2>3 DEF OtherTypes
<1>2. IInv /\ OtherTypes => TypeOK
  BY DEF IInv, QueueInv, QueueTypes, RegistryInv, RegistryTypes, OtherTypes, TypeOK
<1> QED
  BY <1>1, <1>2, StepOtherTypes, InvTheorem, PTL DEF Spec
=============================================================================
