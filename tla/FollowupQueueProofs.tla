------------------------- MODULE FollowupQueueProofs -------------------------
(***************************************************************************)
(* Proofs about FollowupQueue.                                             *)
(***************************************************************************)
EXTENDS FollowupQueue, SequenceTheorems, FiniteSetTheorems, TLAPS

USE NoneAssumption, SettingsAssumption

\* TypeOK, with the sequences TLC cannot enumerate.
Types ==
  /\ current \in Msg \cup {None}
  /\ queues \in [Msg -> Queue]
  /\ pc \in [Msg -> {"idle", "debounce", "running"}]
  /\ forced \in [Msg -> BOOLEAN]
  /\ batch \in [Msg -> [items : Seq(Msg), summary : SUBSET Msg]]
  /\ isActive \in [Msg -> BOOLEAN]
  /\ fate \in [Msg -> Fate]
  /\ home \in [Msg -> Msg \cup {None}]
  /\ reply \in [Msg -> RunState] /\ followup \in [Msg -> RunState]
  /\ external \in RunState /\ externals \in Nat

\* A message that has not been dispatched has left no trace: no object is its.
Untouched ==
  \A m \in Msg : fate[m] \in {"new", "checked"} =>
    /\ current # m /\ pc[m] = "idle" /\ followup[m] = "none"
    /\ \A k \in Msg : home[k] # m

Distinct(s) == \A i, j \in DOMAIN s : s[i] = s[j] => i = j

\* The messages waiting in an object, as their fates and homes tell them.
Waiting(o) == {m \in Msg : fate[m] = "queued" /\ home[m] = o}

ItemsAreWaiting ==
  \A o \in Msg : Distinct(queues[o].items) /\ Elements(queues[o].items) = Waiting(o)

IInv ==
  Types /\ Untouched /\ OneDrainPerObject /\ ItemsAreWaiting /\ CollectKeepsRouting

-----------------------------------------------------------------------------
(***************************************************************************)
(* Sequences of messages.                                                  *)
(***************************************************************************)
\* The elements of a sequence of messages are messages.
LEMMA ElementsType == ASSUME NEW s \in Seq(Msg) PROVE Elements(s) \subseteq Msg
BY DEF Elements

\* A message more at the end.
LEMMA Appended ==
  ASSUME NEW s \in Seq(Msg), NEW m \in Msg
  PROVE  /\ Append(s, m) \in Seq(Msg)
         /\ Elements(Append(s, m)) = Elements(s) \cup {m}
         /\ Distinct(s) /\ m \notin Elements(s) => Distinct(Append(s, m))
         /\ Len(Append(s, m)) = Len(s) + 1
<1>1. /\ Append(s, m) \in Seq(Msg) /\ Len(Append(s, m)) = Len(s) + 1
      /\ DOMAIN s = 1 .. Len(s) /\ DOMAIN Append(s, m) = 1 .. Len(s) + 1
      /\ Len(s) \in Nat
      /\ \A i \in 1 .. Len(s) : Append(s, m)[i] = s[i]
      /\ Append(s, m)[Len(s) + 1] = m
  OBVIOUS
<1> DEFINE t == Append(s, m)
<1> HIDE DEF t
<1>2. Elements(t) = Elements(s) \cup {m}
  BY <1>1 DEF Elements, t
<1>3. Distinct(s) /\ m \notin Elements(s) => Distinct(t)
  BY <1>1 DEF Elements, Distinct, t
<1> QED
  BY <1>1, <1>2, <1>3 DEF t

\* A sequence cut in two after its first n elements.
LEMMA CutInTwo ==
  ASSUME NEW s \in Seq(Msg), NEW n \in 0 .. Len(s)
  PROVE  /\ SubSeq(s, 1, n) \in Seq(Msg) /\ SubSeq(s, n + 1, Len(s)) \in Seq(Msg)
         /\ Elements(s) = Elements(SubSeq(s, 1, n)) \cup Elements(SubSeq(s, n + 1, Len(s)))
         /\ Len(SubSeq(s, n + 1, Len(s))) = Len(s) - n
         /\ Distinct(s) =>
              /\ Elements(SubSeq(s, 1, n)) \cap Elements(SubSeq(s, n + 1, Len(s))) = {}
              /\ Distinct(SubSeq(s, n + 1, Len(s)))
<1> DEFINE t == SubSeq(s, 1, n)
           u == SubSeq(s, n + 1, Len(s))
<1>1. /\ t \in Seq(Msg) /\ Len(t) = n /\ \A i \in 1 .. n : t[i] = s[i]
      /\ u \in Seq(Msg) /\ Len(u) = Len(s) - n /\ \A i \in 1 .. Len(s) - n : u[i] = s[n + i]
  OBVIOUS
<1>2. DOMAIN s = 1 .. Len(s) /\ DOMAIN t = 1 .. n /\ DOMAIN u = 1 .. Len(s) - n
  BY <1>1
<1> HIDE DEF t, u
<1>0. n \in Nat /\ Len(s) \in Nat /\ n <= Len(s)
  OBVIOUS
<1>7. /\ \A x : x \in Elements(s) <=> \E i \in 1 .. Len(s) : x = s[i]
      /\ \A x : x \in Elements(t) <=> \E i \in 1 .. n : x = s[i]
      /\ \A x : x \in Elements(u) <=> \E i \in 1 .. Len(s) - n : x = s[n + i]
  <2>1. /\ Elements(s) = {s[i] : i \in 1 .. Len(s)} /\ Elements(t) = {t[i] : i \in 1 .. n}
        /\ Elements(u) = {u[i] : i \in 1 .. Len(s) - n}
    BY <1>2 DEF Elements
  <2>2. {t[i] : i \in 1 .. n} = {s[i] : i \in 1 .. n}
    BY <1>1
  <2>3. {u[i] : i \in 1 .. Len(s) - n} = {s[n + i] : i \in 1 .. Len(s) - n}
    <3> DEFINE D == 1 .. Len(s) - n
               v(i) == s[n + i]
    <3>1. \A i \in D : u[i] = v(i)
      BY <1>1
    <3> HIDE DEF D, v
    <3>2. {u[i] : i \in D} = {v(i) : i \in D}
      BY <3>1
    <3> QED
      BY <3>2 DEF D, v
  <2> QED
    BY <2>1, <2>2, <2>3
<1>3. Elements(t) \cup Elements(u) \subseteq Elements(s)
  <2>1. /\ \A i \in 1 .. n : i \in 1 .. Len(s)
        /\ \A i \in 1 .. Len(s) - n : n + i \in 1 .. Len(s)
    BY <1>0
  <2> QED
    BY <1>7, <2>1
<1>4. ASSUME NEW m \in Elements(s) PROVE m \in Elements(t) \cup Elements(u)
  <2>1. PICK i \in 1 .. Len(s) : m = s[i]
    BY <1>2 DEF Elements
  <2>2. CASE i <= n
    BY <1>0, <1>7, <2>1, <2>2
  <2>3. CASE i > n
    <3>1. i - n \in 1 .. Len(s) - n /\ s[n + (i - n)] = s[i]
      BY <1>0, <2>3
    <3> QED
      BY <1>7, <2>1, <3>1
  <2> QED
    BY <1>0, <2>2, <2>3
<1>5. ASSUME Distinct(s) PROVE Elements(t) \cap Elements(u) = {} /\ Distinct(u)
  <2>1. \A i, j \in 1 .. Len(s) : s[i] = s[j] => i = j
    BY <1>2, <1>5 DEF Distinct
  <2>2. ASSUME NEW x \in Elements(t) \cap Elements(u) PROVE FALSE
    <3>1. PICK i \in 1 .. n : x = s[i]
      BY <1>7, <2>2
    <3>2. PICK j \in 1 .. Len(s) - n : x = s[n + j]
      BY <1>7, <2>2
    <3>3. i \in 1 .. Len(s) /\ n + j \in 1 .. Len(s) /\ i # n + j
      BY <1>0
    <3> QED
      BY <2>1, <3>1, <3>2, <3>3
  <2>3. ASSUME NEW i \in 1 .. Len(s) - n, NEW j \in 1 .. Len(s) - n, u[i] = u[j] PROVE i = j
    <3>1. s[n + i] = s[n + j] /\ n + i \in 1 .. Len(s) /\ n + j \in 1 .. Len(s)
      BY <1>0, <1>1, <2>3
    <3>2. n + i = n + j
      BY <2>1, <3>1
    <3> QED
      BY <1>0, <3>2
  <2> QED
    BY <1>2, <2>2, <2>3 DEF Distinct
<1> QED
  BY <1>1, <1>3, <1>4, <1>5 DEF t, u

\* The head and the rest.
LEMMA HeadAndTail ==
  ASSUME NEW s \in Seq(Msg), s # <<>>
  PROVE  /\ Head(s) \in Msg /\ Tail(s) \in Seq(Msg) /\ <<Head(s)>> \in Seq(Msg)
         /\ Elements(<<Head(s)>>) = {Head(s)}
         /\ Elements(s) = {Head(s)} \cup Elements(Tail(s))
         /\ Distinct(s) => Head(s) \notin Elements(Tail(s)) /\ Distinct(Tail(s))
<1>1. Len(s) \in Nat \ {0} /\ Head(s) = s[1] /\ Head(s) \in Msg /\ Tail(s) \in Seq(Msg)
      /\ DOMAIN s = 1 .. Len(s)
  OBVIOUS
<1>2. /\ Len(Tail(s)) = Len(s) - 1 /\ DOMAIN Tail(s) = 1 .. Len(s) - 1
      /\ \A i \in 1 .. Len(s) - 1 : Tail(s)[i] = s[i + 1]
  OBVIOUS
<1> DEFINE t == Tail(s)
<1> HIDE DEF t
<1>3. Elements(t) \cup {s[1]} \subseteq Elements(s)
  BY <1>1, <1>2 DEF Elements, t
<1>4. ASSUME NEW m \in Elements(s) PROVE m \in Elements(t) \cup {s[1]}
  <2>1. PICK i \in 1 .. Len(s) : m = s[i]
    BY <1>1 DEF Elements
  <2>2. CASE i > 1
    <3>1. i - 1 \in 1 .. Len(s) - 1 /\ t[i - 1] = s[i]
      BY <1>2, <2>2 DEF t
    <3> QED
      BY <1>2, <2>1, <3>1 DEF Elements, t
  <2> QED
    BY <2>1, <2>2
<1>5. ASSUME Distinct(s) PROVE s[1] \notin Elements(t) /\ Distinct(t)
  BY <1>1, <1>2, <1>5 DEF Elements, Distinct, t
<1>6. <<Head(s)>> \in Seq(Msg) /\ Elements(<<Head(s)>>) = {Head(s)}
  BY <1>1 DEF Elements
<1> QED
  BY <1>1, <1>3, <1>4, <1>5, <1>6 DEF t

\* The empty sequence.
LEMMA NoElements == /\ <<>> \in Seq(Msg) /\ Elements(<<>>) = {} /\ Distinct(<<>>)
                    /\ \A s \in Seq(Msg) : Elements(s) = {} => s = <<>>
<1>1. /\ <<>> \in Seq(Msg) /\ Elements(<<>>) = {} /\ Distinct(<<>>)
  BY DEF Elements, Distinct
<1>2. ASSUME NEW s \in Seq(Msg), s # <<>> PROVE Elements(s) # {}
  BY <1>2, HeadAndTail
<1> QED
  BY <1>1, <1>2

\* What is left of a sequence by LastN.
LEMMA LastType == ASSUME NEW s \in Seq(Msg), NEW n \in Nat PROVE LastN(s, n) \in Seq(Msg)
<1>1. CASE Len(s) <= n
  BY <1>1 DEF LastN
<1>2. CASE Len(s) > n
  <2>1. Len(s) - n \in 0 .. Len(s)
    BY <1>2
  <2>2. SubSeq(s, Len(s) - n + 1, Len(s)) \in Seq(Msg)
    BY <2>1, CutInTwo
  <2> QED
    BY <1>2, <2>2 DEF LastN
<1> QED
  BY <1>1, <1>2

\* Messages that do not cross channels have one destination.
LEMMA OneDestination ==
  ASSUME NEW s \in Seq(Msg), ~HasCrossChannelItems(s)
  PROVE  \A m, n \in Elements(s) : RouteOf[m] = RouteOf[n]
<1> DEFINE keys == {RouteOf[m] : m \in Elements(s)}
<1>1. IsFiniteSet(keys)
  <2> DEFINE key == [i \in 1 .. Len(s) |-> RouteOf[s[i]]]
  <2>1. IsFiniteSet(1 .. Len(s))
    BY FS_Interval
  <2>2. keys = {key[i] : i \in 1 .. Len(s)}
    BY DEF Elements
  <2>3. key \in Surjection(1 .. Len(s), keys)
    BY <2>2 DEF Surjection
  <2> QED
    BY <2>1, <2>3, FS_Surjection
<1> SUFFICES ASSUME NEW m \in Elements(s), NEW n \in Elements(s), RouteOf[m] # RouteOf[n]
             PROVE  FALSE
  OBVIOUS
<1>2. {RouteOf[m], RouteOf[n]} \subseteq keys
  OBVIOUS
<1>3. Cardinality({RouteOf[m], RouteOf[n]}) <= Cardinality(keys)
  BY <1>1, <1>2, FS_Subset
<1>4. Cardinality({RouteOf[m], RouteOf[n]}) = 2
  <2>1. IsFiniteSet({RouteOf[m]}) /\ Cardinality({RouteOf[m]}) = 1
    BY FS_Singleton
  <2>2. {RouteOf[m], RouteOf[n]} = {RouteOf[m]} \cup {RouteOf[n]}
    OBVIOUS
  <2>3. RouteOf[n] \notin {RouteOf[m]}
    OBVIOUS
  <2>4. Cardinality({RouteOf[m]} \cup {RouteOf[n]}) = 1 + 1
    BY <2>1, <2>3, FS_AddElement
  <2>5. Cardinality({RouteOf[m], RouteOf[n]}) = 1 + 1
    BY ONLY <2>2, <2>4
  <2> QED
    BY ONLY <2>5
<1>5. ~(Cardinality(keys) > 1) /\ Cardinality(keys) \in Nat
  BY <1>1, FS_CardinalityType DEF HasCrossChannelItems
<1> HIDE DEF keys
<1> QED
  BY <1>3, <1>4, <1>5

-----------------------------------------------------------------------------
(***************************************************************************)
(* What the operations of the model do.                                    *)
(***************************************************************************)
\* A new queue, and one with its settings replaced.
LEMMA ConfiguredQueue ==
  ASSUME Types, NEW s \in Settings
  PROVE  /\ Configured(s) \in Queue
         /\ current = None => Configured(s).items = <<>> /\ ~Configured(s).draining
         /\ current # None => /\ Configured(s).items = queues[current].items
                              /\ Configured(s).draining = queues[current].draining
<1>1. CASE current = None
  BY <1>1, NoElements DEF Configured, NewQueue, Queue
<1>2. CASE current # None
  <2>1. queues[current] \in Queue
    BY <1>2 DEF Types
  <2> QED
    BY <1>2, <2>1 DEF Configured, Queue
<1> QED
  BY <1>1, <1>2

\* The items of a message's queue b that an accepted message leaves there, and
\* those it pushes out.
Split(b, left, gone) ==
  /\ left \in Seq(Msg) /\ gone \in Seq(Msg)
  /\ Elements(b) = Elements(left) \cup Elements(gone)
  /\ Distinct(b) => Distinct(left) /\ Elements(left) \cap Elements(gone) = {}

\* A full queue is cut after the messages that make room.
LEMMA OverflowSplit ==
  ASSUME NEW q \in Queue, Len(q.items) >= q.cap, NEW m \in Msg
  PROVE  /\ Split(q.items, Kept(q), Dropped(q))
         /\ Overflow(q, m) \in Queue
         /\ Overflow(q, m).items = Append(Kept(q), m)
         /\ Overflow(q, m).draining = q.draining
         /\ Overflow(q, m).cap = q.cap
         /\ Len(Append(Kept(q), m)) <= q.cap
<1>1. /\ q.items \in Seq(Msg) /\ q.lines \in Seq(Msg) /\ q.cap \in Nat \ {0} /\ q.dropped \in Nat
      /\ Len(q.items) \in Nat
  BY DEF Queue
<1>2. DropCount(q) \in 0 .. Len(q.items) /\ DropCount(q) \in Nat
  BY <1>1 DEF DropCount
<1>3. /\ Split(q.items, Kept(q), Dropped(q))
      /\ Kept(q) \in Seq(Msg) /\ Dropped(q) \in Seq(Msg)
      /\ Len(Kept(q)) = Len(q.items) - DropCount(q)
  BY <1>1, <1>2, CutInTwo DEF Kept, Dropped, Split
<1>4. Append(Kept(q), m) \in Seq(Msg) /\ Len(Append(Kept(q), m)) = Len(Kept(q)) + 1
  BY <1>3, Appended
<1>5. Len(Append(Kept(q), m)) <= q.cap
  BY <1>1, <1>3, <1>4 DEF DropCount
<1>6. LastN(q.lines \o Dropped(q), q.cap) \in Seq(Msg)
  <2>1. q.lines \o Dropped(q) \in Seq(Msg)
    BY <1>1, <1>3
  <2> QED
    BY <1>1, <2>1, LastType
<1>7. q.dropped + DropCount(q) \in Nat
  BY <1>1, <1>2
<1> HIDE DEF Kept, Dropped, DropCount
<1> QED
  BY <1>3, <1>4, <1>5, <1>6, <1>7 DEF Overflow, Queue

\* The object that takes the message m, and what it holds before.
ObjectFor(m) == IF current = None THEN m ELSE current
ItemsFor(m) == IF current = None THEN <<>> ELSE queues[current].items

\* A message is turned away, or it is pushed and may push others out.
TurnedAway(m) ==
  /\ \E f \in {"duplicate", "refused"} : fate' = [fate EXCEPT ![m] = f]
  /\ home' = home
  /\ queues'[ObjectFor(m)].items = ItemsFor(m)
  /\ current # None

Pushed(m, left, gone) ==
  /\ Split(ItemsFor(m), left, gone)
  /\ ~IsRunAlreadyQueued(m, ItemsFor(m))
  /\ queues'[ObjectFor(m)].items = Append(left, m)
  /\ Len(Append(left, m)) <= queues'[ObjectFor(m)].cap
  /\ home' = [home EXCEPT ![m] = ObjectFor(m)]
  /\ fate' \in [Msg -> Fate]
  /\ fate'[m] = "queued"
  /\ \A k \in Msg \ {m} : IF k \in Elements(gone) THEN fate'[k] \in {"dropped", "summarized"}
                                                  ELSE fate'[k] = fate[k]

\* What enqueueFollowupRun does.
LEMMA EnqueueEffect ==
  ASSUME Types, NEW m \in Msg, NEW s \in Settings, EnqueueFollowupRun(m, s)
  PROVE  /\ current' = ObjectFor(m)
         /\ \E q \in Queue :
              /\ queues' = [queues EXCEPT ![ObjectFor(m)] = q]
              /\ q.draining = IF current = None THEN FALSE ELSE queues[current].draining
         /\ TurnedAway(m) \/ \E left, gone \in Seq(Msg) : Pushed(m, left, gone)
         /\ UNCHANGED <<pc, forced, batch>>
<1> DEFINE o == ObjectFor(m)
           q == Configured(s)
           full == Len(q.items) >= q.cap
           next == [q EXCEPT !.hasRun = TRUE]
           fateOnDrop == IF q.drop = "summarize" THEN "summarized" ELSE "dropped"
<1>1. /\ q \in Queue /\ o \in Msg
      /\ q.items = ItemsFor(m)
      /\ q.draining = IF current = None THEN FALSE ELSE queues[current].draining
      /\ current = None => ItemsFor(m) = <<>>
  <2> HIDE DEF next, full, fateOnDrop
  <2>1. /\ q \in Queue
        /\ current = None => q.items = <<>> /\ ~q.draining
        /\ current # None => q.items = queues[current].items
                             /\ q.draining = queues[current].draining
    BY ConfiguredQueue
  <2>2. current \in Msg \cup {None} /\ q.draining \in BOOLEAN
    BY <2>1 DEF Types, Queue
  <2> HIDE DEF q
  <2> QED
    BY <2>1, <2>2 DEF ObjectFor, ItemsFor
<1>2. /\ current' = o /\ UNCHANGED <<pc, forced, batch>>
      /\ \/ /\ IsRunAlreadyQueued(m, q.items)
            /\ queues' = [queues EXCEPT ![o] = q]
            /\ fate' = [fate EXCEPT ![m] = "duplicate"]
            /\ UNCHANGED home
         \/ /\ ~IsRunAlreadyQueued(m, q.items)
            /\ full /\ q.drop = "new"
            /\ queues' = [queues EXCEPT ![o] = next]
            /\ fate' = [fate EXCEPT ![m] = "refused"]
            /\ UNCHANGED home
         \/ /\ ~IsRunAlreadyQueued(m, q.items)
            /\ ~full
            /\ queues' = [queues EXCEPT ![o] = [next EXCEPT !.items = Append(@, m)]]
            /\ fate' = [fate EXCEPT ![m] = "queued"]
            /\ home' = [home EXCEPT ![m] = o]
         \/ /\ ~IsRunAlreadyQueued(m, q.items)
            /\ full /\ q.drop # "new"
            /\ queues' = [queues EXCEPT ![o] = Overflow(next, m)]
            /\ fate' = [k \in Msg |-> IF k = m THEN "queued"
                                      ELSE IF k \in Elements(Dropped(q)) THEN fateOnDrop
                                      ELSE fate[k]]
            /\ home' = [home EXCEPT ![m] = o]
  BY DEF EnqueueFollowupRun, ObjectFor
<1>3. /\ next \in Queue /\ next.items = q.items /\ next.draining = q.draining
      /\ next.cap = q.cap /\ next.drop = q.drop
      /\ q.cap \in Nat \ {0} /\ q.items \in Seq(Msg) /\ Len(q.items) \in Nat
  <2> HIDE DEF q
  <2>1. q \in Queue
    BY <1>1
  <2>2. next \in Queue /\ next.items = q.items /\ next.draining = q.draining
    BY ONLY <2>1 DEF Queue
  <2>3. next.cap = q.cap /\ next.drop = q.drop
    BY ONLY <2>1 DEF Queue
  <2>4. q.cap \in Nat \ {0} /\ q.items \in Seq(Msg)
    BY ONLY <2>1 DEF Queue
  <2> QED
    BY <2>2, <2>3, <2>4
<1>4. current = None => ~full /\ ~IsRunAlreadyQueued(m, q.items)
  BY <1>1, <1>3, NoElements DEF IsRunAlreadyQueued
<1>5. queues \in [Msg -> Queue] /\ fate \in [Msg -> Fate]
  BY DEF Types
<1> HIDE DEF o, q, next, full, fateOnDrop
<1>6. CASE /\ IsRunAlreadyQueued(m, q.items)
           /\ queues' = [queues EXCEPT ![o] = q]
           /\ fate' = [fate EXCEPT ![m] = "duplicate"]
           /\ UNCHANGED home
  <2>1. TurnedAway(m)
    BY <1>1, <1>4, <1>5, <1>6 DEF TurnedAway, o
  <2> QED
    BY <1>1, <1>2, <1>6, <2>1 DEF o
<1>7. CASE /\ ~IsRunAlreadyQueued(m, q.items)
           /\ full /\ q.drop = "new"
           /\ queues' = [queues EXCEPT ![o] = next]
           /\ fate' = [fate EXCEPT ![m] = "refused"]
           /\ UNCHANGED home
  <2>1. TurnedAway(m)
    BY <1>1, <1>3, <1>4, <1>5, <1>7 DEF TurnedAway, o
  <2> QED
    BY <1>1, <1>2, <1>3, <1>7, <2>1 DEF o
<1>8. CASE /\ ~IsRunAlreadyQueued(m, q.items)
           /\ ~full
           /\ queues' = [queues EXCEPT ![o] = [next EXCEPT !.items = Append(@, m)]]
           /\ fate' = [fate EXCEPT ![m] = "queued"]
           /\ home' = [home EXCEPT ![m] = o]
  <2> DEFINE pushed == [next EXCEPT !.items = Append(@, m)]
  <2>1. Append(q.items, m) \in Seq(Msg) /\ Len(Append(q.items, m)) = Len(q.items) + 1
    BY <1>3, Appended
  <2>2. /\ pushed \in Queue /\ pushed.items = Append(q.items, m)
        /\ pushed.draining = q.draining /\ pushed.cap = q.cap
    BY <1>3, <2>1 DEF Queue
  <2>3. Split(q.items, q.items, <<>>)
    BY <1>3, NoElements DEF Split
  <2>4. Len(Append(q.items, m)) <= q.cap
    BY <1>3, <1>8, <2>1 DEF full
  <2> HIDE DEF pushed
  <2>5. queues' = [queues EXCEPT ![o] = pushed]
    BY <1>8 DEF pushed
  <2>6. /\ fate' \in [Msg -> Fate] /\ fate'[m] = "queued"
        /\ \A k \in Msg \ {m} : fate'[k] = fate[k]
    BY <1>5, <1>8 DEF Fate
  <2>7. queues'[o] = pushed
    BY <1>1, <1>5, <2>5
  <2>8. Pushed(m, q.items, <<>>)
    BY <1>1, <1>8, <2>2, <2>3, <2>4, <2>6, <2>7, NoElements DEF Pushed, o
  <2> QED
    BY <1>1, <1>2, <1>3, <2>2, <2>5, <2>8, NoElements DEF o
<1>9. CASE /\ ~IsRunAlreadyQueued(m, q.items)
           /\ full /\ q.drop # "new"
           /\ queues' = [queues EXCEPT ![o] = Overflow(next, m)]
           /\ fate' = [k \in Msg |-> IF k = m THEN "queued"
                                     ELSE IF k \in Elements(Dropped(q)) THEN fateOnDrop
                                     ELSE fate[k]]
           /\ home' = [home EXCEPT ![m] = o]
  <2>1. Len(next.items) >= next.cap
    BY <1>3, <1>9 DEF full
  <2>2. Kept(next) = Kept(q) /\ Dropped(next) = Dropped(q)
    BY <1>3 DEF Kept, Dropped, DropCount
  <2>3. /\ Split(q.items, Kept(q), Dropped(q))
        /\ Overflow(next, m) \in Queue
        /\ Overflow(next, m).items = Append(Kept(q), m)
        /\ Overflow(next, m).draining = q.draining
        /\ Overflow(next, m).cap = q.cap
        /\ Len(Append(Kept(q), m)) <= q.cap
    BY <1>3, <2>1, <2>2, OverflowSplit
  <2>4. /\ fate' \in [Msg -> Fate] /\ fate'[m] = "queued"
        /\ \A k \in Msg \ {m} :
             IF k \in Elements(Dropped(q)) THEN fate'[k] \in {"dropped", "summarized"}
                                           ELSE fate'[k] = fate[k]
    BY <1>5, <1>9 DEF Fate, fateOnDrop
  <2>5. queues'[o] = Overflow(next, m)
    BY <1>1, <1>5, <1>9
  <2>6. Pushed(m, Kept(q), Dropped(q))
    BY <1>1, <1>9, <2>3, <2>4, <2>5 DEF Pushed, o
  <2>7. Kept(q) \in Seq(Msg) /\ Dropped(q) \in Seq(Msg)
    BY <2>3 DEF Split
  <2> QED
    BY <1>1, <1>2, <1>9, <2>3, <2>6, <2>7 DEF o
<1> QED
  BY <1>2, <1>6, <1>7, <1>8, <1>9

\* What scheduleFollowupDrain does: at most it starts a drain that is not on.
LEMMA ScheduleEffect ==
  ASSUME NEW qs \in [Msg -> Queue], NEW c \in Msg \cup {None},
         NEW pcs \in [Msg -> {"idle", "debounce", "running"}], forced \in [Msg -> BOOLEAN],
         ScheduleFollowupDrain(qs, c, pcs)
  PROVE  /\ queues' \in [Msg -> Queue] /\ current' \in {c, None}
         /\ pc' \in [Msg -> {"idle", "debounce", "running"}] /\ forced' \in [Msg -> BOOLEAN]
         /\ \A k \in Msg :
              /\ queues'[k].items = qs[k].items
              /\ \/ pc'[k] = pcs[k] /\ queues'[k].draining = qs[k].draining
                 \/ pc'[k] = "debounce" /\ queues'[k].draining /\ ~qs[k].draining /\ k = c
<1>1. CASE queues' = qs /\ pc' = pcs /\ current' \in {c, None} /\ forced' = forced
  BY <1>1
<1>2. CASE c \in Undrained(qs) /\ Busy(qs[c])
  <2>1. c \in Msg /\ ~qs[c].draining
    BY <1>2 DEF Undrained
  <2>2. /\ queues' = [qs EXCEPT ![c].draining = TRUE] /\ current' = c
        /\ pc' = [pcs EXCEPT ![c] = "debounce"] /\ forced' = [forced EXCEPT ![c] = FALSE]
    BY <1>2 DEF ScheduleFollowupDrain
  <2>3. [qs[c] EXCEPT !.draining = TRUE] \in Queue
    BY <2>1 DEF Queue
  <2>4. /\ queues' \in [Msg -> Queue]
        /\ queues'[c].items = qs[c].items /\ queues'[c].draining
        /\ \A k \in Msg \ {c} : queues'[k] = qs[k]
    BY <2>1, <2>2, <2>3 DEF Queue
  <2> QED
    BY <2>1, <2>2, <2>4
<1> QED
  BY <1>1, <1>2 DEF ScheduleFollowupDrain

\* What the end of the drain of o does: its loop is over, or on again.
LEMMA FinishEffect ==
  ASSUME Types, NEW o \in Msg, NEW q \in Queue, q.items = queues[o].items, FinishDrain(o, q)
  PROVE  /\ queues' \in [Msg -> Queue] /\ current' \in {current, None}
         /\ pc' \in [Msg -> {"idle", "debounce", "running"}] /\ forced' \in [Msg -> BOOLEAN]
         /\ \A k \in Msg :
              /\ queues'[k].items = queues[k].items
              /\ \/ k # o /\ pc'[k] = pc[k] /\ queues'[k].draining = queues[k].draining
                 \/ k = o /\ pc'[k] = "idle" /\ ~queues'[k].draining
                 \/ /\ pc'[k] = "debounce" /\ queues'[k].draining
                    /\ k = o \/ (~queues[k].draining /\ k = current)
<1> DEFINE qs == [queues EXCEPT ![o] = [q EXCEPT !.draining = FALSE]]
           pcs == [pc EXCEPT ![o] = "idle"]
<1>1. [q EXCEPT !.draining = FALSE] \in Queue
  BY DEF Queue
<1>2. /\ qs \in [Msg -> Queue] /\ pcs \in [Msg -> {"idle", "debounce", "running"}]
      /\ current \in Msg \cup {None} /\ forced \in [Msg -> BOOLEAN]
  BY <1>1 DEF Types
<1>3. /\ qs[o].items = queues[o].items /\ ~qs[o].draining /\ pcs[o] = "idle"
      /\ \A k \in Msg \ {o} : qs[k] = queues[k] /\ pcs[k] = pc[k]
  BY DEF Types, Queue
<1>4. \/ ScheduleFollowupDrain(qs, current, pcs)
      \/ queues' = qs /\ current' = None /\ pc' = pcs /\ UNCHANGED forced
  BY DEF FinishDrain
<1> HIDE DEF qs, pcs
<1>5. CASE ScheduleFollowupDrain(qs, current, pcs)
  <2>1. /\ queues' \in [Msg -> Queue] /\ current' \in {current, None}
        /\ pc' \in [Msg -> {"idle", "debounce", "running"}] /\ forced' \in [Msg -> BOOLEAN]
        /\ \A k \in Msg :
             /\ queues'[k].items = qs[k].items
             /\ \/ pc'[k] = pcs[k] /\ queues'[k].draining = qs[k].draining
                \/ pc'[k] = "debounce" /\ queues'[k].draining /\ ~qs[k].draining /\ k = current
    BY <1>2, <1>5, ScheduleEffect
  <2> QED
    BY <1>3, <2>1
<1>6. CASE queues' = qs /\ current' = None /\ pc' = pcs /\ UNCHANGED forced
  BY <1>2, <1>3, <1>6
<1> QED
  BY <1>4, <1>5, <1>6

\* A drain hands over the items or the first of them, or a summary only.
Handed(o, q, items) ==
  \/ items = <<>> /\ q.items = queues[o].items
  \/ items = queues[o].items /\ q.items = <<>>
  \/ /\ queues[o].items # <<>>
     /\ items = <<Head(queues[o].items)>> /\ q.items = Tail(queues[o].items)

\* What one iteration of the drain of o does: it breaks, or it runs a batch for
\* one destination.
LEMMA DrainEffect ==
  ASSUME Types, NEW o \in Msg, CollectIndividually(o) \/ CollectBatch(o) \/ DrainNext(o)
  PROVE  /\ pc[o] = "debounce"
         /\ \/ \E q \in Queue : q.items = queues[o].items /\ Break(o, q)
            \/ /\ \E q \in Queue, items \in Seq(Msg), summary \in SUBSET Msg :
                    /\ Handed(o, q, items)
                    /\ q.draining = queues[o].draining
                    /\ \A m \in summary : fate[m] = "summarized"
                    /\ \A m, n \in Elements(items) : RouteOf[m] = RouteOf[n]
                    /\ RunFollowup(o, q, items, summary)
               /\ forced' \in [Msg -> BOOLEAN]
         /\ UNCHANGED <<isActive, home, reply, external, externals>>
<1> DEFINE Q == queues[o]
           Ran == /\ \E q \in Queue, items \in Seq(Msg), summary \in SUBSET Msg :
                       /\ Handed(o, q, items)
                       /\ q.draining = queues[o].draining
                       /\ \A m \in summary : fate[m] = "summarized"
                       /\ \A m, n \in Elements(items) : RouteOf[m] = RouteOf[n]
                       /\ RunFollowup(o, q, items, summary)
                  /\ forced' \in [Msg -> BOOLEAN]
           Broke == \E q \in Queue : q.items = queues[o].items /\ Break(o, q)
<1>1. Q \in Queue /\ Q.items \in Seq(Msg) /\ forced \in [Msg -> BOOLEAN]
  BY DEF Types, Queue
<1>2. Pending(o) \in SUBSET Msg /\ \A m \in Pending(o) : fate[m] = "summarized"
  BY DEF Pending
<1>3. /\ Summarized(Q) \in Queue /\ Summarized(Q).items = Q.items
      /\ Summarized(Q).draining = Q.draining
  BY <1>1, NoElements DEF Summarized, Queue
<1> HIDE DEF Q
<1>4. ASSUME NEW individually \in BOOLEAN, TakeNext(o, individually) PROVE Ran \/ Broke
  <2>1. CASE Q.items # <<>>
    <3> DEFINE q == [Q EXCEPT !.items = Tail(@)]
               one == <<Head(Q.items)>>
    <3>1. /\ Head(Q.items) \in Msg /\ Tail(Q.items) \in Seq(Msg) /\ one \in Seq(Msg)
          /\ Elements(one) = {Head(Q.items)}
      BY <1>1, <2>1, HeadAndTail
    <3>2. q \in Queue /\ q.items = Tail(Q.items) /\ q.draining = Q.draining
      BY <1>1, <3>1 DEF Queue
    <3>3. RunFollowup(o, q, one, {}) /\ forced' = [forced EXCEPT ![o] = individually]
      BY <1>4, <2>1 DEF TakeNext, Q
    <3>4. Handed(o, q, one)
      BY <2>1, <3>2 DEF Handed, Q
    <3>5. forced' \in [Msg -> BOOLEAN]
      BY <1>1, <3>3
    <3> HIDE DEF q, one
    <3> QED
      BY <3>1, <3>2, <3>3, <3>4, <3>5 DEF Q
  <2>2. CASE Q.items = <<>>
    BY <1>1, <1>4, <2>2 DEF TakeNext, Q
  <2> QED
    BY <2>1, <2>2
<1>5. CASE CollectIndividually(o)
  BY <1>4, <1>5 DEF CollectIndividually
<1>6. CASE CollectBatch(o)
  <2> DEFINE rest == [(IF HasSummary(Q) THEN Summarized(Q) ELSE Q) EXCEPT !.items = <<>>]
             summary == IF HasSummary(Q) THEN Pending(o) ELSE {}
  <2>1. rest \in Queue /\ rest.items = <<>> /\ rest.draining = Q.draining
    BY <1>1, <1>3, NoElements DEF Queue
  <2>2. summary \in SUBSET Msg /\ \A m \in summary : fate[m] = "summarized"
    BY <1>2
  <2>3. \A m, n \in Elements(Q.items) : RouteOf[m] = RouteOf[n]
    BY <1>1, <1>6, OneDestination DEF CollectBatch, Q
  <2>4. \/ RunFollowup(o, rest, Q.items, summary) /\ UNCHANGED forced
        \/ Q.items = <<>> /\ Break(o, rest)
    BY <1>6 DEF CollectBatch, Q
  <2>5. Handed(o, rest, Q.items)
    BY <2>1 DEF Handed, Q
  <2> HIDE DEF rest, summary
  <2>6. Ran \/ Broke
    BY <1>1, <2>1, <2>2, <2>3, <2>4, <2>5 DEF Q
  <2> QED
    BY <1>6, <2>6 DEF CollectBatch
<1>7. CASE DrainNext(o)
  <2>1. CASE HasSummary(Q) /\ Q.hasRun
    <3>1. RunFollowup(o, Summarized(Q), <<>>, Pending(o)) /\ UNCHANGED forced
      BY <1>7, <2>1 DEF DrainNext, Q
    <3>2. Handed(o, Summarized(Q), <<>>)
      BY <1>3 DEF Handed, Q
    <3>3. Ran
      BY <1>1, <1>2, <1>3, <3>1, <3>2, NoElements DEF Q
    <3> QED
      BY <1>7, <3>3 DEF DrainNext
  <2>2. CASE HasSummary(Q) /\ ~Q.hasRun
    BY <1>3, <1>7, <2>2 DEF DrainNext, Q
  <2>3. CASE ~HasSummary(Q)
    <3>1. TakeNext(o, forced[o]) /\ forced[o] \in BOOLEAN
      BY <1>1, <1>7, <2>3 DEF DrainNext, Q
    <3> QED
      BY <1>4, <1>7, <3>1 DEF DrainNext
  <2> QED
    BY <2>1, <2>2, <2>3
<1> QED
  BY <1>5, <1>6, <1>7

\* A message is dispatched: it is queued or runs at once.
LEMMA DispatchEffect ==
  ASSUME NEW m \in Msg, Arrive(m) \/ Dispatch(m)
  PROVE  /\ fate[m] \in {"new", "checked"} /\ isActive' = isActive
         /\ \/ (\E s \in Settings : EnqueueFollowupRun(m, s)) /\ UNCHANGED runVars
            \/ /\ fate' = [fate EXCEPT ![m] = "direct"]
               /\ reply' = [reply EXCEPT ![m] = "waiting"]
               /\ UNCHANGED <<queueVars, home, followup, external, externals>>
BY DEF Arrive, Dispatch, QueueOrRun

\* Runs that start or end leave the queues alone.
LEMMA RunEffect ==
  ASSUME Types,
         \/ \E m \in Msg : StartReply(m) \/ EndReply(m) \/ ReplyThrows(m)
                        \/ StartFollowup(m) \/ EndFollowup(m)
         \/ ExternalRun
  PROVE  /\ UNCHANGED <<queueVars, isActive, fate, home>>
         /\ reply' \in [Msg -> RunState] /\ followup' \in [Msg -> RunState]
         /\ external' \in RunState /\ externals' \in Nat
         /\ \A k \in Msg : followup'[k] = "none" <=> followup[k] = "none"
<1>1. CASE \E m \in Msg : StartReply(m)
  BY <1>1 DEF StartReply, Types, RunState
<1>2. CASE \E m \in Msg : EndReply(m)
  BY <1>2 DEF EndReply, Types, RunState
<1>6. CASE \E m \in Msg : ReplyThrows(m)
  BY <1>6 DEF ReplyThrows, Types, RunState
<1>3. CASE \E m \in Msg : StartFollowup(m)
  BY <1>3 DEF StartFollowup, Types, RunState
<1>4. CASE \E m \in Msg : EndFollowup(m)
  BY <1>4 DEF EndFollowup, Types, RunState
<1>5. CASE ExternalRun
  BY <1>5 DEF ExternalRun, Types, RunState
<1> QED
  BY <1>1, <1>2, <1>3, <1>4, <1>5, <1>6

\* Runs that are forgotten are lost, not over.
LEMMA LostEffect ==
  ASSUME NEW runs \in [Msg -> RunState]
  PROVE  /\ WithoutWaiting(runs) \in [Msg -> RunState]
         /\ \A k \in Msg : WithoutWaiting(runs)[k] = "none" <=> runs[k] = "none"
BY DEF WithoutWaiting, RunState

\* A reply run or a followup run is over: a drain may start, go on or end.
LEMMA AfterRunEffect ==
  ASSUME Types, OneDrainPerObject, NEW o \in Msg,
         DrainResume(o) \/ DrainFails(o) \/ FinalizeWithFollowup(o)
  PROVE  /\ queues' \in [Msg -> Queue] /\ current' \in {current, None}
         /\ pc' \in [Msg -> {"idle", "debounce", "running"}] /\ forced' \in [Msg -> BOOLEAN]
         /\ reply' \in [Msg -> RunState] /\ followup' \in [Msg -> RunState]
         /\ UNCHANGED <<batch, isActive, fate, home, external, externals>>
         /\ \A k \in Msg :
              /\ queues'[k].items = queues[k].items
              /\ \/ /\ pc'[k] = pc[k] /\ queues'[k].draining = queues[k].draining
                    /\ followup'[k] = followup[k]
                 \/ pc[k] = "running" /\ followup'[k] = "none"
                    /\ pc'[k] = "idle" /\ ~queues'[k].draining
                 \/ /\ pc'[k] = "debounce" /\ queues'[k].draining /\ followup'[k] = "none"
                    /\ pc[k] = "running" \/ k = current
<1>1. CASE FinalizeWithFollowup(o)
  <2>1. /\ ScheduleFollowupDrain(queues, current, pc)
        /\ reply' = [k \in Msg |-> IF k = o \/ reply[k] = "threw" THEN "none" ELSE reply[k]]
        /\ UNCHANGED <<batch, isActive, fate, home, followup, external, externals>>
    BY <1>1 DEF FinalizeWithFollowup
  <2>2. /\ queues' \in [Msg -> Queue] /\ current' \in {current, None}
        /\ pc' \in [Msg -> {"idle", "debounce", "running"}] /\ forced' \in [Msg -> BOOLEAN]
        /\ \A k \in Msg :
             /\ queues'[k].items = queues[k].items
             /\ \/ pc'[k] = pc[k] /\ queues'[k].draining = queues[k].draining
                \/ pc'[k] = "debounce" /\ queues'[k].draining /\ ~queues[k].draining /\ k = current
    <3>1. /\ queues \in [Msg -> Queue] /\ current \in Msg \cup {None}
          /\ pc \in [Msg -> {"idle", "debounce", "running"}] /\ forced \in [Msg -> BOOLEAN]
      BY DEF Types
    <3> QED
      BY <2>1, <3>1, ScheduleEffect
  <2>3. \A k \in Msg : ~queues[k].draining => followup[k] = "none"
    BY DEF OneDrainPerObject
  <2> QED
    BY <2>1, <2>2, <2>3 DEF Types, RunState
<1>2. CASE DrainResume(o) \/ DrainFails(o)
  <2>1. /\ pc[o] = "running" /\ followup' = [followup EXCEPT ![o] = "none"]
        /\ UNCHANGED <<batch, isActive, fate, home, reply, external, externals>>
    BY <1>2 DEF DrainResume, DrainFails
  <2>2. /\ queues[o].draining
        /\ \A k \in Msg : ~queues[k].draining => followup[k] = "none"
    BY <2>1 DEF OneDrainPerObject
  <2>3. \/ pc' = [pc EXCEPT ![o] = "debounce"] /\ UNCHANGED <<queues, current, forced>>
        \/ FinishDrain(o, queues[o])
    BY <1>2 DEF DrainResume, DrainFails
  <2>4. CASE pc' = [pc EXCEPT ![o] = "debounce"] /\ UNCHANGED <<queues, current, forced>>
    BY <2>1, <2>2, <2>4 DEF Types, RunState
  <2>5. CASE FinishDrain(o, queues[o])
    <3>1. queues[o] \in Queue
      BY DEF Types
    <3>2. /\ queues' \in [Msg -> Queue] /\ current' \in {current, None}
          /\ pc' \in [Msg -> {"idle", "debounce", "running"}] /\ forced' \in [Msg -> BOOLEAN]
          /\ \A k \in Msg :
               /\ queues'[k].items = queues[k].items
               /\ \/ k # o /\ pc'[k] = pc[k] /\ queues'[k].draining = queues[k].draining
                  \/ k = o /\ pc'[k] = "idle" /\ ~queues'[k].draining
                  \/ /\ pc'[k] = "debounce" /\ queues'[k].draining
                     /\ k = o \/ (~queues[k].draining /\ k = current)
      BY <2>5, <3>1, FinishEffect
    <3>3. \A k \in Msg : followup'[k] = IF k = o THEN "none" ELSE followup[k]
      BY <2>1 DEF Types
    <3>4. \A k \in Msg :
              /\ queues'[k].items = queues[k].items
              /\ \/ /\ pc'[k] = pc[k] /\ queues'[k].draining = queues[k].draining
                    /\ followup'[k] = followup[k]
                 \/ pc[k] = "running" /\ followup'[k] = "none"
                    /\ pc'[k] = "idle" /\ ~queues'[k].draining
                 \/ /\ pc'[k] = "debounce" /\ queues'[k].draining /\ followup'[k] = "none"
                    /\ pc[k] = "running" \/ k = current
      BY <2>1, <2>2, <3>2, <3>3
    <3> QED
      BY <2>1, <3>2, <3>4 DEF Types, RunState
  <2> QED
    BY <2>3, <2>4, <2>5
<1> QED
  BY <1>1, <1>2

\* What clearSessionQueues does.
LEMMA ClearEffect ==
  ASSUME Types, ClearSessionQueues
  PROVE  /\ queues' \in [Msg -> Queue] /\ current' = None
         /\ fate' \in [Msg -> Fate]
         /\ reply' \in [Msg -> RunState] /\ followup' \in [Msg -> RunState]
         /\ external' \in RunState
         /\ \A k \in Msg : followup'[k] = "none" <=> followup[k] = "none"
         /\ \A k \in Msg : /\ queues'[k].items = IF k = current THEN <<>> ELSE queues[k].items
                           /\ queues'[k].draining = queues[k].draining
         /\ \A m \in Msg : \/ fate'[m] = fate[m]
                              /\ (fate[m] = "queued" => home[m] # current \/ current = None)
                           \/ fate'[m] = "cleared" /\ home[m] = current /\ current # None
         /\ UNCHANGED <<pc, forced, batch, isActive, home, externals>>
<1>1. /\ reply' \in [Msg -> RunState] /\ followup' \in [Msg -> RunState]
      /\ external' \in RunState
      /\ \A k \in Msg : followup'[k] = "none" <=> followup[k] = "none"
      /\ UNCHANGED <<pc, forced, batch, isActive, home, externals>>
  <2>1. /\ reply' = WithoutWaiting(reply) /\ followup' = WithoutWaiting(followup)
        /\ external' = IF external = "waiting" THEN "lost" ELSE external
        /\ UNCHANGED <<pc, forced, batch, isActive, home, externals>>
    BY DEF ClearSessionQueues, ClearLane
  <2>2. external' \in RunState
    BY <2>1 DEF Types, RunState
  <2> QED
    BY <2>1, <2>2, LostEffect DEF Types
<1>2. CASE current # None
  <2>1. /\ queues' = [queues EXCEPT ![current].items = <<>>, ![current].dropped = 0,
                                    ![current].lines = <<>>, ![current].hasRun = FALSE]
        /\ fate' = [m \in Msg |-> IF home[m] = current /\ fate[m] \in {"queued", "summarized"}
                                    THEN "cleared" ELSE fate[m]]
        /\ current' = None
    BY <1>2 DEF ClearSessionQueues
  <2> DEFINE empty == [queues[current] EXCEPT !.items = <<>>, !.dropped = 0,
                                              !.lines = <<>>, !.hasRun = FALSE]
  <2>2. current \in Msg /\ queues[current] \in Queue
    BY <1>2 DEF Types
  <2>3. empty \in Queue /\ empty.items = <<>> /\ empty.draining = queues[current].draining
    BY <2>2, NoElements DEF Queue
  <2>4. queues' = [queues EXCEPT ![current] = empty]
    BY <2>1, <2>2 DEF Types, Queue
  <2> HIDE DEF empty
  <2>5. /\ queues' \in [Msg -> Queue]
        /\ \A k \in Msg : /\ queues'[k].items = IF k = current THEN <<>> ELSE queues[k].items
                          /\ queues'[k].draining = queues[k].draining
    BY <2>2, <2>3, <2>4 DEF Types
  <2>6. /\ fate' \in [Msg -> Fate]
        /\ \A m \in Msg : \/ fate'[m] = fate[m]
                              /\ (fate[m] = "queued" => home[m] # current \/ current = None)
                          \/ fate'[m] = "cleared" /\ home[m] = current /\ current # None
    BY <1>2, <2>1 DEF Types, Fate
  <2> QED
    BY <1>1, <2>1, <2>5, <2>6
<1>3. CASE current = None
  <2>1. UNCHANGED <<queues, fate, current>>
    BY <1>3 DEF ClearSessionQueues
  <2>2. current \notin Msg
    BY <1>3
  <2>3. /\ \A k \in Msg : /\ queues'[k].items = IF k = current THEN <<>> ELSE queues[k].items
                          /\ queues'[k].draining = queues[k].draining
        /\ \A m \in Msg : fate'[m] = fate[m]
    BY <2>1, <2>2
  <2> QED
    BY <1>1, <1>3, <2>1, <2>3 DEF Types
<1> QED
  BY <1>2, <1>3

-----------------------------------------------------------------------------
(***************************************************************************)
(* The steps.                                                              *)
(***************************************************************************)
\* The initial state satisfies the inductive invariant.
LEMMA InitInv == Init => IInv
<1> SUFFICES ASSUME Init PROVE IInv
  OBVIOUS
<1>1. (CHOOSE s \in Settings : TRUE) \in Settings
  OBVIOUS
<1> DEFINE s == CHOOSE s \in Settings : TRUE
<1> HIDE DEF s
<1>2. NewQueue(s) \in Queue /\ NewQueue(s).items = <<>> /\ ~NewQueue(s).draining
  BY <1>1, NoElements DEF NewQueue, Queue, s
<1>3. queues = [m \in Msg |-> NewQueue(s)]
  BY DEF Init, s
<1>4. batch \in [Msg -> [items : Seq(Msg), summary : SUBSET Msg]]
  BY NoElements DEF Init
<1>5. Types
  BY <1>2, <1>3, <1>4 DEF Init, Types, Fate, RunState
<1>6. Untouched /\ OneDrainPerObject /\ CollectKeepsRouting
  BY <1>2, <1>3 DEF Init, Untouched, OneDrainPerObject, CollectKeepsRouting
<1>7. ItemsAreWaiting
  BY <1>2, <1>3, NoElements DEF Init, ItemsAreWaiting, Waiting
<1> QED
  BY <1>5, <1>6, <1>7 DEF IInv

\* Every step keeps the types.
LEMMA StepTypes == Types /\ OneDrainPerObject /\ [Next]_vars => Types'
<1> SUFFICES ASSUME Types, OneDrainPerObject, [Next]_vars PROVE Types'
  OBVIOUS
<1>1. ASSUME NEW m \in Msg, Arrive(m) \/ Dispatch(m) PROVE Types'
  <2>1. CASE (\E s \in Settings : EnqueueFollowupRun(m, s)) /\ UNCHANGED runVars
    <3>1. PICK s \in Settings : EnqueueFollowupRun(m, s)
      BY <2>1
    <3>2. ObjectFor(m) \in Msg
      BY DEF ObjectFor, Types
    <3>3. /\ current' = ObjectFor(m)
          /\ \E q \in Queue : queues' = [queues EXCEPT ![ObjectFor(m)] = q]
          /\ TurnedAway(m) \/ \E left, gone \in Seq(Msg) : Pushed(m, left, gone)
          /\ UNCHANGED <<pc, forced, batch>>
      BY <3>1, EnqueueEffect
    <3>4. fate' \in [Msg -> Fate] /\ home' \in [Msg -> Msg \cup {None}]
      <4>1. CASE TurnedAway(m)
        BY <4>1 DEF TurnedAway, Types, Fate
      <4>2. ASSUME NEW left \in Seq(Msg), NEW gone \in Seq(Msg), Pushed(m, left, gone)
            PROVE  fate' \in [Msg -> Fate] /\ home' \in [Msg -> Msg \cup {None}]
        BY <3>2, <4>2 DEF Pushed, Types
      <4> QED
        BY <3>3, <4>1, <4>2
    <3>5. queues' \in [Msg -> Queue]
      BY <3>2, <3>3 DEF Types
    <3>6. UNCHANGED <<pc, forced, batch, isActive>> /\ UNCHANGED runVars
      BY <1>1, <2>1, <3>3, DispatchEffect
    <3> QED
      BY <3>2, <3>3, <3>4, <3>5, <3>6 DEF Types, runVars
  <2>2. CASE /\ fate' = [fate EXCEPT ![m] = "direct"]
             /\ reply' = [reply EXCEPT ![m] = "waiting"]
             /\ UNCHANGED <<queueVars, home, followup, external, externals>>
    BY <1>1, <2>2, DispatchEffect DEF Types, Fate, RunState, queueVars
  <2> QED
    BY <1>1, <2>1, <2>2, DispatchEffect
<1>2. ASSUME NEW m \in Msg, CheckActive(m) PROVE Types'
  <2>1. SessionActive \in BOOLEAN
    BY DEF SessionActive
  <2> QED
    BY <1>2, <2>1 DEF CheckActive, Types, queueVars, runVars, Fate
<1>3. ASSUME NEW m \in Msg, Interrupt(m) PROVE Types'
  <2>1. /\ followup' = WithoutWaiting(followup)
        /\ external' = IF external = "waiting" THEN "lost" ELSE external
        /\ reply' = [WithoutWaiting(reply) EXCEPT ![m] = "waiting"]
        /\ fate' = [fate EXCEPT ![m] = "direct"]
        /\ UNCHANGED <<queueVars, isActive, home, externals>>
    BY <1>3 DEF Interrupt, ClearLane
  <2>2. /\ WithoutWaiting(reply) \in [Msg -> RunState]
        /\ WithoutWaiting(followup) \in [Msg -> RunState]
    BY LostEffect DEF Types
  <2>3. "waiting" \in RunState /\ "lost" \in RunState /\ "direct" \in Fate
    BY DEF RunState, Fate
  <2> QED
    BY <2>1, <2>2, <2>3 DEF Types, queueVars
<1>4. CASE \/ \E m \in Msg : StartReply(m) \/ EndReply(m) \/ ReplyThrows(m)
                          \/ StartFollowup(m) \/ EndFollowup(m)
           \/ ExternalRun
  BY <1>4, RunEffect DEF Types, queueVars
<1>5. ASSUME NEW o \in Msg, DrainResume(o) \/ DrainFails(o) \/ FinalizeWithFollowup(o)
      PROVE  Types'
  BY <1>5, AfterRunEffect DEF Types
<1>6. ASSUME NEW o \in Msg, CollectIndividually(o) \/ CollectBatch(o) \/ DrainNext(o)
      PROVE  Types'
  <2>1. CASE \E q \in Queue : q.items = queues[o].items /\ Break(o, q)
    <3>1. PICK q \in Queue : q.items = queues[o].items /\ Break(o, q)
      BY <2>1
    <3>2. /\ queues' \in [Msg -> Queue] /\ current' \in {current, None}
          /\ pc' \in [Msg -> {"idle", "debounce", "running"}] /\ forced' \in [Msg -> BOOLEAN]
          /\ UNCHANGED <<batch, followup, fate>>
      BY <3>1, FinishEffect DEF Break
    <3> QED
      BY <1>6, <3>2, DrainEffect DEF Types
  <2>2. CASE /\ \E q \in Queue, items \in Seq(Msg), summary \in SUBSET Msg :
                  RunFollowup(o, q, items, summary)
             /\ forced' \in [Msg -> BOOLEAN]
    <3>1. PICK q \in Queue, items \in Seq(Msg), summary \in SUBSET Msg :
            RunFollowup(o, q, items, summary)
      BY <2>2
    <3>2. /\ queues' \in [Msg -> Queue] /\ current' = current
          /\ pc' \in [Msg -> {"idle", "debounce", "running"}]
          /\ batch' \in [Msg -> [items : Seq(Msg), summary : SUBSET Msg]]
          /\ followup' \in [Msg -> RunState]
          /\ fate' \in [Msg -> Fate]
      BY <3>1 DEF RunFollowup, Types, Fate, RunState
    <3> QED
      BY <1>6, <2>2, <3>2, DrainEffect DEF Types
  <2> QED
    BY <1>6, <2>1, <2>2, DrainEffect
<1>7. CASE ClearSessionQueues
  BY <1>7, ClearEffect DEF Types
<1>8. CASE UNCHANGED vars
  BY <1>8 DEF vars, Types
<1> QED
  BY <1>1, <1>2, <1>3, <1>4, <1>5, <1>6, <1>7, <1>8 DEF Next

\* What a drain changes apart from its items: its own state, or the entry of the
\* key.
LEMMA DrainFrame ==
  ASSUME Types, NEW o \in Msg, CollectIndividually(o) \/ CollectBatch(o) \/ DrainNext(o)
  PROVE  /\ pc[o] = "debounce" /\ current' \in {current, None} /\ home' = home
         /\ \A m \in Msg : fate'[m] = fate[m] \/ fate'[m] \in {"handed", "reported"}
         /\ \A k \in Msg :
              \/ /\ k # o /\ pc'[k] = pc[k] /\ queues'[k].draining = queues[k].draining
                 /\ followup'[k] = followup[k] /\ batch'[k] = batch[k]
              \/ /\ k = o /\ pc'[k] = "running" /\ queues'[k].draining = queues[k].draining
                 /\ followup'[k] = "waiting"
                 /\ \A m, n \in Elements(batch'[k].items) : RouteOf[m] = RouteOf[n]
              \/ /\ k = o /\ pc'[k] = "idle" /\ ~queues'[k].draining
                 /\ followup'[k] = followup[k]
              \/ /\ pc'[k] = "debounce" /\ queues'[k].draining /\ followup'[k] = followup[k]
                 /\ k = o \/ (~queues[k].draining /\ k = current)
<1>1. CASE \E q \in Queue : q.items = queues[o].items /\ Break(o, q)
  <2>1. PICK q \in Queue : q.items = queues[o].items /\ FinishDrain(o, q)
                           /\ UNCHANGED <<batch, followup, fate>>
    BY <1>1 DEF Break
  <2>2. /\ current' \in {current, None}
        /\ \A k \in Msg :
              \/ k # o /\ pc'[k] = pc[k] /\ queues'[k].draining = queues[k].draining
              \/ k = o /\ pc'[k] = "idle" /\ ~queues'[k].draining
              \/ /\ pc'[k] = "debounce" /\ queues'[k].draining
                 /\ k = o \/ (~queues[k].draining /\ k = current)
    BY <2>1, FinishEffect
  <2>3. pc[o] = "debounce" /\ home' = home
    BY DrainEffect
  <2> QED
    BY <2>1, <2>2, <2>3
<1>2. CASE \E q \in Queue, items \in Seq(Msg), summary \in SUBSET Msg :
             /\ q.draining = queues[o].draining
             /\ \A m, n \in Elements(items) : RouteOf[m] = RouteOf[n]
             /\ RunFollowup(o, q, items, summary)
  <2>1. PICK q \in Queue, items \in Seq(Msg), summary \in SUBSET Msg :
             /\ q.draining = queues[o].draining
             /\ \A m, n \in Elements(items) : RouteOf[m] = RouteOf[n]
             /\ RunFollowup(o, q, items, summary)
    BY <1>2
  <2>2. /\ queues'[o] = q /\ pc'[o] = "running" /\ followup'[o] = "waiting"
        /\ batch'[o].items = items
        /\ \A k \in Msg \ {o} : /\ queues'[k] = queues[k] /\ pc'[k] = pc[k]
                                /\ followup'[k] = followup[k] /\ batch'[k] = batch[k]
        /\ \A m \in Msg : fate'[m] = fate[m] \/ fate'[m] \in {"handed", "reported"}
        /\ current' = current
    BY <2>1 DEF RunFollowup, Types
  <2>3. pc[o] = "debounce" /\ home' = home
    BY DrainEffect
  <2> QED
    BY <2>1, <2>2, <2>3
<1> QED
  BY <1>1, <1>2, DrainEffect

\* What a dispatch leaves alone.
LEMMA DispatchFrame ==
  ASSUME Types, NEW m \in Msg, Arrive(m) \/ Dispatch(m)
  PROVE  /\ fate[m] \in {"new", "checked"} /\ fate'[m] \notin {"new", "checked"}
         /\ UNCHANGED <<pc, batch, followup>>
         /\ current' \in {current, ObjectFor(m)} /\ ObjectFor(m) \in Msg
         /\ \A k \in Msg : home'[k] \in {home[k], ObjectFor(m)}
         /\ \A k \in Msg \ {m} : fate'[k] = fate[k] \/ fate'[k] \in {"dropped", "summarized"}
         /\ \A k \in Msg : \/ queues'[k].draining = queues[k].draining
                           \/ k = m /\ current = None /\ ~queues'[k].draining
<1>1. fate[m] \in {"new", "checked"} /\ ObjectFor(m) \in Msg
  BY DispatchEffect DEF ObjectFor, Types
<1>2. CASE (\E s \in Settings : EnqueueFollowupRun(m, s)) /\ UNCHANGED runVars
  <2>1. PICK s \in Settings : EnqueueFollowupRun(m, s)
    BY <1>2
  <2>2. /\ current' = ObjectFor(m)
        /\ \E q \in Queue :
              /\ queues' = [queues EXCEPT ![ObjectFor(m)] = q]
              /\ q.draining = IF current = None THEN FALSE ELSE queues[current].draining
        /\ TurnedAway(m) \/ \E left, gone \in Seq(Msg) : Pushed(m, left, gone)
        /\ UNCHANGED <<pc, forced, batch>>
    BY <2>1, EnqueueEffect
  <2>3. \A k \in Msg : \/ queues'[k].draining = queues[k].draining
                       \/ k = m /\ current = None /\ ~queues'[k].draining
    BY <1>1, <2>2 DEF Types, ObjectFor
  <2>4. /\ \A k \in Msg : home'[k] \in {home[k], ObjectFor(m)}
        /\ \A k \in Msg \ {m} : fate'[k] = fate[k] \/ fate'[k] \in {"dropped", "summarized"}
        /\ fate'[m] \notin {"new", "checked"}
    BY <2>2 DEF TurnedAway, Pushed, Types
  <2> QED
    BY <1>1, <1>2, <2>2, <2>3, <2>4 DEF runVars
<1>3. CASE /\ fate' = [fate EXCEPT ![m] = "direct"]
           /\ UNCHANGED <<queueVars, home, followup, external, externals>>
  BY <1>1, <1>3 DEF queueVars, Types
<1> QED
  BY <1>2, <1>3, DispatchEffect

\* Every step keeps objects apart from messages not dispatched.
LEMMA StepUntouched ==
  Types /\ OneDrainPerObject /\ Untouched /\ [Next]_vars => Untouched'
<1> SUFFICES ASSUME Types, OneDrainPerObject, Untouched, [Next]_vars, NEW k \in Msg,
                    fate'[k] \in {"new", "checked"}
             PROVE  /\ current' # k /\ pc'[k] = "idle" /\ followup'[k] = "none"
                    /\ \A j \in Msg : home'[j] # k
  BY DEF Untouched
<1> DEFINE Apart == /\ current' # k /\ pc'[k] = "idle" /\ followup'[k] = "none"
                    /\ \A j \in Msg : home'[j] # k
<1>0. fate[k] \in {"new", "checked"} =>
        /\ current # k /\ pc[k] = "idle" /\ followup[k] = "none" /\ k # None
        /\ \A j \in Msg : home[j] # k
  BY DEF Untouched
<1> HIDE DEF Apart
<1>1. ASSUME NEW m \in Msg, Arrive(m) \/ Dispatch(m) PROVE Apart
  <2>1. /\ fate'[m] \notin {"new", "checked"}
        /\ UNCHANGED <<pc, batch, followup>>
        /\ current' \in {current, ObjectFor(m)} /\ ObjectFor(m) \in Msg
        /\ \A j \in Msg : home'[j] \in {home[j], ObjectFor(m)}
        /\ \A j \in Msg \ {m} : fate'[j] = fate[j] \/ fate'[j] \in {"dropped", "summarized"}
    BY <1>1, DispatchFrame
  <2>2. k # m /\ fate[k] \in {"new", "checked"}
    BY <2>1
  <2>3. ObjectFor(m) # k
    BY <1>0, <2>2 DEF ObjectFor
  <2> QED
    BY <1>0, <2>1, <2>2, <2>3 DEF Apart
<1>2. ASSUME NEW m \in Msg, CheckActive(m) PROVE Apart
  BY <1>0, <1>2 DEF CheckActive, queueVars, runVars, Types, Apart
<1>3. ASSUME NEW m \in Msg, Interrupt(m) PROVE Apart
  <2>1. /\ followup' = WithoutWaiting(followup)
        /\ fate' = [fate EXCEPT ![m] = "direct"]
        /\ UNCHANGED <<queueVars, isActive, home, externals>>
    BY <1>3 DEF Interrupt, ClearLane
  <2>2. followup'[k] = "none" <=> followup[k] = "none"
    BY <2>1, LostEffect DEF Types
  <2>3. fate[k] \in {"new", "checked"}
    BY <2>1 DEF Types
  <2> QED
    BY <1>0, <2>1, <2>2, <2>3 DEF queueVars, Apart
<1>4. CASE \/ \E m \in Msg : StartReply(m) \/ EndReply(m) \/ ReplyThrows(m)
                          \/ StartFollowup(m) \/ EndFollowup(m)
           \/ ExternalRun
  BY <1>0, <1>4, RunEffect DEF queueVars, Apart
<1>5. ASSUME NEW o \in Msg, DrainResume(o) \/ DrainFails(o) \/ FinalizeWithFollowup(o)
      PROVE  Apart
  <2>1. /\ UNCHANGED <<fate, home>> /\ current' \in {current, None}
        /\ \/ pc'[k] = pc[k] /\ followup'[k] = followup[k]
           \/ pc[k] = "running" \/ k = current
    BY <1>5, AfterRunEffect
  <2> QED
    BY <1>0, <2>1 DEF Apart
<1>6. ASSUME NEW o \in Msg, CollectIndividually(o) \/ CollectBatch(o) \/ DrainNext(o)
      PROVE  Apart
  <2>1. /\ pc[o] = "debounce" /\ current' \in {current, None} /\ home' = home
        /\ fate'[k] = fate[k] \/ fate'[k] \in {"handed", "reported"}
        /\ \/ pc'[k] = pc[k] /\ followup'[k] = followup[k]
           \/ k = o \/ k = current
    BY <1>6, DrainFrame
  <2> QED
    BY <1>0, <2>1 DEF Apart
<1>7. CASE ClearSessionQueues
  <2>1. /\ current' = None /\ UNCHANGED <<pc, home>>
        /\ followup'[k] = "none" <=> followup[k] = "none"
        /\ fate'[k] = fate[k] \/ fate'[k] = "cleared"
    BY <1>7, ClearEffect
  <2> QED
    BY <1>0, <2>1 DEF Apart
<1>8. CASE UNCHANGED vars
  BY <1>0, <1>8 DEF vars, Apart
<1> QED
  BY <1>1, <1>2, <1>3, <1>4, <1>5, <1>6, <1>7, <1>8 DEF Next, Apart

\* Every step keeps one loop per object.
LEMMA StepOneDrain ==
  Types /\ Untouched /\ OneDrainPerObject /\ [Next]_vars => OneDrainPerObject'
<1> SUFFICES ASSUME Types, Untouched, OneDrainPerObject, [Next]_vars, NEW k \in Msg
             PROVE  /\ queues'[k].draining <=> pc'[k] # "idle"
                    /\ followup'[k] # "none" <=> pc'[k] = "running"
  BY DEF OneDrainPerObject
<1> DEFINE One == /\ queues'[k].draining <=> pc'[k] # "idle"
                  /\ followup'[k] # "none" <=> pc'[k] = "running"
<1>0. /\ queues[k].draining <=> pc[k] # "idle"
      /\ followup[k] # "none" <=> pc[k] = "running"
  BY DEF OneDrainPerObject
<1> HIDE DEF One
<1>1. ASSUME NEW m \in Msg, Arrive(m) \/ Dispatch(m) PROVE One
  <2>1. /\ UNCHANGED <<pc, followup>> /\ fate[m] \in {"new", "checked"}
        /\ \/ queues'[k].draining = queues[k].draining
           \/ k = m /\ ~queues'[k].draining
    BY <1>1, DispatchFrame
  <2>2. pc[m] = "idle"
    BY <2>1 DEF Untouched
  <2> QED
    BY <1>0, <2>1, <2>2 DEF One
<1>2. ASSUME NEW m \in Msg, CheckActive(m) PROVE One
  BY <1>0, <1>2 DEF CheckActive, queueVars, runVars, One
<1>3. ASSUME NEW m \in Msg, Interrupt(m) PROVE One
  <2>1. followup' = WithoutWaiting(followup) /\ UNCHANGED queueVars
    BY <1>3 DEF Interrupt, ClearLane
  <2>2. followup'[k] = "none" <=> followup[k] = "none"
    BY <2>1, LostEffect DEF Types
  <2> QED
    BY <1>0, <2>1, <2>2 DEF queueVars, One
<1>4. CASE \/ \E m \in Msg : StartReply(m) \/ EndReply(m) \/ ReplyThrows(m)
                          \/ StartFollowup(m) \/ EndFollowup(m)
           \/ ExternalRun
  BY <1>0, <1>4, RunEffect DEF queueVars, One
<1>5. ASSUME NEW o \in Msg, DrainResume(o) \/ DrainFails(o) \/ FinalizeWithFollowup(o)
      PROVE  One
  <2>1. \/ /\ pc'[k] = pc[k] /\ queues'[k].draining = queues[k].draining
           /\ followup'[k] = followup[k]
        \/ followup'[k] = "none" /\ pc'[k] = "idle" /\ ~queues'[k].draining
        \/ pc'[k] = "debounce" /\ queues'[k].draining /\ followup'[k] = "none"
    BY <1>5, AfterRunEffect
  <2> QED
    BY <1>0, <2>1 DEF One
<1>6. ASSUME NEW o \in Msg, CollectIndividually(o) \/ CollectBatch(o) \/ DrainNext(o)
      PROVE  One
  <2>1. /\ pc[o] = "debounce"
        /\ \/ /\ pc'[k] = pc[k] /\ queues'[k].draining = queues[k].draining
              /\ followup'[k] = followup[k]
           \/ /\ k = o /\ pc'[k] = "running" /\ queues'[k].draining = queues[k].draining
              /\ followup'[k] = "waiting"
           \/ k = o /\ pc'[k] = "idle" /\ ~queues'[k].draining /\ followup'[k] = followup[k]
           \/ /\ pc'[k] = "debounce" /\ queues'[k].draining /\ followup'[k] = followup[k]
              /\ k = o \/ ~queues[k].draining
    BY <1>6, DrainFrame
  <2> QED
    BY <1>0, <2>1 DEF One
<1>7. CASE ClearSessionQueues
  <2>1. /\ queues'[k].draining = queues[k].draining /\ UNCHANGED pc
        /\ followup'[k] = "none" <=> followup[k] = "none"
    BY <1>7, ClearEffect
  <2> QED
    BY <1>0, <2>1 DEF One
<1>8. CASE UNCHANGED vars
  BY <1>0, <1>8 DEF vars, One
<1> QED
  BY <1>1, <1>2, <1>3, <1>4, <1>5, <1>6, <1>7, <1>8 DEF Next, One

\* Every step keeps batches to one destination.
LEMMA StepRouting ==
  Types /\ OneDrainPerObject /\ CollectKeepsRouting /\ [Next]_vars => CollectKeepsRouting'
<1> SUFFICES ASSUME Types, OneDrainPerObject, CollectKeepsRouting, [Next]_vars, NEW k \in Msg,
                    pc'[k] = "running"
             PROVE  \A m, n \in Elements(batch'[k].items) : RouteOf[m] = RouteOf[n]
  BY DEF CollectKeepsRouting, Elements
<1> DEFINE Same == \A m, n \in Elements(batch'[k].items) : RouteOf[m] = RouteOf[n]
<1>0. pc[k] = "running" => \A m, n \in Elements(batch[k].items) : RouteOf[m] = RouteOf[n]
  BY DEF CollectKeepsRouting
<1>1. ASSUME pc'[k] = pc[k], batch'[k] = batch[k] PROVE Same
  BY <1>0, <1>1
<1> HIDE DEF Same
<1>2. ASSUME NEW m \in Msg, Arrive(m) \/ Dispatch(m) PROVE Same
  BY <1>1, <1>2, DispatchFrame
<1>3. ASSUME NEW m \in Msg, CheckActive(m) \/ Interrupt(m) PROVE Same
  BY <1>1, <1>3 DEF CheckActive, Interrupt, queueVars
<1>4. CASE \/ \E m \in Msg : StartReply(m) \/ EndReply(m) \/ ReplyThrows(m)
                          \/ StartFollowup(m) \/ EndFollowup(m)
           \/ ExternalRun
  BY <1>1, <1>4, RunEffect DEF queueVars, Same
<1>5. ASSUME NEW o \in Msg, DrainResume(o) \/ DrainFails(o) \/ FinalizeWithFollowup(o)
      PROVE  Same
  BY <1>1, <1>5, AfterRunEffect
<1>6. ASSUME NEW o \in Msg, CollectIndividually(o) \/ CollectBatch(o) \/ DrainNext(o)
      PROVE  Same
  BY <1>1, <1>6, DrainFrame DEF Same
<1>7. CASE ClearSessionQueues
  BY <1>1, <1>7, ClearEffect DEF Same
<1>8. CASE UNCHANGED vars
  BY <1>1, <1>8 DEF vars, Same
<1> QED
  BY <1>2, <1>3, <1>4, <1>5, <1>6, <1>7, <1>8 DEF Next, Same

-----------------------------------------------------------------------------
(***************************************************************************)
(* What waits in the queues.                                               *)
(***************************************************************************)
\* A step that moves no message in or out of a queue keeps the items.
LEMMA QuietItems ==
  ASSUME ItemsAreWaiting, home' = home,
         \A k \in Msg : /\ queues'[k].items = queues[k].items
                        /\ fate'[k] = "queued" <=> fate[k] = "queued"
  PROVE  ItemsAreWaiting'
<1>1. \A o \in Msg : Waiting(o)' = Waiting(o)
  BY DEF Waiting
<1>2. \A o \in Msg : Elements(queues[o].items)' = Elements(queues[o].items)
  BY DEF Elements
<1>3. \A o \in Msg : Distinct(queues[o].items)' <=> Distinct(queues[o].items)
  BY DEF Distinct
<1> QED
  BY <1>1, <1>2, <1>3 DEF ItemsAreWaiting

\* A message pushed joins the items; those it pushes out leave them.
LEMMA PushItems ==
  ASSUME Types, Untouched, ItemsAreWaiting, NEW m \in Msg, fate[m] \in {"new", "checked"},
         NEW left \in Seq(Msg), NEW gone \in Seq(Msg), Pushed(m, left, gone),
         \E q \in Queue : queues' = [queues EXCEPT ![ObjectFor(m)] = q]
  PROVE  ItemsAreWaiting'
<1>0. PICK o \in Msg : o = ObjectFor(m)
  BY DEF ObjectFor, Types
<1>1. \A k \in Msg \ {o} : queues'[k] = queues[k]
  BY <1>0 DEF Types
<1>2. Distinct(ItemsFor(m)) /\ Elements(ItemsFor(m)) = Waiting(o)
  <2>1. CASE current = None
    <3>1. Waiting(o) = {}
      BY <1>0, <2>1 DEF Waiting, Untouched, ObjectFor
    <3> QED
      BY <2>1, <3>1, NoElements DEF ItemsFor
  <2>2. CASE current # None
    BY <1>0, <2>2 DEF ItemsFor, ObjectFor, ItemsAreWaiting
  <2> QED
    BY <2>1, <2>2
<1>3. /\ Waiting(o) = Elements(left) \cup Elements(gone) /\ Distinct(left)
      /\ Elements(left) \cap Elements(gone) = {}
  BY <1>2 DEF Pushed, Split
<1>4. m \notin Waiting(o) /\ \A k \in Msg : m \notin Waiting(k)
  BY DEF Waiting
<1>5. /\ queues'[o].items = Append(left, m)
      /\ Elements(Append(left, m)) = Elements(left) \cup {m}
      /\ Distinct(Append(left, m))
  BY <1>0, <1>3, <1>4, Appended DEF Pushed
<1>6. /\ \A k \in Msg : home'[k] = IF k = m THEN o ELSE home[k]
      /\ fate'[m] = "queued"
      /\ \A k \in Msg \ {m} : IF k \in Elements(gone) THEN fate'[k] \in {"dropped", "summarized"}
                                                      ELSE fate'[k] = fate[k]
  BY <1>0 DEF Pushed, Types
<1>7. \A k \in Msg : k \in Waiting(o)' <=> k \in Elements(left) \cup {m}
  BY <1>3, <1>4, <1>6 DEF Waiting
<1>8. Waiting(o)' = Elements(left) \cup {m}
  <2>1. Elements(left) \cup {m} \subseteq Msg /\ Waiting(o)' \subseteq Msg
    BY ElementsType DEF Waiting
  <2> QED
    BY <1>7, <2>1
<1>9. ASSUME NEW p \in Msg \ {o} PROVE Waiting(p)' = Waiting(p)
  <2>1. \A k \in Elements(gone) : k \notin Waiting(p)
    BY <1>3 DEF Waiting
  <2>2. \A k \in Msg : k \in Waiting(p)' <=> k \in Waiting(p)
    BY <1>4, <1>6, <2>1 DEF Waiting
  <2> QED
    BY <2>2 DEF Waiting
<1>10. ASSUME NEW p \in Msg
       PROVE  Distinct(queues'[p].items) /\ Elements(queues'[p].items) = Waiting(p)'
  BY <1>1, <1>5, <1>8, <1>9 DEF ItemsAreWaiting
<1> QED
  BY <1>10 DEF ItemsAreWaiting, Distinct, Elements

\* What is handed over leaves the items.
LEMMA HandItems ==
  ASSUME Types, ItemsAreWaiting, NEW o \in Msg, NEW q \in Queue, NEW items \in Seq(Msg),
         NEW summary \in SUBSET Msg, Handed(o, q, items), RunFollowup(o, q, items, summary),
         \A m \in summary : fate[m] = "summarized", home' = home
  PROVE  ItemsAreWaiting'
<1>1. queues[o].items \in Seq(Msg)
  BY DEF Types, Queue
<1>2. Distinct(queues[o].items) /\ Elements(queues[o].items) = Waiting(o)
  BY DEF ItemsAreWaiting
<1>3. /\ Distinct(q.items)
      /\ Elements(q.items) \cup Elements(items) = Waiting(o)
      /\ Elements(q.items) \cap Elements(items) = {}
  <2>1. CASE items = <<>> /\ q.items = queues[o].items
    BY <1>2, <2>1, NoElements
  <2>2. CASE items = queues[o].items /\ q.items = <<>>
    BY <1>2, <2>2, NoElements
  <2>3. CASE /\ queues[o].items # <<>>
             /\ items = <<Head(queues[o].items)>> /\ q.items = Tail(queues[o].items)
    BY <1>1, <1>2, <2>3, HeadAndTail
  <2> QED
    BY <2>1, <2>2, <2>3 DEF Handed
<1>4. /\ queues'[o] = q /\ \A k \in Msg \ {o} : queues'[k] = queues[k]
      /\ \A m \in Msg : fate'[m] = IF m \in Elements(items) THEN "handed"
                                   ELSE IF m \in summary THEN "reported" ELSE fate[m]
  BY DEF RunFollowup, Types
<1>5. Waiting(o)' = Elements(q.items)
  <2>1. \A m \in Msg : m \in Waiting(o)' <=> m \in Elements(q.items)
    BY <1>3, <1>4 DEF Waiting
  <2>2. Elements(q.items) \subseteq Msg /\ Waiting(o)' \subseteq Msg
    BY <1>3 DEF Waiting
  <2> QED
    BY <2>1, <2>2
<1>6. ASSUME NEW p \in Msg \ {o} PROVE Waiting(p)' = Waiting(p)
  <2>1. \A m \in Elements(items) : m \notin Waiting(p)
    BY <1>3 DEF Waiting
  <2>2. \A m \in Msg : m \in Waiting(p)' <=> m \in Waiting(p)
    BY <1>4, <2>1 DEF Waiting
  <2> QED
    BY <2>2 DEF Waiting
<1>7. ASSUME NEW p \in Msg
      PROVE  Distinct(queues'[p].items) /\ Elements(queues'[p].items) = Waiting(p)'
  BY <1>3, <1>4, <1>5, <1>6 DEF ItemsAreWaiting
<1> QED
  BY <1>7 DEF ItemsAreWaiting, Distinct, Elements

\* Every step keeps the items.
LEMMA StepItems ==
  Types /\ OneDrainPerObject /\ Untouched /\ ItemsAreWaiting /\ [Next]_vars => ItemsAreWaiting'
<1> SUFFICES ASSUME Types, OneDrainPerObject, Untouched, ItemsAreWaiting, [Next]_vars
             PROVE  ItemsAreWaiting'
  OBVIOUS
<1>1. ASSUME NEW m \in Msg, Arrive(m) \/ Dispatch(m) PROVE ItemsAreWaiting'
  <2>0. fate[m] \in {"new", "checked"} /\ ObjectFor(m) \in Msg
    BY <1>1, DispatchEffect DEF ObjectFor, Types
  <2>1. CASE (\E s \in Settings : EnqueueFollowupRun(m, s)) /\ UNCHANGED runVars
    <3>1. PICK s \in Settings : EnqueueFollowupRun(m, s)
      BY <2>1
    <3>2. /\ \E q \in Queue : queues' = [queues EXCEPT ![ObjectFor(m)] = q]
          /\ TurnedAway(m) \/ \E left, gone \in Seq(Msg) : Pushed(m, left, gone)
      BY <3>1, EnqueueEffect
    <3>3. CASE TurnedAway(m)
      <4>1. home' = home /\ \A k \in Msg : queues'[k].items = queues[k].items
        BY <2>0, <3>2, <3>3 DEF TurnedAway, ItemsFor, ObjectFor, Types
      <4>2. \A k \in Msg : fate'[k] = "queued" <=> fate[k] = "queued"
        BY <2>0, <3>3 DEF TurnedAway, Types
      <4> QED
        BY <4>1, <4>2, QuietItems
    <3>4. ASSUME NEW left \in Seq(Msg), NEW gone \in Seq(Msg), Pushed(m, left, gone)
          PROVE  ItemsAreWaiting'
      BY <2>0, <3>2, <3>4, PushItems
    <3> QED
      BY <3>2, <3>3, <3>4
  <2>2. CASE /\ fate' = [fate EXCEPT ![m] = "direct"]
             /\ UNCHANGED <<queueVars, home, followup, external, externals>>
    BY <2>0, <2>2, QuietItems DEF queueVars, Types
  <2> QED
    BY <1>1, <2>1, <2>2, DispatchEffect
<1>2. ASSUME NEW m \in Msg, CheckActive(m) \/ Interrupt(m) PROVE ItemsAreWaiting'
  <2>1. /\ UNCHANGED <<queues, home>> /\ fate[m] = "new"
        /\ \E f \in {"checked", "direct"} : fate' = [fate EXCEPT ![m] = f]
    BY <1>2 DEF CheckActive, Interrupt, queueVars
  <2> QED
    BY <2>1, QuietItems DEF Types
<1>3. CASE \/ \E m \in Msg : StartReply(m) \/ EndReply(m) \/ ReplyThrows(m)
                          \/ StartFollowup(m) \/ EndFollowup(m)
           \/ ExternalRun
  BY <1>3, RunEffect, QuietItems DEF queueVars
<1>4. ASSUME NEW o \in Msg, DrainResume(o) \/ DrainFails(o) \/ FinalizeWithFollowup(o)
      PROVE  ItemsAreWaiting'
  BY <1>4, AfterRunEffect, QuietItems
<1>5. ASSUME NEW o \in Msg, CollectIndividually(o) \/ CollectBatch(o) \/ DrainNext(o)
      PROVE  ItemsAreWaiting'
  <2>1. home' = home
    BY <1>5, DrainEffect
  <2>2. ASSUME NEW q \in Queue, q.items = queues[o].items, Break(o, q) PROVE ItemsAreWaiting'
    <3>1. fate' = fate /\ \A k \in Msg : queues'[k].items = queues[k].items
      BY <2>2, FinishEffect DEF Break
    <3> QED
      BY <2>1, <3>1, QuietItems
  <2>3. ASSUME NEW q \in Queue, NEW items \in Seq(Msg), NEW summary \in SUBSET Msg,
               Handed(o, q, items), \A m \in summary : fate[m] = "summarized",
               RunFollowup(o, q, items, summary)
        PROVE  ItemsAreWaiting'
    BY <2>1, <2>3, HandItems
  <2> QED
    BY <1>5, <2>2, <2>3, DrainEffect
<1>6. CASE ClearSessionQueues
  <2>1. /\ home' = home
        /\ \A k \in Msg : queues'[k].items = IF k = current THEN <<>> ELSE queues[k].items
        /\ \A m \in Msg :
             \/ fate'[m] = fate[m]
                              /\ (fate[m] = "queued" => home[m] # current \/ current = None)
             \/ fate'[m] = "cleared" /\ home[m] = current /\ current # None
    BY <1>6, ClearEffect
  <2>2. \A p \in Msg : Waiting(p)' = IF p = current THEN {} ELSE Waiting(p)
    BY <2>1 DEF Waiting
  <2>3. ASSUME NEW p \in Msg
        PROVE  Distinct(queues'[p].items) /\ Elements(queues'[p].items) = Waiting(p)'
    BY <2>1, <2>2, NoElements DEF ItemsAreWaiting
  <2> QED
    BY <2>3 DEF ItemsAreWaiting, Distinct, Elements
<1>7. CASE UNCHANGED vars
  BY <1>7, QuietItems DEF vars
<1> QED
  BY <1>1, <1>2, <1>3, <1>4, <1>5, <1>6, <1>7 DEF Next

\* Every step keeps the inductive invariant.
LEMMA StepInv == IInv /\ [Next]_vars => IInv'
BY StepTypes, StepUntouched, StepOneDrain, StepRouting, StepItems DEF IInv

-----------------------------------------------------------------------------
\* The inductive invariant always holds.
THEOREM InvTheorem == Spec => []IInv
BY InitInv, StepInv, PTL DEF Spec

\* Every variable has its type in every reachable state.
THEOREM TypesTheorem == Spec => []TypeOK
<1>1. IInv => TypeOK
  <2> SUFFICES ASSUME Types, NEW m \in Msg
               PROVE  /\ Elements(queues[m].items) \cup Elements(queues[m].lines) \subseteq Msg
                      /\ [queues[m] EXCEPT !.items = <<>>, !.lines = <<>>] \in
                           [items : {<<>>}, draining : BOOLEAN, mode : {"collect", "followup"},
                            drop : {"summarize", "old", "new"}, cap : Nat \ {0}, dropped : Nat,
                            lines : {<<>>}, hasRun : BOOLEAN]
    BY DEF IInv, TypeOK, Types
  <2>1. queues[m] \in Queue
    BY DEF Types
  <2>2. queues[m].items \in Seq(Msg) /\ queues[m].lines \in Seq(Msg)
    BY <2>1 DEF Queue
  <2> QED
    BY <2>1, <2>2, ElementsType DEF Queue
<1> QED
  BY <1>1, InvTheorem, PTL

\* A message counted as queued is in the items of exactly one object, once, and
\* nothing else is in there.
THEOREM QueuedOnceTheorem == Spec => []QueuedExactlyOnce
<1>1. IInv => QueuedExactlyOnce
  BY DEF IInv, ItemsAreWaiting, Waiting, Distinct, QueuedExactlyOnce
<1> QED
  BY <1>1, InvTheorem, PTL

\* Each object is drained by one loop at a time.
THEOREM OneDrainTheorem == Spec => []OneDrainPerObject
<1>1. IInv => OneDrainPerObject
  BY DEF IInv
<1> QED
  BY <1>1, InvTheorem, PTL

\* One prompt never mixes messages of different destinations.
THEOREM RoutingTheorem == Spec => []CollectKeepsRouting
<1>1. IInv => CollectKeepsRouting
  BY DEF IInv
<1> QED
  BY <1>1, InvTheorem, PTL

\* A queued message is handed over by the drain of its object, with the messages
\* before it.
LEMMA HandedInOrder ==
  ASSUME IInv, Next, NEW m \in Msg, fate[m] = "queued", fate'[m] = "handed",
         NEW i \in DOMAIN queues[home[m]].items, NEW j \in DOMAIN queues[home[m]].items,
         i < j, queues[home[m]].items[j] = m
  PROVE  fate'[queues[home[m]].items[i]] = "handed"
<1> USE DEF IInv
<1>1. ASSUME NEW k \in Msg, Arrive(k) \/ Dispatch(k) PROVE FALSE
  <2>1. fate[k] \in {"new", "checked"}
    BY <1>1, DispatchFrame
  <2>2. \A n \in Msg \ {k} : fate'[n] = fate[n] \/ fate'[n] \in {"dropped", "summarized"}
    BY <1>1, DispatchFrame
  <2> QED
    BY <2>1, <2>2
<1>2. ASSUME NEW k \in Msg, CheckActive(k) \/ Interrupt(k) PROVE FALSE
  BY <1>2 DEF CheckActive, Interrupt, Types
<1>3. CASE \/ \E k \in Msg : StartReply(k) \/ EndReply(k) \/ ReplyThrows(k)
                          \/ StartFollowup(k) \/ EndFollowup(k)
           \/ ExternalRun
  BY <1>3, RunEffect
<1>4. ASSUME NEW o \in Msg, DrainResume(o) \/ DrainFails(o) \/ FinalizeWithFollowup(o)
      PROVE  FALSE
  BY <1>4, AfterRunEffect
<1>5. ASSUME NEW o \in Msg, CollectIndividually(o) \/ CollectBatch(o) \/ DrainNext(o)
      PROVE  fate'[queues[home[m]].items[i]] = "handed"
  <2>1. CASE \E q \in Queue : q.items = queues[o].items /\ Break(o, q)
    BY <2>1 DEF Break
  <2>2. ASSUME NEW q \in Queue, NEW items \in Seq(Msg), NEW summary \in SUBSET Msg,
               Handed(o, q, items), \A n \in summary : fate[n] = "summarized",
               RunFollowup(o, q, items, summary)
        PROVE  fate'[queues[home[m]].items[i]] = "handed"
    <3>1. \A n \in Msg : fate'[n] = IF n \in Elements(items) THEN "handed"
                                    ELSE IF n \in summary THEN "reported" ELSE fate[n]
      BY <2>2 DEF RunFollowup, Types
    <3>2. m \in Elements(items)
      BY <2>2, <3>1
    <3>3. /\ queues[o].items \in Seq(Msg)
          /\ Distinct(queues[o].items) /\ Elements(queues[o].items) = Waiting(o)
      BY DEF Types, Queue, ItemsAreWaiting
    <3>4. CASE items = <<>>
      BY <3>2, <3>4, NoElements
    <3>5. CASE items = queues[o].items
      <4>1. home[m] = o
        BY <3>2, <3>3, <3>5 DEF Waiting
      <4>2. queues[o].items[i] \in Elements(items) /\ Elements(items) \subseteq Msg
        BY <3>5, <4>1, ElementsType DEF Elements
      <4> QED
        BY <3>1, <4>1, <4>2
    <3>6. CASE queues[o].items # <<>> /\ items = <<Head(queues[o].items)>>
      <4>1. m = Head(queues[o].items) /\ m \in Elements(queues[o].items)
        BY <3>2, <3>3, <3>6, HeadAndTail
      <4>2. home[m] = o
        BY <3>3, <4>1 DEF Waiting
      <4>3. /\ 1 \in DOMAIN queues[o].items /\ queues[o].items[1] = m
            /\ DOMAIN queues[o].items = 1 .. Len(queues[o].items)
        BY <3>3, <3>6, <4>1
      <4>4. j = 1 /\ i \in 1 .. Len(queues[o].items)
        BY <3>3, <4>2, <4>3 DEF Distinct
      <4> QED
        BY <4>4
    <3> QED
      BY <2>2, <3>4, <3>5, <3>6 DEF Handed
  <2> QED
    BY <1>5, <2>1, <2>2, DrainEffect
<1>6. CASE ClearSessionQueues
  BY <1>6, ClearEffect
<1> QED
  BY <1>1, <1>2, <1>3, <1>4, <1>5, <1>6 DEF Next

\* Messages reach the agent in arrival order.
THEOREM NoOvertakingTheorem == Spec => NoOvertaking
<1>1. IInv /\ [Next]_vars =>
        [\A m \in Msg : fate[m] = "queued" /\ fate'[m] = "handed" =>
           LET items == queues[home[m]].items IN
             \A i, j \in DOMAIN items : i < j /\ items[j] = m => fate'[items[i]] = "handed"]_vars
  BY HandedInOrder
<1> QED
  BY <1>1, InvTheorem, PTL DEF Spec, NoOvertaking

\* A queued message was queued before, or is pushed by its own dispatch.
LEMMA QueuedBy ==
  ASSUME IInv, [Next]_vars, NEW m \in Msg, fate'[m] = "queued"
  PROVE  \/ fate[m] = "queued" /\ home'[m] = home[m]
         \/ /\ fate[m] \in {"new", "checked"} /\ ObjectFor(m) \in Msg
            /\ \E left, gone \in Seq(Msg) : Pushed(m, left, gone)
<1> DEFINE Before == fate[m] = "queued" /\ home'[m] = home[m]
           Now == /\ fate[m] \in {"new", "checked"} /\ ObjectFor(m) \in Msg
                  /\ \E left, gone \in Seq(Msg) : Pushed(m, left, gone)
<1>0. Types /\ OneDrainPerObject
  BY DEF IInv
<1> HIDE DEF Now
<1>1. ASSUME NEW k \in Msg, Arrive(k) \/ Dispatch(k) PROVE Before \/ Now
  <2>0. fate[k] \in {"new", "checked"} /\ ObjectFor(k) \in Msg
    BY <1>0, <1>1, DispatchFrame
  <2>1. CASE (\E s \in Settings : EnqueueFollowupRun(k, s)) /\ UNCHANGED runVars
    <3>1. PICK s \in Settings : EnqueueFollowupRun(k, s)
      BY <2>1
    <3>2. TurnedAway(k) \/ \E left, gone \in Seq(Msg) : Pushed(k, left, gone)
      BY <1>0, <3>1, EnqueueEffect
    <3>3. CASE TurnedAway(k)
      BY <1>0, <3>3 DEF TurnedAway, Types
    <3>4. ASSUME NEW left \in Seq(Msg), NEW gone \in Seq(Msg), Pushed(k, left, gone)
          PROVE  Before \/ Now
      <4>1. CASE k = m
        BY <2>0, <3>4, <4>1 DEF Now
      <4>2. CASE k # m
        BY <1>0, <3>4, <4>2 DEF Pushed, Types
      <4> QED
        BY <4>1, <4>2
    <3> QED
      BY <3>2, <3>3, <3>4
  <2>2. CASE /\ fate' = [fate EXCEPT ![k] = "direct"]
             /\ UNCHANGED <<queueVars, home, followup, external, externals>>
    BY <1>0, <2>2 DEF Types
  <2> QED
    BY <1>1, <2>1, <2>2, DispatchEffect
<1>2. ASSUME NEW k \in Msg, CheckActive(k) \/ Interrupt(k) PROVE Before
  BY <1>0, <1>2 DEF CheckActive, Interrupt, Types
<1>3. CASE \/ \E k \in Msg : StartReply(k) \/ EndReply(k) \/ ReplyThrows(k)
                          \/ StartFollowup(k) \/ EndFollowup(k)
           \/ ExternalRun
  BY <1>0, <1>3, RunEffect
<1>4. ASSUME NEW o \in Msg, DrainResume(o) \/ DrainFails(o) \/ FinalizeWithFollowup(o)
      PROVE  Before
  BY <1>0, <1>4, AfterRunEffect
<1>5. ASSUME NEW o \in Msg, CollectIndividually(o) \/ CollectBatch(o) \/ DrainNext(o)
      PROVE  Before
  BY <1>0, <1>5, DrainFrame
<1>6. CASE ClearSessionQueues
  BY <1>0, <1>6, ClearEffect
<1>7. CASE UNCHANGED vars
  BY <1>7 DEF vars
<1> QED
  BY <1>1, <1>2, <1>3, <1>4, <1>5, <1>6, <1>7 DEF Next, Now

\* Every step keeps two queued messages of one object apart.
LEMMA StepNoDuplicate == IInv /\ IInv' /\ NoDuplicateQueued /\ [Next]_vars => NoDuplicateQueued'
<1> SUFFICES ASSUME IInv, IInv', NoDuplicateQueued, [Next]_vars, NEW o \in Msg,
                    NEW m \in Elements(queues'[o].items), NEW n \in Elements(queues'[o].items),
                    m # n, IdOf[m] = IdOf[n], RouteOf[m] = RouteOf[n]
             PROVE  FALSE
  BY DEF NoDuplicateQueued, Elements
<1>1. \A k \in Elements(queues'[o].items) : k \in Msg /\ fate'[k] = "queued" /\ home'[k] = o
  <2>1. Elements(queues'[o].items) = Waiting(o)'
    BY DEF IInv, ItemsAreWaiting, Elements
  <2> QED
    BY <2>1 DEF Waiting
<1>2. \A k \in Msg : fate[k] = "queued" =>
        k \in Elements(queues[home[k]].items) \/ home[k] \notin Msg
  BY DEF IInv, ItemsAreWaiting, Waiting
<1>3. ASSUME NEW k \in Msg, NEW l \in Msg, fate'[k] = "queued", home'[k] = o, l # k,
             fate'[l] = "queued", home'[l] = o, IdOf[k] = IdOf[l], RouteOf[k] = RouteOf[l],
             fate[k] \in {"new", "checked"}, NEW left \in Seq(Msg), NEW gone \in Seq(Msg),
             Pushed(k, left, gone), ObjectFor(k) \in Msg
      PROVE  FALSE
  <2>1. o = ObjectFor(k) /\ ~IsRunAlreadyQueued(k, ItemsFor(k))
    BY <1>3 DEF Pushed, IInv, Types
  <2>2. fate[l] = "queued" /\ home[l] = o
    BY <1>3 DEF Pushed, IInv, Types
  <2>3. current # None /\ ObjectFor(k) = current
    BY <1>3, <2>1, <2>2 DEF ObjectFor, IInv, Untouched
  <2>4. l \in Elements(ItemsFor(k))
    BY <1>2, <2>1, <2>2, <2>3 DEF ItemsFor
  <2> QED
    BY <1>3, <2>1, <2>4 DEF IsRunAlreadyQueued
<1>4. fate[m] = "queued" /\ home[m] = o /\ fate[n] = "queued" /\ home[n] = o
  BY <1>1, <1>3, QueuedBy
<1>5. m \in Elements(queues[o].items) /\ n \in Elements(queues[o].items)
  BY <1>1, <1>2, <1>4
<1> QED
  BY <1>5 DEF NoDuplicateQueued

\* Two queued messages of one object never have the same id and destination.
THEOREM NoDuplicateTheorem == Spec => []NoDuplicateQueued
<1>1. Init => NoDuplicateQueued
  BY DEF Init, NoDuplicateQueued, NewQueue, Elements
<1> QED
  BY <1>1, StepNoDuplicate, InvTheorem, PTL DEF Spec

\* After a message is accepted its queue holds at most cap messages.
THEOREM CapTheorem == Spec => AcceptRespectsCap
<1>1. IInv /\ [Next]_vars =>
        [\A m \in Msg : fate[m] # "queued" /\ fate'[m] = "queued" =>
           Len(queues'[home'[m]].items) <= queues'[home'[m]].cap]_vars
  <2> SUFFICES ASSUME IInv, [Next]_vars, NEW m \in Msg, fate[m] # "queued", fate'[m] = "queued"
               PROVE  Len(queues'[home'[m]].items) <= queues'[home'[m]].cap
    OBVIOUS
  <2>1. PICK left \in Seq(Msg), gone \in Seq(Msg) : Pushed(m, left, gone)
    BY QueuedBy
  <2>2. home'[m] = ObjectFor(m)
    BY <2>1 DEF Pushed, IInv, Types
  <2> QED
    BY <2>1, <2>2 DEF Pushed
<1> QED
  BY <1>1, InvTheorem, PTL DEF Spec, AcceptRespectsCap

-----------------------------------------------------------------------------
(***************************************************************************)
(* What the summaries owe.  A message left is only reported by a run that  *)
(* the object can start, which it can from the first message on.           *)
(***************************************************************************)
Owes(o) ==
  /\ IsFiniteSet(Pending(o)) /\ queues[o].dropped = Cardinality(Pending(o))
  /\ queues[o].dropped > 0 => queues[o].hasRun

SummaryInv == \A o \in Msg : Owes(o)

\* The messages of a sequence without repetition are as many as it is long.
LEMMA CountElements ==
  ASSUME NEW s \in Seq(Msg), Distinct(s)
  PROVE  IsFiniteSet(Elements(s)) /\ Cardinality(Elements(s)) = Len(s)
<1>1. Len(s) \in Nat /\ DOMAIN s = 1 .. Len(s)
  OBVIOUS
<1>2. s \in Bijection(1 .. Len(s), Elements(s))
  <2>1. s \in [1 .. Len(s) -> Elements(s)]
    BY <1>1 DEF Elements
  <2>2. \A x \in Elements(s) : \E i \in 1 .. Len(s) : s[i] = x
    BY <1>1 DEF Elements
  <2>3. \A i, j \in 1 .. Len(s) : s[i] = s[j] => i = j
    BY <1>1 DEF Distinct
  <2> QED
    BY <2>1, <2>2, <2>3 DEF Bijection, Injection, Surjection, IsInjective
<1>3. ExistsBijection(1 .. Len(s), Elements(s))
  BY <1>2 DEF ExistsBijection
<1> QED
  BY <1>1, <1>3, FS_NatBijection, FS_CountingElements

\* The messages cut off at the front are as many as the cut says.
LEMMA CutCount ==
  ASSUME NEW s \in Seq(Msg), Distinct(s), NEW n \in 0 .. Len(s)
  PROVE  /\ IsFiniteSet(Elements(SubSeq(s, 1, n))) /\ Cardinality(Elements(SubSeq(s, 1, n))) = n
         /\ Elements(SubSeq(s, 1, n)) \subseteq Elements(s)
<1> DEFINE t == SubSeq(s, 1, n)
<1>1. /\ t \in Seq(Msg) /\ Len(t) = n /\ \A i \in 1 .. n : t[i] = s[i]
      /\ DOMAIN s = 1 .. Len(s) /\ DOMAIN t = 1 .. n /\ n \in Nat /\ Len(s) \in Nat /\ n <= Len(s)
  OBVIOUS
<1> HIDE DEF t
<1>2. Distinct(t)
  BY <1>1 DEF Distinct
<1>3. Elements(t) \subseteq Elements(s)
  BY <1>1 DEF Elements
<1>4. IsFiniteSet(Elements(t)) /\ Cardinality(Elements(t)) = n
  BY <1>1, <1>2, CountElements
<1> QED
  BY <1>3, <1>4 DEF t

\* An object that a step leaves alone owes what it owed.
LEMMA StillOwes ==
  ASSUME NEW o \in Msg, Owes(o), queues'[o].dropped = queues[o].dropped,
         queues[o].hasRun => queues'[o].hasRun, Pending(o)' = Pending(o)
  PROVE  Owes(o)'
  BY DEF Owes

\* An object owes nothing once all is reported or forgotten.
LEMMA OwesNothing ==
  ASSUME NEW o \in Msg, queues'[o].dropped = 0, Pending(o)' = {}
  PROVE  Owes(o)'
  BY FS_EmptySet DEF Owes

\* Starting a drain leaves the summaries alone.
LEMMA ScheduleSummary ==
  ASSUME NEW qs \in [Msg -> Queue], NEW c \in Msg \cup {None}, NEW pcs,
         ScheduleFollowupDrain(qs, c, pcs), NEW k \in Msg
  PROVE  queues'[k].dropped = qs[k].dropped /\ queues'[k].hasRun = qs[k].hasRun
<1>1. CASE queues' = qs
  BY <1>1
<1>2. CASE queues' = [qs EXCEPT ![c].draining = TRUE]
  <2>1. queues'[k] = qs[k] \/ queues'[k] = [qs[k] EXCEPT !.draining = TRUE]
    BY <1>2
  <2>2. qs[k] \in Queue
    OBVIOUS
  <2> QED
    BY <2>1, <2>2 DEF Queue
<1> QED
  BY <1>1, <1>2 DEF ScheduleFollowupDrain

\* The end of a drain leaves them alone as well.
LEMMA FinishSummary ==
  ASSUME Types, NEW o \in Msg, NEW q \in Queue, FinishDrain(o, q), NEW k \in Msg,
         q.dropped = queues[o].dropped, q.hasRun = queues[o].hasRun
  PROVE  queues'[k].dropped = queues[k].dropped /\ queues'[k].hasRun = queues[k].hasRun
<1> DEFINE qs == [queues EXCEPT ![o] = [q EXCEPT !.draining = FALSE]]
           pcs == [pc EXCEPT ![o] = "idle"]
<1>1. [q EXCEPT !.draining = FALSE] \in Queue
  BY DEF Queue
<1>2. qs \in [Msg -> Queue] /\ current \in Msg \cup {None}
  BY <1>1 DEF Types
<1>3. qs[k].dropped = queues[k].dropped /\ qs[k].hasRun = queues[k].hasRun
  BY DEF Types, Queue
<1>4. ScheduleFollowupDrain(qs, current, pcs) \/ queues' = qs
  BY DEF FinishDrain
<1> HIDE DEF qs, pcs
<1> QED
  BY <1>2, <1>3, <1>4, ScheduleSummary

\* The object that takes a message, with the settings of that message.
LEMMA TakerOwes ==
  ASSUME Types, Untouched, ItemsAreWaiting, SummaryInv, NEW m \in Msg,
         fate[m] \in {"new", "checked"}, NEW s \in Settings
  PROVE  /\ ObjectFor(m) \in Msg /\ Configured(s) \in Queue
         /\ Distinct(Configured(s).items)
         /\ Elements(Configured(s).items) = Waiting(ObjectFor(m))
         /\ IsFiniteSet(Pending(ObjectFor(m)))
         /\ Configured(s).dropped = Cardinality(Pending(ObjectFor(m)))
         /\ Configured(s).dropped > 0 => Configured(s).hasRun
<1>1. CASE current = None
  <2>1. Waiting(m) = {} /\ Pending(m) = {}
    BY DEF Waiting, Pending, Untouched
  <2>2. Configured(s).items = <<>> /\ Configured(s).dropped = 0
    BY <1>1 DEF Configured, NewQueue
  <2>3. ObjectFor(m) = m /\ Configured(s) \in Queue
    BY <1>1, ConfiguredQueue DEF ObjectFor
  <2>4. Distinct(Configured(s).items) /\ Elements(Configured(s).items) = {}
    BY <2>2, NoElements
  <2>5. IsFiniteSet(Pending(m)) /\ Cardinality(Pending(m)) = 0
    BY <2>1, FS_EmptySet
  <2>6. Waiting(ObjectFor(m)) = {} /\ Pending(ObjectFor(m)) = Pending(m)
    BY <2>1, <2>3
  <2> QED
    BY <2>2, <2>3, <2>4, <2>5, <2>6
<1>2. CASE current # None
  <2>1. current \in Msg /\ queues[current] \in Queue
    BY <1>2 DEF Types
  <2>2. /\ Configured(s).dropped = queues[current].dropped
        /\ Configured(s).hasRun = queues[current].hasRun
    BY <1>2, <2>1 DEF Configured, Queue
  <2> QED
    BY <1>2, <2>1, <2>2, ConfiguredQueue DEF ObjectFor, ItemsAreWaiting, SummaryInv, Owes
<1> QED
  BY <1>1, <1>2

\* A message that arrives is not pending, and does not become so.
LEMMA SameOwed ==
  ASSUME Types, SummaryInv, NEW m \in Msg, fate[m] # "summarized", NEW o \in Msg,
         NEW q \in Queue, queues' = [queues EXCEPT ![o] = q],
         q.dropped = Cardinality(Pending(o)), IsFiniteSet(Pending(o)),
         q.dropped > 0 => q.hasRun,
         fate'[m] # "summarized",
         \A k \in Msg \ {m} : fate'[k] = "summarized" <=> fate[k] = "summarized",
         \A k \in Msg \ {m} : home'[k] = home[k]
  PROVE  SummaryInv'
<1>1. \A p \in Msg : Pending(p)' = Pending(p)
  BY DEF Pending
<1>2. queues'[o] = q /\ \A p \in Msg \ {o} : queues'[p] = queues[p]
  BY DEF Types
<1>3. \A p \in Msg \ {o} : Owes(p)'
  BY <1>1, <1>2, StillOwes DEF SummaryInv
<1>4. Owes(o)'
  BY <1>1, <1>2 DEF Owes
<1> QED
  BY <1>3, <1>4 DEF SummaryInv

\* A message that is taken, turned away, or takes the place of others.
LEMMA EnqueueSummary ==
  ASSUME Types, Untouched, ItemsAreWaiting, SummaryInv, NEW m \in Msg,
         fate[m] \in {"new", "checked"}, NEW s \in Settings, EnqueueFollowupRun(m, s)
  PROVE  SummaryInv'
<1>0. PICK o \in Msg : o = ObjectFor(m)
  BY TakerOwes
<1> DEFINE q == Configured(s)
           next == [q EXCEPT !.hasRun = TRUE]
           full == Len(q.items) >= q.cap
           fateOnDrop == IF q.drop = "summarize" THEN "summarized" ELSE "dropped"
<1>1. /\ q \in Queue /\ o \in Msg /\ Distinct(q.items) /\ Elements(q.items) = Waiting(o)
      /\ IsFiniteSet(Pending(o)) /\ q.dropped = Cardinality(Pending(o))
      /\ q.dropped > 0 => q.hasRun
  BY <1>0, TakerOwes
<1>2. \/ /\ queues' = [queues EXCEPT ![o] = q]
         /\ fate' = [fate EXCEPT ![m] = "duplicate"]
         /\ UNCHANGED home
      \/ /\ queues' = [queues EXCEPT ![o] = next]
         /\ fate' = [fate EXCEPT ![m] = "refused"]
         /\ UNCHANGED home
      \/ /\ queues' = [queues EXCEPT ![o] = [next EXCEPT !.items = Append(@, m)]]
         /\ fate' = [fate EXCEPT ![m] = "queued"]
         /\ home' = [home EXCEPT ![m] = o]
      \/ /\ full
         /\ queues' = [queues EXCEPT ![o] = Overflow(next, m)]
         /\ fate' = [k \in Msg |-> IF k = m THEN "queued"
                                   ELSE IF k \in Elements(Dropped(q)) THEN fateOnDrop
                                   ELSE fate[k]]
         /\ home' = [home EXCEPT ![m] = o]
  BY <1>0 DEF EnqueueFollowupRun, ObjectFor
<1> HIDE DEF q
<1>3. next \in Queue /\ next.dropped = q.dropped /\ next.hasRun = TRUE
      /\ next.items = q.items /\ next.cap = q.cap /\ next.drop = q.drop /\ next.lines = q.lines
      /\ q.items \in Seq(Msg) /\ q.cap \in Nat \ {0} /\ q.dropped \in Nat
      /\ q.drop \in {"summarize", "old", "new"}
  BY <1>1 DEF Queue
<1> HIDE DEF next
<1>4. fate \in [Msg -> Fate] /\ home \in [Msg -> Msg \cup {None}]
  BY DEF Types
<1>5. CASE \E r \in {q, next} : queues' = [queues EXCEPT ![o] = r]
           /\ \E f \in {"duplicate", "refused"} : fate' = [fate EXCEPT ![m] = f]
           /\ UNCHANGED home
  <2>1. PICK r \in {q, next} : queues' = [queues EXCEPT ![o] = r]
    BY <1>5
  <2>2. /\ r \in Queue /\ r.dropped = Cardinality(Pending(o))
        /\ r.dropped > 0 => r.hasRun
    BY <1>1, <1>3
  <2>3. /\ fate'[m] # "summarized" /\ fate[m] # "summarized"
        /\ \A k \in Msg \ {m} : fate'[k] = fate[k] /\ home'[k] = home[k]
    BY <1>4, <1>5
  <2> QED
    BY <1>1, <2>1, <2>2, <2>3, SameOwed
<1>6. CASE /\ queues' = [queues EXCEPT ![o] = [next EXCEPT !.items = Append(@, m)]]
           /\ fate' = [fate EXCEPT ![m] = "queued"]
           /\ home' = [home EXCEPT ![m] = o]
  <2> DEFINE r == [next EXCEPT !.items = Append(@, m)]
  <2>1. Append(next.items, m) \in Seq(Msg)
    BY <1>3
  <2>2. r \in Queue /\ r.dropped = next.dropped /\ r.hasRun = next.hasRun
    BY <1>3, <2>1 DEF Queue
  <2>3. /\ fate'[m] # "summarized"
        /\ \A k \in Msg \ {m} : fate'[k] = fate[k] /\ home'[k] = home[k]
    BY <1>4, <1>6
  <2> HIDE DEF r
  <2>4. queues' = [queues EXCEPT ![o] = r]
    BY <1>6 DEF r
  <2> QED
    BY <1>1, <1>3, <2>2, <2>3, <2>4, SameOwed
<1>7. CASE /\ full
           /\ queues' = [queues EXCEPT ![o] = Overflow(next, m)]
           /\ fate' = [k \in Msg |-> IF k = m THEN "queued"
                                     ELSE IF k \in Elements(Dropped(q)) THEN fateOnDrop
                                     ELSE fate[k]]
           /\ home' = [home EXCEPT ![m] = o]
  <2> DEFINE D == Elements(Dropped(q))
             r == Overflow(next, m)
  <2>1. Kept(next) = Kept(q) /\ Dropped(next) = Dropped(q) /\ DropCount(next) = DropCount(q)
    BY <1>3 DEF Kept, Dropped, DropCount
  <2>2. r \in Queue
    BY <1>3, <1>7, OverflowSplit DEF full
  <2>3. DropCount(q) \in 0 .. Len(q.items) /\ DropCount(q) \in Nat
    BY <1>3, <1>7 DEF DropCount, full
  <2>4. IsFiniteSet(D) /\ Cardinality(D) = DropCount(q) /\ D \subseteq Waiting(o)
    BY <1>1, <1>3, <2>3, CutCount DEF Dropped
  <2>5. /\ r.dropped = IF q.drop = "summarize" THEN q.dropped + DropCount(q) ELSE q.dropped
        /\ r.hasRun = TRUE
    <3> HIDE DEF Kept, Dropped, DropCount
    <3> QED
      BY <1>3, <2>1 DEF Overflow, Queue
  <2>6. /\ \A k \in Msg : fate'[k] = IF k = m THEN "queued" ELSE IF k \in D THEN fateOnDrop
                                     ELSE fate[k]
        /\ \A k \in Msg \ {m} : home'[k] = home[k]
    BY <1>4, <1>7
  <2>7. \A k \in D : fate[k] = "queued" /\ home[k] = o /\ k \in Msg /\ k # m
    BY <2>4 DEF Waiting
  <2> HIDE DEF D, r
  <2>8. queues' = [queues EXCEPT ![o] = r]
    BY <1>7 DEF r
  <2>9. CASE q.drop # "summarize"
    BY <1>1, <2>2, <2>5, <2>6, <2>7, <2>8, <2>9, SameOwed
  <2>10. CASE q.drop = "summarize"
    <3>1. Pending(o)' = Pending(o) \cup D
      <4>1. \A k \in Msg : k \in Pending(o)' <=> k \in Pending(o) \/ k \in D
        BY <2>6, <2>7, <2>10 DEF Pending
      <4>2. Pending(o)' \subseteq Msg /\ Pending(o) \subseteq Msg /\ D \subseteq Msg
        BY <2>7 DEF Pending
      <4> QED
        BY <4>1, <4>2
    <3>2. \A p \in Msg \ {o} : Pending(p)' = Pending(p)
      BY <2>6, <2>7, <2>10 DEF Pending
    <3>3. Pending(o) \cap D = {}
      BY <2>7 DEF Pending
    <3>4. /\ IsFiniteSet(Pending(o) \cup D)
          /\ Cardinality(Pending(o) \cup D) = q.dropped + DropCount(q)
      <4>1. /\ IsFiniteSet(Pending(o) \cup D)
            /\ Cardinality(Pending(o) \cup D) = Cardinality(Pending(o)) + Cardinality(D)
                                                 - Cardinality(Pending(o) \cap D)
        BY <1>1, <2>4, FS_Union
      <4>2. Cardinality(Pending(o) \cap D) = 0
        BY <3>3, FS_EmptySet
      <4> QED
        BY <1>1, <1>3, <2>3, <2>4, <4>1, <4>2
    <3>5. queues'[o] = r /\ \A p \in Msg \ {o} : queues'[p] = queues[p]
      BY <1>1, <2>8 DEF Types
    <3>6. Owes(o)'
      BY <2>5, <2>10, <3>1, <3>4, <3>5 DEF Owes
    <3>7. \A p \in Msg \ {o} : Owes(p)'
      BY <3>2, <3>5, StillOwes DEF SummaryInv
    <3> QED
      BY <3>6, <3>7 DEF SummaryInv
  <2> QED
    BY <2>9, <2>10
<1> QED
  BY <1>2, <1>5, <1>6, <1>7

\* A step that reports nothing and drops nothing.
LEMMA QuietSummary ==
  ASSUME SummaryInv, home' = home,
         \A k \in Msg : /\ queues'[k].dropped = queues[k].dropped
                        /\ queues'[k].hasRun = queues[k].hasRun
                        /\ fate'[k] = "summarized" <=> fate[k] = "summarized"
  PROVE  SummaryInv'
<1>1. \A o \in Msg : Pending(o)' = Pending(o)
  BY DEF Pending
<1> QED
  BY <1>1, StillOwes DEF SummaryInv

\* A run takes items: what waits in the queue is not summarized.
LEMMA HandSummary ==
  ASSUME Types, ItemsAreWaiting, SummaryInv, NEW o \in Msg, NEW q \in Queue,
         NEW items \in Seq(Msg), RunFollowup(o, q, items, {}), home' = home,
         Elements(items) \subseteq Elements(queues[o].items),
         q.dropped = queues[o].dropped, q.hasRun = queues[o].hasRun
  PROVE  SummaryInv'
<1>1. \A k \in Msg : fate'[k] = IF k \in Elements(items) THEN "handed" ELSE fate[k]
  BY DEF RunFollowup, Types
<1>2. \A k \in Elements(items) : fate[k] = "queued"
  BY DEF ItemsAreWaiting, Waiting
<1>3. \A k \in Msg : /\ queues'[k].dropped = queues[k].dropped
                     /\ queues'[k].hasRun = queues[k].hasRun
  BY DEF RunFollowup, Types
<1> QED
  BY <1>1, <1>2, <1>3, QuietSummary

\* A run takes the summary, and all the items or none.
LEMMA ReportSummary ==
  ASSUME Types, ItemsAreWaiting, SummaryInv, NEW o \in Msg, NEW q \in Queue,
         NEW items \in Seq(Msg), RunFollowup(o, q, items, Pending(o)), home' = home,
         Elements(items) \subseteq Elements(queues[o].items), q.dropped = 0
  PROVE  SummaryInv'
<1>1. \A k \in Msg : fate'[k] = IF k \in Elements(items) THEN "handed"
                                ELSE IF k \in Pending(o) THEN "reported" ELSE fate[k]
  BY DEF RunFollowup, Types
<1>2. \A k \in Elements(items) : fate[k] = "queued"
  BY DEF ItemsAreWaiting, Waiting
<1>3. queues'[o] = q /\ \A p \in Msg \ {o} : queues'[p] = queues[p]
  BY DEF RunFollowup, Types
<1>4. Pending(o)' = {}
  BY <1>1, <1>2 DEF Pending
<1>5. \A p \in Msg \ {o} : Pending(p)' = Pending(p)
  BY <1>1, <1>2 DEF Pending
<1>6. Owes(o)'
  BY <1>3, <1>4, OwesNothing
<1>7. \A p \in Msg \ {o} : Owes(p)'
  BY <1>3, <1>5, StillOwes DEF SummaryInv
<1> QED
  BY <1>6, <1>7 DEF SummaryInv

\* The drain breaks off with the summary it had.
LEMMA BreakSummary ==
  ASSUME Types, SummaryInv, NEW o \in Msg, NEW q \in Queue, Break(o, q), home' = home,
         q.dropped = queues[o].dropped, q.hasRun = queues[o].hasRun
  PROVE  SummaryInv'
<1>1. FinishDrain(o, q) /\ fate' = fate
  BY DEF Break
<1>2. \A k \in Msg : /\ queues'[k].dropped = queues[k].dropped
                     /\ queues'[k].hasRun = queues[k].hasRun
  BY <1>1, FinishSummary
<1> QED
  BY <1>1, <1>2, QuietSummary

\* One iteration of a drain.
LEMMA DrainSummary ==
  ASSUME Types, ItemsAreWaiting, SummaryInv, NEW o \in Msg,
         CollectIndividually(o) \/ CollectBatch(o) \/ DrainNext(o)
  PROVE  SummaryInv'
<1> DEFINE Q == queues[o]
<1>1. /\ Q \in Queue /\ Q.items \in Seq(Msg) /\ home' = home
      /\ Q.dropped \in Nat /\ (Q.dropped > 0 => Q.hasRun)
  <2>1. Q \in Queue /\ home' = home
    BY DrainEffect DEF Types
  <2> QED
    BY <2>1 DEF Queue, SummaryInv, Owes
<1>2. /\ Summarized(Q) \in Queue /\ Summarized(Q).items = Q.items
      /\ Summarized(Q).dropped = 0 /\ Summarized(Q).hasRun = Q.hasRun
  <2> HIDE DEF Q
  <2> QED
    BY <1>1, NoElements DEF Summarized, Queue
<1>3. ASSUME NEW individually \in BOOLEAN, TakeNext(o, individually) PROVE SummaryInv'
  <2>1. CASE Q.items # <<>>
    <3> DEFINE q == [Q EXCEPT !.items = Tail(@)]
               one == <<Head(Q.items)>>
    <3>1. /\ Head(Q.items) \in Msg /\ Tail(Q.items) \in Seq(Msg) /\ one \in Seq(Msg)
          /\ Elements(one) = {Head(Q.items)} /\ Head(Q.items) \in Elements(Q.items)
      BY <1>1, <2>1, HeadAndTail
    <3>2. q \in Queue /\ q.dropped = Q.dropped /\ q.hasRun = Q.hasRun
      BY <1>1, <3>1 DEF Queue
    <3>3. RunFollowup(o, q, one, {})
      BY <1>3, <2>1 DEF TakeNext
    <3> HIDE DEF q, one
    <3> QED
      BY <1>1, <3>1, <3>2, <3>3, HandSummary
  <2>2. CASE Q.items = <<>>
    <3>1. Break(o, Q)
      BY <1>3, <2>2 DEF TakeNext
    <3> QED
      BY <1>1, <3>1, BreakSummary
  <2> QED
    BY <2>1, <2>2
<1>4. CASE CollectIndividually(o)
  BY <1>3, <1>4 DEF CollectIndividually
<1>5. CASE CollectBatch(o)
  <2> DEFINE rest == [(IF HasSummary(Q) THEN Summarized(Q) ELSE Q) EXCEPT !.items = <<>>]
             summary == IF HasSummary(Q) THEN Pending(o) ELSE {}
  <2>1. \/ RunFollowup(o, rest, Q.items, summary)
        \/ Q.items = <<>> /\ ~Q.hasRun /\ Break(o, rest)
    BY <1>5 DEF CollectBatch
  <2>2. CASE HasSummary(Q)
    <3>1. rest = [Summarized(Q) EXCEPT !.items = <<>>] /\ summary = Pending(o)
      BY <2>2
    <3>2. rest \in Queue /\ rest.dropped = 0 /\ Q.hasRun
      BY <1>1, <1>2, <2>2, <3>1, NoElements DEF HasSummary, Queue
    <3> HIDE DEF rest, summary
    <3>3. RunFollowup(o, rest, Q.items, Pending(o))
      BY <2>1, <3>1, <3>2
    <3> QED
      BY <1>1, <3>2, <3>3, ReportSummary
  <2>3. CASE ~HasSummary(Q)
    <3>1. rest = [Q EXCEPT !.items = <<>>] /\ summary = {}
      BY <2>3
    <3>2. rest \in Queue /\ rest.dropped = Q.dropped /\ rest.hasRun = Q.hasRun
      BY <1>1, <3>1, NoElements DEF Queue
    <3> HIDE DEF rest, summary
    <3>3. RunFollowup(o, rest, Q.items, {}) \/ Break(o, rest)
      BY <2>1, <3>1
    <3> QED
      BY <1>1, <3>2, <3>3, HandSummary, BreakSummary
  <2> QED
    BY <2>2, <2>3
<1>6. CASE DrainNext(o)
  <2>1. CASE HasSummary(Q)
    <3>1. Q.hasRun
      BY <1>1, <2>1 DEF HasSummary
    <3>2. RunFollowup(o, Summarized(Q), <<>>, Pending(o))
      BY <1>6, <2>1, <3>1 DEF DrainNext
    <3>3. <<>> \in Seq(Msg) /\ Elements(<<>>) \subseteq Elements(Q.items)
      BY NoElements
    <3> QED
      BY <1>1, <1>2, <3>2, <3>3, ReportSummary
  <2>2. CASE ~HasSummary(Q)
    <3>1. TakeNext(o, forced[o]) /\ forced[o] \in BOOLEAN
      BY <1>6, <2>2 DEF DrainNext, Types
    <3> QED
      BY <1>3, <3>1
  <2> QED
    BY <2>1, <2>2
<1> QED
  BY <1>4, <1>5, <1>6

\* A run is over: drains may start, go on or end.
LEMMA AfterRunSummary ==
  ASSUME Types, OneDrainPerObject, SummaryInv, NEW o \in Msg,
         DrainResume(o) \/ DrainFails(o) \/ FinalizeWithFollowup(o)
  PROVE  SummaryInv'
<1>1. UNCHANGED <<fate, home>>
  BY AfterRunEffect
<1>2. /\ queues \in [Msg -> Queue] /\ current \in Msg \cup {None} /\ queues[o] \in Queue
  BY DEF Types
<1>3. \/ ScheduleFollowupDrain(queues, current, pc)
      \/ FinishDrain(o, queues[o])
      \/ UNCHANGED queues
  BY DEF DrainResume, DrainFails, FinalizeWithFollowup
<1>4. \A k \in Msg : /\ queues'[k].dropped = queues[k].dropped
                     /\ queues'[k].hasRun = queues[k].hasRun
  BY <1>2, <1>3, ScheduleSummary, FinishSummary
<1> QED
  BY <1>1, <1>4, QuietSummary

\* A clear forgets the summary together with the messages it is about.
LEMMA ClearSummary ==
  ASSUME Types, SummaryInv, ClearSessionQueues
  PROVE  SummaryInv'
<1>1. home' = home
  BY ClearEffect
<1>2. CASE current # None
  <2>1. PICK o \in Msg : o = current
    BY <1>2 DEF Types
  <2>2. /\ queues' = [queues EXCEPT ![o].items = <<>>, ![o].dropped = 0,
                                    ![o].lines = <<>>, ![o].hasRun = FALSE]
        /\ fate' = [m \in Msg |-> IF home[m] = o /\ fate[m] \in {"queued", "summarized"}
                                    THEN "cleared" ELSE fate[m]]
    BY <1>2, <2>1 DEF ClearSessionQueues
  <2>3. queues'[o].dropped = 0 /\ \A p \in Msg \ {o} : queues'[p] = queues[p]
    BY <2>2 DEF Types, Queue
  <2>4. Pending(o)' = {}
    BY <1>1, <2>2 DEF Pending
  <2>5. \A p \in Msg \ {o} : Pending(p)' = Pending(p)
    BY <1>1, <2>2 DEF Pending
  <2>6. Owes(o)'
    BY <2>3, <2>4, OwesNothing
  <2>7. \A p \in Msg \ {o} : Owes(p)'
    BY <2>3, <2>5, StillOwes DEF SummaryInv
  <2> QED
    BY <2>6, <2>7 DEF SummaryInv
<1>3. CASE current = None
  BY <1>1, <1>3, QuietSummary DEF ClearSessionQueues
<1> QED
  BY <1>2, <1>3

\* Every step keeps the account of the summaries.
LEMMA StepSummary == IInv /\ SummaryInv /\ [Next]_vars => SummaryInv'
<1> SUFFICES ASSUME IInv, SummaryInv, [Next]_vars PROVE SummaryInv'
  OBVIOUS
<1> USE DEF IInv
<1>1. ASSUME NEW m \in Msg, Arrive(m) \/ Dispatch(m) PROVE SummaryInv'
  <2>1. CASE \E s \in Settings : EnqueueFollowupRun(m, s)
    BY <1>1, <2>1, DispatchEffect, EnqueueSummary
  <2>2. CASE /\ fate' = [fate EXCEPT ![m] = "direct"]
             /\ UNCHANGED <<queueVars, home, followup, external, externals>>
    <3>1. \A k \in Msg : fate'[k] = "summarized" <=> fate[k] = "summarized"
      BY <1>1, <2>2, DispatchEffect DEF Types
    <3> QED
      BY <2>2, <3>1, QuietSummary DEF queueVars
  <2> QED
    BY <1>1, <2>1, <2>2, DispatchEffect
<1>2. ASSUME NEW m \in Msg, CheckActive(m) \/ Interrupt(m) PROVE SummaryInv'
  <2>1. /\ UNCHANGED <<queues, home>> /\ fate[m] = "new"
        /\ \E f \in {"checked", "direct"} : fate' = [fate EXCEPT ![m] = f]
    BY <1>2 DEF CheckActive, Interrupt, queueVars
  <2> QED
    BY <2>1, QuietSummary DEF Types
<1>3. CASE \/ \E m \in Msg : StartReply(m) \/ EndReply(m) \/ ReplyThrows(m)
                          \/ StartFollowup(m) \/ EndFollowup(m)
           \/ ExternalRun
  BY <1>3, RunEffect, QuietSummary DEF queueVars
<1>4. ASSUME NEW o \in Msg, DrainResume(o) \/ DrainFails(o) \/ FinalizeWithFollowup(o)
      PROVE  SummaryInv'
  BY <1>4, AfterRunSummary
<1>5. ASSUME NEW o \in Msg, CollectIndividually(o) \/ CollectBatch(o) \/ DrainNext(o)
      PROVE  SummaryInv'
  BY <1>5, DrainSummary
<1>6. CASE ClearSessionQueues
  BY <1>6, ClearSummary
<1>7. CASE UNCHANGED vars
  BY <1>7, QuietSummary DEF vars
<1> QED
  BY <1>1, <1>2, <1>3, <1>4, <1>5, <1>6, <1>7 DEF Next

\* droppedCount of an object is the number of its messages a summary still owes:
\* whatever is dropped, reported or cleared, none is forgotten or counted twice.
THEOREM SummaryTheorem == Spec => []SummaryCount
<1>1. Init => SummaryInv
  <2> SUFFICES ASSUME Init, NEW o \in Msg PROVE Owes(o)
    BY DEF SummaryInv
  <2>1. Pending(o) = {}
    BY DEF Init, Pending
  <2>2. queues[o].dropped = 0
    BY DEF Init, NewQueue
  <2> QED
    BY <2>1, <2>2, FS_EmptySet DEF Owes
<1>2. SummaryInv => SummaryCount
  BY DEF SummaryInv, Owes, SummaryCount
<1> QED
  BY <1>1, <1>2, StepSummary, InvTheorem, PTL DEF Spec
=============================================================================
