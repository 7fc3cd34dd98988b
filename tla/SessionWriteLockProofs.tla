----------------------- MODULE SessionWriteLockProofs -----------------------
(***************************************************************************)
(* Proofs about SessionWriteLock.                                          *)
(***************************************************************************)
EXTENDS SessionWriteLock, FiniteSetTheorems, TLAPS

USE ProcOfAssumption, NoneAssumption

Holders(p) == {c \in Caller : ProcOf[c] = p /\ pc[c] = "holding"}

\* Nothing is left of the callers of a dead process but its lock file.
DeadAreOut ==
  /\ \A c \in Caller : ~alive[ProcOf[c]] <=> pc[c] = "dead"
  /\ \A p \in Proc : ~alive[p] => held[p] = None

\* An entry of HELD_LOCKS stands for the file at the path.
EntryIsFile ==
  \A p \in Proc : held[p] # None =>
    /\ file = held[p].handle /\ ProcOf[file] = p /\ payload = "fresh"
    /\ \A c \in Caller : pc[c] \notin {"write", "remove", "unlink"}

\* Who writes the payload writes it into the file at the path.
WriterIsFile ==
  \A c \in Caller : pc[c] = "write" => file = c /\ payload = "empty" /\ Alone(c)

\* Who is about to remove the path after its release removes its own file.
UnlinkerIsFile ==
  \A c \in Caller : pc[c] = "unlink" =>
    /\ file # None /\ ProcOf[file] = ProcOf[c] /\ payload = "fresh" /\ alive[ProcOf[c]]
    /\ \A d \in Caller \ {c} : pc[d] \notin {"write", "remove", "unlink"}

\* Who is about to remove a stale file still finds it stale.
RemoverIsRight == \A c \in Caller : pc[c] = "remove" => Stale /\ Alone(c)

\* Who reads the file is the only one that writes, reads or removes.
ReaderAlone ==
  \A c, d \in Caller : pc[c] = "read" /\ pc[d] \in {"write", "read", "remove"} => c = d

\* A file is there because somebody holds, writes or removes it, or because
\* its writer failed or died.
FileHasReason ==
  /\ file = None => payload = "empty"
  /\ payload # "old"
  /\ file # None /\ payload = "empty" => pc[file] \in {"write", "failed", "dead"}
  /\ file # None /\ payload = "fresh" =>
       \/ ~alive[ProcOf[file]] \/ held[ProcOf[file]] # None
       \/ \E c \in Caller : pc[c] = "unlink"

\* No entry counts more callers than hold, and the count is right in a process in
\* which no second call has opened the file and that has survived no signal.
HoldersCounted ==
  \A p \in Proc :
    /\ IsFiniteSet(Holders(p))
    /\ held[p] # None => held[p].count <= Cardinality(Holders(p))
    /\ p \notin astray =>
         Cardinality(Holders(p)) = IF held[p] = None THEN 0 ELSE held[p].count

\* In such a process whoever writes is the only one to, and there is no entry yet.
OneWriter ==
  \A p \in Proc \ astray : \A c, d \in Caller : ProcOf[c] = p /\ pc[c] = "write" =>
    held[p] = None /\ (ProcOf[d] = p /\ pc[d] = "write" => d = c)

\* Whatever has happened, the file of a living process is one that its caller writes,
\* or failed to write, or that an entry or a pending removal of the process answers for.
FileOwned ==
  file # None /\ alive[ProcOf[file]] =>
    \/ pc[file] \in {"write", "failed"}
    \/ held[ProcOf[file]] # None
    \/ \E c \in Caller : ProcOf[c] = ProcOf[file] /\ pc[c] = "unlink"

Counts == HoldersCounted /\ OneWriter /\ FileOwned

\* What the order of the file operations keeps true on a clean history.
Files ==
  /\ EntryIsFile /\ WriterIsFile /\ UnlinkerIsFile
  /\ RemoverIsRight /\ ReaderAlone /\ FileHasReason

IInv == TypeOK /\ DeadAreOut /\ Counts /\ (clean => Files /\ astray = {})

-----------------------------------------------------------------------------
\* The initial state is typed.
LEMMA InitTypes == Init => TypeOK
BY DEF Init, TypeOK, Step, HeldLock

\* Every step keeps the types.
LEMMA StepTypes == TypeOK /\ [Next]_vars => TypeOK'
<1> SUFFICES ASSUME TypeOK, [Next]_vars PROVE TypeOK'
  OBVIOUS
<1> USE DEF TypeOK, Step, Goto, NoFile
<1>1. ASSUME NEW c \in Caller, Acquire(c) PROVE TypeOK'
  <2>1. held[ProcOf[c]] # None =>
          [held EXCEPT ![ProcOf[c]].count = @ + 1] \in [Proc -> HeldLock \cup {None}]
    BY DEF HeldLock
  <2> QED
    BY <1>1, <2>1 DEF Acquire
<1>2. ASSUME NEW c \in Caller, Open(c) PROVE TypeOK'
  BY <1>2 DEF Open, Alone, Taken
<1>3. ASSUME NEW c \in Caller, Write(c) PROVE TypeOK'
  <2>1. [count |-> 1, handle |-> c] \in HeldLock
    BY DEF HeldLock
  <2> QED
    BY <1>3, <2>1 DEF Write
<1>4. ASSUME NEW c \in Caller, WriteFails(c) \/ Retry(c) \/ Timeout(c) PROVE TypeOK'
  BY <1>4 DEF WriteFails, Retry, Timeout
<1>5. ASSUME NEW c \in Caller, Read(c) PROVE TypeOK'
  BY <1>5 DEF Read
<1>6. ASSUME NEW c \in Caller, Remove(c) \/ Unlink(c) PROVE TypeOK'
  BY <1>6 DEF Remove, Unlink
<1>7. ASSUME NEW c \in Caller, Release(c) PROVE TypeOK'
  <2>1. held[ProcOf[c]] # None /\ held[ProcOf[c]].count > 1 =>
          [held EXCEPT ![ProcOf[c]].count = @ - 1] \in [Proc -> HeldLock \cup {None}]
    BY DEF HeldLock
  <2> QED
    BY <1>7, <2>1 DEF Release
<1>8. ASSUME NEW c \in Caller, Outlive(c) PROVE TypeOK'
  BY <1>8 DEF Outlive
<1>9. ASSUME NEW p \in Proc, Signal(p) PROVE TypeOK'
  BY <1>9 DEF Signal
<1>10. ASSUME NEW p \in Proc, Exit(p) \/ Crash(p) PROVE TypeOK'
  BY <1>10 DEF Exit, Crash, Gone
<1> QED
  BY <1>1, <1>2, <1>3, <1>4, <1>5, <1>6, <1>7, <1>8, <1>9, <1>10 DEF Next, vars

\* Every variable has its type in every reachable state.
THEOREM TypesTheorem == Spec => []TypeOK
BY InitTypes, StepTypes, PTL DEF Spec

-----------------------------------------------------------------------------
\* Every step keeps the dead out.
LEMMA StepDead == TypeOK /\ TypeOK' /\ DeadAreOut /\ [Next]_vars => DeadAreOut'
<1> SUFFICES ASSUME TypeOK, TypeOK', DeadAreOut, [Next]_vars PROVE DeadAreOut'
  OBVIOUS
<1> USE DEF TypeOK, DeadAreOut, Goto
<1>1. ASSUME NEW c \in Caller, Acquire(c) PROVE DeadAreOut'
  BY <1>1 DEF Acquire
<1>2. ASSUME NEW c \in Caller, Open(c) PROVE DeadAreOut'
  BY <1>2 DEF Open
<1>3. ASSUME NEW c \in Caller, Write(c) PROVE DeadAreOut'
  BY <1>3 DEF Write
<1>4. ASSUME NEW c \in Caller, WriteFails(c) \/ Retry(c) \/ Timeout(c) PROVE DeadAreOut'
  BY <1>4 DEF WriteFails, Retry, Timeout
<1>5. ASSUME NEW c \in Caller, Read(c) PROVE DeadAreOut'
  BY <1>5 DEF Read
<1>6. ASSUME NEW c \in Caller, Remove(c) \/ Unlink(c) PROVE DeadAreOut'
  BY <1>6 DEF Remove, Unlink
<1>7. ASSUME NEW c \in Caller, Release(c) PROVE DeadAreOut'
  BY <1>7 DEF Release
<1>8. ASSUME NEW c \in Caller, Outlive(c) PROVE DeadAreOut'
  BY <1>8 DEF Outlive
<1>9. ASSUME NEW p \in Proc, Signal(p) PROVE DeadAreOut'
  BY <1>9 DEF Signal
<1>10. ASSUME NEW p \in Proc, Exit(p) \/ Crash(p) PROVE DeadAreOut'
  BY <1>10 DEF Exit, Crash, Gone
<1> QED
  BY <1>1, <1>2, <1>3, <1>4, <1>5, <1>6, <1>7, <1>8, <1>9, <1>10 DEF Next, vars

\* A process without a holder counts none, one with a holder has an entry.
LEMMA HolderHasEntry ==
  ASSUME TypeOK, HoldersCounted, NEW c \in Caller, pc[c] = "holding", ProcOf[c] \notin astray
  PROVE  held[ProcOf[c]] # None
<1>1. c \in Holders(ProcOf[c])
  BY DEF Holders
<1>2. IsFiniteSet(Holders(ProcOf[c])) /\ Holders(ProcOf[c]) # {}
  BY <1>1 DEF HoldersCounted
<1>3. Cardinality(Holders(ProcOf[c])) # 0
  BY <1>2, FS_EmptySet
<1> QED
  BY <1>3 DEF HoldersCounted

\* On a clean history, the steps of callers keep the files in order.
LEMMA CallerFiles ==
  ASSUME TypeOK, TypeOK', DeadAreOut, Files, HoldersCounted, astray = {}, clean', NEW c \in Caller,
         \/ Acquire(c) \/ Open(c) \/ Write(c) \/ WriteFails(c) \/ Read(c) \/ Remove(c)
         \/ Retry(c) \/ Timeout(c) \/ Release(c) \/ Unlink(c) \/ Outlive(c)
  PROVE  Files'
<1> USE DEF TypeOK, DeadAreOut, Files, EntryIsFile, WriterIsFile, UnlinkerIsFile,
      RemoverIsRight, ReaderAlone, FileHasReason, Goto, Alone, Stale
<1>1. CASE Acquire(c)
  <2>1. /\ \A p \in Proc : held'[p] # None => held[p] # None /\ held'[p].handle = held[p].handle
        /\ \A p \in Proc : held[p] # None => held'[p] # None
    BY <1>1 DEF Acquire, HeldLock
  <2>2. \A d \in Caller : \/ pc'[d] = pc[d]
                          \/ pc[d] = "idle" /\ pc'[d] \in {"open", "holding"}
    BY <1>1 DEF Acquire
  <2>3. UNCHANGED <<file, payload, alive, clean>>
    BY <1>1 DEF Acquire
  <2> QED
    BY ONLY <2>1, <2>2, <2>3, TypeOK, TypeOK', Files DEF TypeOK, Files, EntryIsFile, WriterIsFile,
      UnlinkerIsFile, RemoverIsRight, ReaderAlone, FileHasReason, Alone, Stale
<1>2. CASE Open(c)
  <2>1. Alone(c) /\ pc[c] = "open"
    BY <1>2 DEF Open
  <2>2. CASE file = None
    <3>1. /\ file' = c /\ pc' = [pc EXCEPT ![c] = "write"]
          /\ UNCHANGED <<payload, held, alive>>
      BY <1>2, <2>2 DEF Open
    <3> QED
      BY <2>1, <2>2, <3>1
  <2>3. CASE file # None
    <3>1. pc' = [pc EXCEPT ![c] = "read"] /\ UNCHANGED <<file, payload, held, alive>>
      BY <1>2, <2>3 DEF Open
    <3> QED
      BY <2>1, <2>3, <3>1
  <2> QED
    BY <2>2, <2>3
<1>3. CASE Write(c)
  BY <1>3 DEF Write
<1>4. CASE WriteFails(c)
  BY <1>4 DEF WriteFails
<1>5. CASE Retry(c) \/ Timeout(c)
  <2>1. /\ pc[c] \in {"wait", "open"} /\ UNCHANGED <<file, payload, held, alive>>
        /\ \E s \in {"open", "failed"} : pc' = [pc EXCEPT ![c] = s]
    BY <1>5 DEF Retry, Timeout
  <2> QED
    BY <2>1
<1>6. CASE Read(c)
  BY <1>6 DEF Read
<1>7. CASE Remove(c)
  BY <1>7 DEF Remove, NoFile
<1>8. CASE Release(c)
  <2> DEFINE p == ProcOf[c]
  <2>1. pc[c] = "holding" /\ held[p] # None
    BY <1>8, HolderHasEntry DEF Release
  <2>2. \A d \in Caller : pc[d] \notin {"write", "remove", "unlink"}
    BY <2>1
  <2>3. CASE held[p].count > 1
    <3>1. /\ pc' = [pc EXCEPT ![c] = "done"] /\ held' = [held EXCEPT ![p].count = @ - 1]
          /\ UNCHANGED <<file, payload, alive>>
      BY <1>8, <2>1, <2>3 DEF Release
    <3>2. /\ \A q \in Proc : held'[q] # None => held[q] # None /\ held'[q].handle = held[q].handle
          /\ \A q \in Proc : held[q] # None => held'[q] # None
      BY <2>1, <3>1 DEF HeldLock
    <3> QED
      BY <2>1, <2>2, <3>1, <3>2
  <2>4. CASE held[p].count = 1
    <3>1. /\ pc' = [pc EXCEPT ![c] = "unlink"] /\ held' = [held EXCEPT ![p] = None]
          /\ UNCHANGED <<file, payload, alive>>
      BY <1>8, <2>1, <2>4 DEF Release
    <3>2. \A q \in Proc : held'[q] = None
      BY <2>1, <3>1
    <3> QED
      BY <2>1, <2>2, <3>1, <3>2
  <2> QED
    BY <1>8, <2>1, <2>3, <2>4 DEF Release
<1>9. CASE Unlink(c)
  BY <1>9 DEF Unlink, NoFile
<1>10. CASE Outlive(c)
  BY <1>10 DEF Outlive
<1> QED
  BY <1>1, <1>2, <1>3, <1>4, <1>5, <1>6, <1>7, <1>8, <1>9, <1>10

\* On a clean history, what happens to processes keeps the files in order.
LEMMA ProcessFiles ==
  ASSUME TypeOK, TypeOK', DeadAreOut, DeadAreOut', Files, clean',
         NEW p \in Proc, Signal(p) \/ Exit(p) \/ Crash(p)
  PROVE  Files'
<1> USE DEF TypeOK, DeadAreOut, Files, EntryIsFile, WriterIsFile, UnlinkerIsFile,
      RemoverIsRight, ReaderAlone, FileHasReason, Alone, Stale, NoFile
<1>1. CASE Signal(p)
  BY <1>1 DEF Signal
<1>2. CASE Exit(p) /\ held[p] # None
  BY <1>2 DEF Exit, Gone
<1>3. CASE (Exit(p) /\ held[p] = None) \/ Crash(p)
  <2>1. /\ UNCHANGED <<file, payload>>
        /\ \A c \in Caller : pc'[c] = IF ProcOf[c] = p THEN "dead" ELSE pc[c]
        /\ \A q \in Proc : held'[q] = IF q = p THEN None ELSE held[q]
        /\ \A q \in Proc : alive'[q] = IF q = p THEN FALSE ELSE alive[q]
    <3>1. Gone(p) /\ UNCHANGED <<file, payload>>
      BY ONLY <1>3 DEF Exit, Crash
    <3> QED
      BY ONLY <3>1, TypeOK DEF Gone, TypeOK
  <2>2. EntryIsFile' /\ WriterIsFile' /\ UnlinkerIsFile' /\ ReaderAlone'
    BY <2>1
  <2>3. RemoverIsRight'
    BY <2>1
  <2>4. FileHasReason'
    BY <2>1
  <2> QED
    BY <2>2, <2>3, <2>4
<1> QED
  BY <1>1, <1>2, <1>3

\* Who is between two steps of which none is a writing counts for nobody.
LEMMA SameHolders ==
  ASSUME TypeOK, HoldersCounted, NEW c \in Caller, NEW s \in Step, pc[c] # "holding",
         s # "holding", pc' = [pc EXCEPT ![c] = s], held' = held, astray \subseteq astray'
  PROVE  HoldersCounted'
<1>1. \A p \in Proc : Holders(p)' = Holders(p)
  BY DEF TypeOK, Holders
<1> QED
  BY <1>1 DEF HoldersCounted

\* A holder more, and one less.
LEMMA HolderAdded ==
  ASSUME TypeOK, HoldersCounted, NEW c \in Caller, pc[c] # "holding",
         pc' = [pc EXCEPT ![c] = "holding"]
  PROVE  \A p \in Proc :
           /\ IsFiniteSet(Holders(p)')
           /\ Cardinality(Holders(p)') = Cardinality(Holders(p)) + IF p = ProcOf[c] THEN 1 ELSE 0
<1> TAKE p \in Proc
<1>1. IsFiniteSet(Holders(p)) /\ Cardinality(Holders(p)) \in Nat
  BY FS_CardinalityType DEF HoldersCounted
<1>2. CASE p = ProcOf[c]
  <2>1. Holders(p)' = Holders(p) \cup {c} /\ c \notin Holders(p)
    BY <1>2 DEF TypeOK, Holders
  <2>2. /\ IsFiniteSet(Holders(p) \cup {c})
        /\ Cardinality(Holders(p) \cup {c}) = Cardinality(Holders(p)) + 1
    BY <1>1, <2>1, FS_AddElement
  <2> QED
    BY <1>2, <2>1, <2>2
<1>3. CASE p # ProcOf[c]
  <2>1. Holders(p)' = Holders(p)
    BY <1>3 DEF TypeOK, Holders
  <2> QED
    BY <1>1, <1>3, <2>1
<1> QED
  BY <1>2, <1>3

\* A holder that leaves is one holder less in its own process and none elsewhere.
LEMMA HolderRemoved ==
  ASSUME TypeOK, HoldersCounted, NEW c \in Caller, pc[c] = "holding",
         NEW s \in Step, s # "holding", pc' = [pc EXCEPT ![c] = s]
  PROVE  \A p \in Proc :
           /\ IsFiniteSet(Holders(p)')
           /\ Cardinality(Holders(p)') = Cardinality(Holders(p)) - IF p = ProcOf[c] THEN 1 ELSE 0
<1> TAKE p \in Proc
<1>1. IsFiniteSet(Holders(p)) /\ Cardinality(Holders(p)) \in Nat
  BY FS_CardinalityType DEF HoldersCounted
<1>2. CASE p = ProcOf[c]
  <2>1. Holders(p)' = Holders(p) \ {c} /\ c \in Holders(p)
    BY <1>2 DEF TypeOK, Holders
  <2>2. /\ IsFiniteSet(Holders(p) \ {c})
        /\ Cardinality(Holders(p) \ {c}) = Cardinality(Holders(p)) - 1
    BY <1>1, <2>1, FS_RemoveElement
  <2> QED
    BY <1>2, <2>1, <2>2
<1>3. CASE p # ProcOf[c]
  <2>1. Holders(p)' = Holders(p)
    BY <1>3 DEF TypeOK, Holders
  <2> QED
    BY <1>1, <1>3, <2>1
<1> QED
  BY <1>2, <1>3

\* Every step of a caller keeps the counts.
LEMMA CallerCounts ==
  ASSUME TypeOK, TypeOK', HoldersCounted, OneWriter, NEW c \in Caller,
         \/ Acquire(c) \/ Open(c) \/ Write(c) \/ WriteFails(c) \/ Read(c) \/ Remove(c)
         \/ Retry(c) \/ Timeout(c) \/ Release(c) \/ Unlink(c) \/ Outlive(c)
  PROVE  HoldersCounted'
<1> DEFINE p == ProcOf[c]
<1> DEFINE size(q) == Cardinality(Holders(q))
<1>0. /\ \A q \in Proc : held[q] # None => held[q].count \in Nat \ {0}
      /\ \A q \in Proc : IsFiniteSet(Holders(q)) /\ size(q) \in Nat
  BY FS_CardinalityType DEF TypeOK, HeldLock, HoldersCounted
<1>1. CASE Acquire(c) /\ held[p] # None
  <2>1. pc[c] = "idle" /\ pc' = [pc EXCEPT ![c] = "holding"] /\ astray' = astray
    BY <1>1 DEF Acquire, Goto
  <2>2. held' = [held EXCEPT ![p].count = @ + 1]
    BY <1>1 DEF Acquire
  <2>3. \A q \in Proc : /\ held[q] = None <=> held'[q] = None
                        /\ held[q] # None =>
                             held'[q].count = held[q].count + IF q = p THEN 1 ELSE 0
    BY <1>0, <1>1, <2>2 DEF TypeOK, HeldLock
  <2>4. \A q \in Proc : /\ IsFiniteSet(Holders(q)')
                        /\ size(q)' = size(q) + IF q = p THEN 1 ELSE 0
    BY <2>1, HolderAdded
  <2> HIDE DEF p, size
  <2>5. \A q \in Proc :
          /\ held'[q] # None => held'[q].count <= size(q)'
          /\ q \notin astray' => size(q)' = IF held'[q] = None THEN 0 ELSE held'[q].count
    BY <1>0, <1>1, <2>1, <2>3, <2>4 DEF HoldersCounted, size
  <2> QED
    BY <2>4, <2>5 DEF HoldersCounted, size
<1>2. CASE Acquire(c) /\ held[p] = None
  <2>1. pc[c] = "idle" /\ pc' = [pc EXCEPT ![c] = "open"] /\ held' = held /\ astray' = astray
    BY <1>2 DEF Acquire, Goto
  <2> QED
    BY <2>1, SameHolders DEF Step
<1>3. CASE Write(c)
  <2>1. /\ pc[c] = "write" /\ pc' = [pc EXCEPT ![c] = "holding"] /\ astray' = astray
        /\ held' = [held EXCEPT ![p] = [count |-> 1, handle |-> c]]
    BY <1>3 DEF Write, Goto
  <2>2. p \notin astray => held[p] = None
    BY <2>1 DEF OneWriter
  <2>3. /\ held'[p] = [count |-> 1, handle |-> c] /\ held'[p].count = 1
        /\ \A q \in Proc \ {p} : held'[q] = held[q]
    BY <2>1 DEF TypeOK
  <2>4. [count |-> 1, handle |-> c] # None
    OBVIOUS
  <2>5. \A q \in Proc : /\ IsFiniteSet(Holders(q)')
                        /\ size(q)' = size(q) + IF q = p THEN 1 ELSE 0
    BY <2>1, HolderAdded
  <2>6. p \notin astray => size(p) = 0
    BY <2>2 DEF HoldersCounted
  <2>7. p \in Proc
    OBVIOUS
  <2> HIDE DEF p, size
  <2>8. \A q \in Proc :
          /\ held'[q] # None => held'[q].count <= size(q)'
          /\ q \notin astray' => size(q)' = IF held'[q] = None THEN 0 ELSE held'[q].count
    <3> TAKE q \in Proc
    <3>1. CASE q = p
      BY <1>0, <2>1, <2>3, <2>4, <2>5, <2>6, <3>1
    <3>2. CASE q # p
      BY <1>0, <2>1, <2>3, <2>5, <3>2 DEF HoldersCounted, size
    <3> QED
      BY <3>1, <3>2
  <2> QED
    BY <2>5, <2>8 DEF HoldersCounted, size
<1>4. CASE \/ Open(c) \/ WriteFails(c) \/ Read(c) \/ Remove(c)
           \/ Retry(c) \/ Timeout(c) \/ Unlink(c)
  <2>1. /\ pc[c] # "holding" /\ held' = held /\ astray \subseteq astray'
        /\ \E s \in Step : s # "holding" /\ pc' = [pc EXCEPT ![c] = s]
    BY <1>4 DEF Open, WriteFails, Read, Remove, Retry, Timeout, Unlink, Goto, Step
  <2> QED
    BY <2>1, SameHolders
<1>5. CASE Release(c)
  <2>1. pc[c] = "holding" /\ astray' = astray
    BY <1>5 DEF Release
  <2>5. size(p) >= 1
    <3>1. c \in Holders(p)
      BY <2>1 DEF Holders
    <3>2. size(p) # 0
      BY <1>0, <3>1, FS_EmptySet
    <3> QED
      BY <1>0, <3>2
  <2>6. p \in Proc
    OBVIOUS
  <2>2. CASE held[p] # None /\ held[p].count > 1
    <3>1. pc' = [pc EXCEPT ![c] = "done"] /\ held' = [held EXCEPT ![p].count = @ - 1]
      BY <1>5, <2>2 DEF Release, Goto
    <3>2. \A q \in Proc : /\ held[q] = None <=> held'[q] = None
                          /\ held[q] # None =>
                               held'[q].count = held[q].count - IF q = p THEN 1 ELSE 0
      BY <1>0, <2>2, <3>1 DEF TypeOK, HeldLock
    <3>3. \A q \in Proc : /\ IsFiniteSet(Holders(q)')
                          /\ size(q)' = size(q) - IF q = p THEN 1 ELSE 0
      BY <2>1, <3>1, HolderRemoved DEF Step
    <3> HIDE DEF p, size
    <3>4. \A q \in Proc :
            /\ held'[q] # None => held'[q].count <= size(q)'
            /\ q \notin astray' => size(q)' = IF held'[q] = None THEN 0 ELSE held'[q].count
      BY <1>0, <2>1, <2>2, <3>2, <3>3 DEF HoldersCounted, size
    <3> QED
      BY <3>3, <3>4 DEF HoldersCounted, size
  <2>3. CASE held[p] # None /\ held[p].count = 1
    <3>1. pc' = [pc EXCEPT ![c] = "unlink"] /\ held' = [held EXCEPT ![p] = None]
      BY <1>5, <2>3 DEF Release, Goto
    <3>2. \A q \in Proc : held'[q] = IF q = p THEN None ELSE held[q]
      BY <3>1 DEF TypeOK
    <3>3. \A q \in Proc : /\ IsFiniteSet(Holders(q)')
                          /\ size(q)' = size(q) - IF q = p THEN 1 ELSE 0
      BY <2>1, <3>1, HolderRemoved DEF Step
    <3> HIDE DEF p, size
    <3>4. \A q \in Proc :
            /\ held'[q] # None => held'[q].count <= size(q)'
            /\ q \notin astray' => size(q)' = IF held'[q] = None THEN 0 ELSE held'[q].count
      BY <1>0, <2>1, <2>3, <3>2, <3>3 DEF HoldersCounted, size
    <3> QED
      BY <3>3, <3>4 DEF HoldersCounted, size
  <2>4. CASE held[p] = None
    <3>1. pc' = [pc EXCEPT ![c] = "done"] /\ held' = held
      BY <1>5, <2>4 DEF Release, Goto
    <3>2. \A q \in Proc : /\ IsFiniteSet(Holders(q)')
                          /\ size(q)' = size(q) - IF q = p THEN 1 ELSE 0
      BY <2>1, <3>1, HolderRemoved DEF Step
    <3> HIDE DEF p, size
    <3>3. p \in astray
      BY <1>0, <2>4, <2>5, <2>6 DEF HoldersCounted, size
    <3>4. \A q \in Proc :
            /\ held'[q] # None => held'[q].count <= size(q)'
            /\ q \notin astray' => size(q)' = IF held'[q] = None THEN 0 ELSE held'[q].count
      BY <1>0, <2>1, <2>4, <3>1, <3>2, <3>3 DEF HoldersCounted, size
    <3> QED
      BY <3>2, <3>4 DEF HoldersCounted, size
  <2> QED
    BY <1>0, <2>2, <2>3, <2>4, <2>6
<1>6. CASE Outlive(c)
  BY <1>6 DEF Outlive, HoldersCounted, Holders
<1> QED
  BY <1>1, <1>2, <1>3, <1>4, <1>5, <1>6

\* So do signals, exits and deaths of processes.
LEMMA ProcessCounts ==
  ASSUME TypeOK, HoldersCounted, NEW p \in Proc, Signal(p) \/ Exit(p) \/ Crash(p)
  PROVE  HoldersCounted'
<1>1. CASE Signal(p)
  <2>1. /\ \A q \in Proc : held'[q] = IF q = p THEN None ELSE held[q]
        /\ pc' = pc /\ astray' = astray \cup {p}
    BY <1>1 DEF Signal, TypeOK
  <2>2. \A q \in Proc : Holders(q)' = Holders(q)
    BY <2>1 DEF Holders
  <2> QED
    BY <2>1, <2>2 DEF HoldersCounted
<1>2. CASE Exit(p) \/ Crash(p)
  <2>1. Gone(p)
    BY <1>2 DEF Exit, Crash
  <2>2. Holders(p)' = {} /\ held'[p] = None /\ astray' = astray
    BY <2>1 DEF Gone, Holders, TypeOK
  <2>3. \A q \in Proc \ {p} : Holders(q)' = Holders(q) /\ held'[q] = held[q]
    BY <2>1 DEF Gone, Holders, TypeOK
  <2> QED
    BY <2>2, <2>3, FS_EmptySet DEF HoldersCounted
<1> QED
  BY <1>1, <1>2

\* A process in which no call opens the file while another has it keeps one writer.
LEMMA StepOneWriter == TypeOK /\ OneWriter /\ [Next]_vars => OneWriter'
<1> SUFFICES ASSUME TypeOK, OneWriter, [Next]_vars PROVE OneWriter'
  OBVIOUS
<1> USE DEF TypeOK, OneWriter, Goto
<1>1. ASSUME NEW c \in Caller, Acquire(c) PROVE OneWriter'
  <2>1. /\ \A q \in Proc : held'[q] = None <=> held[q] = None
        /\ \A d \in Caller : pc'[d] = "write" => pc[d] = "write"
        /\ astray' = astray
    BY <1>1 DEF Acquire, HeldLock
  <2> QED
    BY <2>1
<1>2. ASSUME NEW c \in Caller, Open(c) PROVE OneWriter'
  <2>1. CASE file = None
    <3>1. /\ held' = held /\ pc' = [pc EXCEPT ![c] = "write"]
          /\ astray \subseteq astray' /\ (Taken(ProcOf[c]) => ProcOf[c] \in astray')
      BY <1>2, <2>1 DEF Open
    <3> QED
      BY <3>1 DEF Taken
  <2>2. CASE file # None
    <3>1. held' = held /\ pc' = [pc EXCEPT ![c] = "read"] /\ astray' = astray
      BY <1>2, <2>2 DEF Open
    <3> QED
      BY <3>1
  <2> QED
    BY <2>1, <2>2
<1>3. ASSUME NEW c \in Caller, Write(c) PROVE OneWriter'
  BY <1>3 DEF Write
<1>4. ASSUME NEW c \in Caller, WriteFails(c) \/ Retry(c) \/ Timeout(c) PROVE OneWriter'
  BY <1>4 DEF WriteFails, Retry, Timeout
<1>5. ASSUME NEW c \in Caller, Read(c) PROVE OneWriter'
  BY <1>5 DEF Read
<1>6. ASSUME NEW c \in Caller, Remove(c) \/ Unlink(c) PROVE OneWriter'
  BY <1>6 DEF Remove, Unlink
<1>7. ASSUME NEW c \in Caller, Release(c) PROVE OneWriter'
  <2>1. /\ \A q \in Proc : held[q] = None => held'[q] = None
        /\ \A d \in Caller : pc'[d] = "write" => pc[d] = "write"
        /\ astray' = astray
    BY <1>7 DEF Release
  <2> QED
    BY <2>1
<1>8. ASSUME NEW c \in Caller, Outlive(c) PROVE OneWriter'
  BY <1>8 DEF Outlive
<1>9. ASSUME NEW p \in Proc, Signal(p) PROVE OneWriter'
  BY <1>9 DEF Signal
<1>10. ASSUME NEW p \in Proc, Exit(p) \/ Crash(p) PROVE OneWriter'
  BY <1>10 DEF Exit, Crash, Gone
<1> QED
  BY <1>1, <1>2, <1>3, <1>4, <1>5, <1>6, <1>7, <1>8, <1>9, <1>10 DEF Next, vars

\* The file has somebody to answer for it after every step, if it had before.
LEMMA StepFileOwned == TypeOK /\ DeadAreOut /\ FileOwned /\ [Next]_vars => FileOwned'
<1> SUFFICES ASSUME TypeOK, DeadAreOut, FileOwned, [Next]_vars PROVE FileOwned'
  OBVIOUS
<1> USE DEF TypeOK, FileOwned, Goto
<1>1. ASSUME NEW c \in Caller, Acquire(c) PROVE FileOwned'
  <2>1. /\ \A q \in Proc : held'[q] = None <=> held[q] = None
        /\ pc[c] = "idle" /\ \A d \in Caller \ {c} : pc'[d] = pc[d]
        /\ file' = file /\ alive' = alive
    BY <1>1 DEF Acquire, HeldLock
  <2> QED
    BY <2>1
<1>2. ASSUME NEW c \in Caller, Open(c) PROVE FileOwned'
  BY <1>2 DEF Open
<1>3. ASSUME NEW c \in Caller, Write(c) PROVE FileOwned'
  <2>1. [count |-> 1, handle |-> c] # None
    OBVIOUS
  <2> QED
    BY <1>3, <2>1 DEF Write
<1>4. ASSUME NEW c \in Caller, WriteFails(c) \/ Retry(c) \/ Timeout(c) PROVE FileOwned'
  BY <1>4 DEF WriteFails, Retry, Timeout
<1>5. ASSUME NEW c \in Caller, Read(c) PROVE FileOwned'
  BY <1>5 DEF Read
<1>6. ASSUME NEW c \in Caller, Remove(c) \/ Unlink(c) PROVE FileOwned'
  BY <1>6 DEF Remove, Unlink, NoFile
<1>7. ASSUME NEW c \in Caller, Release(c) PROVE FileOwned'
  <2>1. /\ pc[c] = "holding" /\ file' = file /\ alive' = alive
        /\ \A d \in Caller \ {c} : pc'[d] = pc[d]
        /\ \A q \in Proc : \/ held[q] # None => held'[q] # None
                           \/ q = ProcOf[c] /\ pc'[c] = "unlink"
    BY <1>7 DEF Release, HeldLock
  <2> QED
    BY <2>1
<1>8. ASSUME NEW c \in Caller, Outlive(c) PROVE FileOwned'
  BY <1>8 DEF Outlive
<1>9. ASSUME NEW p \in Proc, Signal(p) PROVE FileOwned'
  BY <1>9 DEF Signal, NoFile
<1>10. ASSUME NEW p \in Proc, Exit(p) \/ Crash(p) PROVE FileOwned'
  <2>1. /\ \A c \in Caller : pc'[c] = IF ProcOf[c] = p THEN "dead" ELSE pc[c]
        /\ \A q \in Proc : held'[q] = IF q = p THEN None ELSE held[q]
        /\ \A q \in Proc : alive'[q] = IF q = p THEN FALSE ELSE alive[q]
        /\ file' \in {file, None}
    <3>1. Gone(p) /\ file' \in {file, None}
      BY <1>10 DEF Exit, Crash, NoFile
    <3> QED
      BY <3>1 DEF Gone
  <2> QED
    BY <2>1
<1> QED
  BY <1>1, <1>2, <1>3, <1>4, <1>5, <1>6, <1>7, <1>8, <1>9, <1>10 DEF Next, vars

\* As long as the history is clean, nobody opens a file twice.
LEMMA CleanStep ==
  ASSUME TypeOK, Files, astray = {}, clean', [Next]_vars
  PROVE  astray' = {}
<1>1. ASSUME NEW c \in Caller, Open(c) PROVE astray' = {}
  <2>1. CASE file = None
    <3>1. \A p \in Proc : held[p] = None
      BY <2>1 DEF TypeOK, HeldLock, Files, EntryIsFile
    <3>2. \A d \in Caller : pc[d] # "write"
      BY <2>1 DEF Files, WriterIsFile
    <3> QED
      BY <1>1, <2>1, <3>1, <3>2 DEF Open, Taken
  <2> QED
    BY <1>1, <2>1 DEF Open
<1> QED
  BY <1>1 DEF Next, vars, Acquire, Write, WriteFails, Read, Remove, Retry, Timeout, Release,
     Unlink, Outlive, Signal, Exit, Crash, Gone

-----------------------------------------------------------------------------
\* The inductive invariant holds initially.
LEMMA InitInv == Init => IInv
<1> SUFFICES ASSUME Init PROVE IInv
  OBVIOUS
<1>1. TypeOK
  BY InitTypes
<1>2. \A p \in Proc : Holders(p) = {} /\ held[p] = None
  BY DEF Init, Holders
<1>3. Counts
  BY <1>2, FS_EmptySet DEF Init, Counts, HoldersCounted, OneWriter, FileOwned
<1>4. DeadAreOut /\ Files /\ astray = {}
  BY DEF Init, DeadAreOut, Files, EntryIsFile, WriterIsFile, UnlinkerIsFile,
      RemoverIsRight, ReaderAlone, FileHasReason
<1> QED
  BY <1>1, <1>3, <1>4 DEF IInv

\* Every step keeps it: a clean history was clean before the step.
LEMMA StepInv == IInv /\ [Next]_vars => IInv'
<1> SUFFICES ASSUME IInv, [Next]_vars PROVE IInv'
  OBVIOUS
<1>1. TypeOK' /\ DeadAreOut' /\ OneWriter' /\ FileOwned'
  BY StepTypes, StepDead, StepOneWriter, StepFileOwned DEF IInv, Counts
<1>2. HoldersCounted'
  <2>1. CASE UNCHANGED vars
    BY <2>1 DEF vars, IInv, Counts, HoldersCounted, Holders
  <2> QED
    BY <1>1, <2>1, CallerCounts, ProcessCounts DEF Next, IInv, Counts
<1>3. ASSUME clean' PROVE clean
  BY <1>3 DEF Next, vars, Acquire, Open, Write, WriteFails, Read, Remove, Retry, Timeout,
     Release, Unlink, Outlive, Signal, Exit, Crash, Gone
<1>4. ASSUME clean' PROVE Files' /\ astray' = {}
  <2>1. Files /\ astray = {}
    BY <1>3, <1>4 DEF IInv
  <2>2. astray' = {}
    BY <1>4, <2>1, CleanStep DEF IInv
  <2>3. CASE UNCHANGED vars
    BY <2>1, <2>3 DEF vars, IInv, TypeOK, Files, EntryIsFile, WriterIsFile, UnlinkerIsFile,
       RemoverIsRight, ReaderAlone, FileHasReason, Alone, Stale
  <2>4. ASSUME Next PROVE Files'
    BY <1>1, <1>4, <2>1, <2>4, CallerFiles, ProcessFiles DEF Next, IInv, Counts
  <2> QED
    BY <2>2, <2>3, <2>4
<1> QED
  BY <1>1, <1>2, <1>4 DEF IInv, Counts

\* The inductive invariant, and with it each of its parts, always holds.
THEOREM InvTheorem == Spec => []IInv
BY InitInv, StepInv, PTL DEF Spec

\* On a clean history two processes never write the session at the same time.
THEOREM SingleWriterTheorem == Spec => []SingleWriterIfClean
<1>1. IInv => SingleWriterIfClean
  <2> SUFFICES ASSUME IInv, clean, NEW c \in Caller, NEW d \in Caller,
                      pc[c] = "holding", pc[d] = "holding"
               PROVE  ProcOf[c] = ProcOf[d]
    BY DEF SingleWriterIfClean, SingleWriter
  <2>1. held[ProcOf[c]] # None /\ held[ProcOf[d]] # None
    BY HolderHasEntry DEF IInv, Counts
  <2> QED
    BY <2>1 DEF IInv, Files, EntryIsFile
<1> QED
  BY <1>1, InvTheorem, PTL

\* On a clean history the lock file is kept until the last release.
THEOREM FileKeptTheorem == Spec => []FileKeptIfClean
<1>1. IInv => FileKeptIfClean
  <2> SUFFICES ASSUME IInv, clean, NEW c \in Caller, pc[c] = "holding"
               PROVE  file # None /\ ProcOf[file] = ProcOf[c]
    BY DEF FileKeptIfClean, FileUntilLastRelease
  <2>1. held[ProcOf[c]] # None
    BY HolderHasEntry DEF IInv, Counts
  <2> QED
    BY <2>1 DEF IInv, TypeOK, HeldLock, Files, EntryIsFile
<1> QED
  BY <1>1, InvTheorem, PTL

\* The count of a process is the number of its callers still to release, unless it
\* has survived a signal or a call opened the file while another had it.
THEOREM CountsTheorem == Spec => []CountsHolders
<1>1. IInv => CountsHolders
  BY DEF IInv, Counts, HoldersCounted, CountsHolders, Holders
<1> QED
  BY <1>1, InvTheorem, PTL

\* Once every call is over no lock file is left, but that of a dead process or of
\* a call whose write failed.
THEOREM NoFileLeftTheorem == Spec => []NoFileLeft
<1>1. IInv => NoFileLeft
  <2> SUFFICES ASSUME IInv, \A c \in Caller : pc[c] \in {"idle", "done", "failed", "dead"},
                      file # None, alive[ProcOf[file]]
               PROVE  pc[file] = "failed"
    BY DEF NoFileLeft
  <2>1. file \in Caller /\ ProcOf[file] \in Proc
    BY DEF IInv, TypeOK
  <2>2. held[ProcOf[file]] = None
    <3>1. Holders(ProcOf[file]) = {}
      BY DEF Holders
    <3>2. Cardinality(Holders(ProcOf[file])) = 0
      BY <3>1, FS_EmptySet
    <3>3. held[ProcOf[file]] # None =>
            held[ProcOf[file]].count \in Nat \ {0} /\ held[ProcOf[file]].count <= 0
      BY <2>1, <3>2 DEF IInv, TypeOK, HeldLock, Counts, HoldersCounted
    <3> QED
      BY <3>3
  <2> QED
    BY <2>1, <2>2 DEF IInv, Counts, FileOwned
<1> QED
  BY <1>1, InvTheorem, PTL
=============================================================================
