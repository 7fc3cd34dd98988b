-------------------------- MODULE SessionStoreProofs --------------------------
(***************************************************************************)
(* Proofs about SessionStore.                                              *)
(***************************************************************************)
EXTENDS SessionStore, TLAPS

USE NoneAssumption, ProcAssumption, KindAssumption

\* Whoever works inside the lock owns the lock file, as long as no live
\* holder's was evicted.
OwnerInside ==
  "evicted" \notin causes => \A w \in Writer : pc[w] \in Inside => lock = w

\* A store loaded inside the lock stays the file's until it is written, or is empty
\* after a read that failed.
LockedCurrent ==
  "evicted" \notin causes =>
    \A w \in Writer :
      /\ pc[w] \in {"loaded", "saving"}
      /\ \/ KindOf[w] = "update"
         \/ KindOf[w] = "entry" /\ causes \cap {"torn", "coarse"} = {}
      => base[w] = file.content \/ ("unread" \in causes /\ base[w] = {})

\* A cache entry is older than the file, or has its content, or is empty after a
\* read that failed.
Behind ==
  \A p \in Process : cache[p] # None =>
    /\ cache[p].mtime <= file.mtime
    /\ cache[p].mtime = file.mtime =>
         \/ cache[p].content = file.content
         \/ "unread" \in causes /\ cache[p].content = {}
CacheBehind == causes \cap {"torn", "coarse"} = {} => Behind

\* As long as nothing goes wrong, the store a writer is about to change is the
\* file's, wherever it was loaded.
BaseCurrent ==
  causes = {} =>
    \A w \in Writer :
      \/ pc[w] \in {"loaded", "saving"}
      \/ KindOf[w] = "save" /\ pc[w] \in {"locking", "evicting", "locked"}
      => base[w] = file.content

IInv == TypeOK /\ OwnerInside /\ LockedCurrent /\ CacheBehind /\ BaseCurrent /\ UpdatesKept

-----------------------------------------------------------------------------
\* The initial state is typed.
LEMMA InitTypes == Init => TypeOK
<1> SUFFICES ASSUME Init PROVE TypeOK
  OBVIOUS
<1>1. file \in Snapshot
  BY DEF Init, Snapshot
<1>2. base \in [Writer -> SUBSET Writer] /\ pc \in [Writer -> Step]
  BY DEF Init, Step
<1> QED
  BY <1>1, <1>2 DEF Init, TypeOK

\* A load gives a store, and leaves caches of stores.
LEMMA LoadTypes ==
  ASSUME TypeOK, NEW p \in Process, NEW ok \in Readable
  PROVE  /\ Found(ok) \in SUBSET Writer
         /\ Noted(ok) \in {causes, causes \cup {"unread"}}
         /\ Loaded(p, ok) \in SUBSET Writer
         /\ Refresh(p, ok) => /\ cache' \in [Process -> Snapshot \cup {None}]
                              /\ causes' \in {causes, causes \cup {"unread"}}
BY DEF TypeOK, Snapshot, Found, Noted, Loaded, Refresh, Cached

\* Every step keeps the types.
LEMMA StepTypes == TypeOK /\ [Next]_vars => TypeOK'
<1> SUFFICES ASSUME TypeOK, [Next]_vars PROVE TypeOK'
  OBVIOUS
<1> USE DEF TypeOK, Step
<1>1. ASSUME NEW w \in Writer, Begin(w) PROVE TypeOK'
  <2>1. /\ cache' \in [Process -> Snapshot \cup {None}] /\ base' \in [Writer -> SUBSET Writer]
        /\ causes' \in {causes, causes \cup {"unread"}}
    BY <1>1, LoadTypes DEF Begin
  <2> QED
    BY <1>1, <2>1 DEF Begin, Go
<1>2. ASSUME NEW w \in Writer, TimeOut(w) PROVE TypeOK'
  BY <1>2 DEF TimeOut, Go
<1>3. ASSUME NEW w \in Writer, TryLock(w) PROVE TypeOK'
  BY <1>3 DEF TryLock, Go
<1>4. ASSUME NEW w \in Writer, SeeStale(w) PROVE TypeOK'
  BY <1>4 DEF SeeStale, Go
<1>5. ASSUME NEW w \in Writer, Evict(w) PROVE TypeOK'
  BY <1>5 DEF Evict, Go, Unlink
<1>6. ASSUME NEW w \in Writer, Unlock(w) PROVE TypeOK'
  BY <1>6 DEF Unlock, Go, Unlink
<1>7. ASSUME NEW w \in Writer, Load(w) PROVE TypeOK'
  <2>1. cache' \in [Process -> Snapshot \cup {None}] /\ base' \in [Writer -> SUBSET Writer]
    BY <1>7, LoadTypes DEF Load, Snapshot
  <2>2. causes' \in {causes, causes \cup {"unread"}}
    BY <1>7, LoadTypes DEF Load
  <2> QED
    BY <1>7, <2>1, <2>2 DEF Load, Go
<1>8. ASSUME NEW w \in Writer, Skip(w) PROVE TypeOK'
  BY <1>8 DEF Skip, Go, Forget
<1>9. ASSUME NEW w \in Writer, Save(w) PROVE TypeOK'
  BY <1>9 DEF Save, Go
<1>10. ASSUME NEW w \in Writer, SaveFails(w) PROVE TypeOK'
  BY <1>10 DEF SaveFails, Go, Forget
<1>11. ASSUME NEW p \in Process, Read(p) PROVE TypeOK'
  BY <1>11, LoadTypes DEF Read
<1>12. ASSUME NEW p \in Process, Expire(p) PROVE TypeOK'
  BY <1>12 DEF Expire
<1>13. ASSUME NEW p \in Process, Crash(p) PROVE TypeOK'
  BY <1>13 DEF Crash, Forget
<1>14. ASSUME NEW w \in Writer, NEW t \in Times, NEW torn \in Torn(w), Rename(w, t, torn)
      PROVE  TypeOK'
  <2>1. t \in Nat
    BY DEF Times, Snapshot
  <2>2. file' \in Snapshot /\ cache' \in [Process -> Snapshot \cup {None}]
    BY <1>14, <2>1 DEF Rename, Snapshot
  <2>3. base' \in [Writer -> SUBSET Writer] /\ pc' \in [Writer -> Step]
    BY <1>14 DEF Rename, Forget, Go
  <2>4. causes' \subseteq {"evicted", "outside", "torn", "coarse", "unread"}
    BY <1>14 DEF Rename
  <2> QED
    BY <1>14, <2>2, <2>3, <2>4 DEF Rename
<1>15. CASE LockAges
  BY <1>15 DEF LockAges
<1> QED
  BY <1>1, <1>2, <1>3, <1>4, <1>5, <1>6, <1>7, <1>8, <1>9, <1>10, <1>11, <1>12, <1>13, <1>14, <1>15
    DEF Next, Work, vars

\* Every variable has its type in every reachable state.
THEOREM TypesTheorem == Spec => []TypeOK
BY InitTypes, StepTypes, PTL DEF Spec

\* What has gone wrong is not forgotten.
LEMMA CausesStay == [Next]_vars => causes \subseteq causes'
<1> SUFFICES ASSUME [Next]_vars PROVE causes \subseteq causes'
  OBVIOUS
<1>1. ASSUME NEW w \in Writer, Begin(w) PROVE causes \subseteq causes'
  BY <1>1 DEF Begin, Go, Refresh, Loaded, Cached, Found, Noted, Readable
<1>2. ASSUME NEW w \in Writer, TimeOut(w) PROVE causes \subseteq causes'
  BY <1>2 DEF TimeOut, Go
<1>3. ASSUME NEW w \in Writer, TryLock(w) PROVE causes \subseteq causes'
  BY <1>3 DEF TryLock, Go
<1>4. ASSUME NEW w \in Writer, SeeStale(w) PROVE causes \subseteq causes'
  BY <1>4 DEF SeeStale, Go
<1>5. ASSUME NEW w \in Writer, Evict(w) PROVE causes \subseteq causes'
  BY <1>5 DEF Evict, Go, Unlink
<1>6. ASSUME NEW w \in Writer, Unlock(w) PROVE causes \subseteq causes'
  BY <1>6 DEF Unlock, Go, Unlink
<1>7. ASSUME NEW w \in Writer, Load(w) PROVE causes \subseteq causes'
  BY <1>7 DEF Load, Go, Refresh, Loaded, Cached, Reread, Found, Noted, Readable
<1>8. ASSUME NEW w \in Writer, Skip(w) PROVE causes \subseteq causes'
  BY <1>8 DEF Skip, Go, Forget
<1>9. ASSUME NEW w \in Writer, Save(w) PROVE causes \subseteq causes'
  BY <1>9 DEF Save, Go
<1>10. ASSUME NEW w \in Writer, SaveFails(w) PROVE causes \subseteq causes'
  BY <1>10 DEF SaveFails, Go, Forget
<1>11. ASSUME NEW p \in Process, Read(p) PROVE causes \subseteq causes'
  BY <1>11 DEF Read, Refresh, Cached, Found, Noted, Readable
<1>12. ASSUME NEW p \in Process, Expire(p) PROVE causes \subseteq causes'
  BY <1>12 DEF Expire
<1>13. ASSUME NEW p \in Process, Crash(p) PROVE causes \subseteq causes'
  BY <1>13 DEF Crash, Forget
<1>14. ASSUME NEW w \in Writer, NEW t \in Times, NEW torn \in Torn(w), Rename(w, t, torn)
      PROVE  causes \subseteq causes'
  BY <1>14 DEF Rename, Go, Forget, Times, Torn, Outside, Cached
<1>15. CASE LockAges
  BY <1>15 DEF LockAges
<1> QED
  BY <1>1, <1>2, <1>3, <1>4, <1>5, <1>6, <1>7, <1>8, <1>9, <1>10, <1>11, <1>12, <1>13, <1>14, <1>15
    DEF Next, Work, vars

-----------------------------------------------------------------------------
\* Every step keeps the owner of the lock inside.
LEMMA StepOwner == TypeOK /\ TypeOK' /\ OwnerInside /\ [Next]_vars => OwnerInside'
<1> SUFFICES ASSUME TypeOK, TypeOK', OwnerInside, [Next]_vars, "evicted" \notin causes'
             PROVE  \A v \in Writer : pc'[v] \in Inside => lock' = v
  BY DEF OwnerInside
<1>0. \A v \in Writer : pc[v] \in Inside => lock = v
  BY CausesStay DEF OwnerInside
<1> USE <1>0 DEF TypeOK, Inside
<1>1. ASSUME NEW w \in Writer, Begin(w) PROVE \A v \in Writer : pc'[v] \in Inside => lock' = v
  BY <1>1 DEF Begin, Go, Refresh, Loaded, Cached, Found, Noted, Readable
<1>2. ASSUME NEW w \in Writer, TimeOut(w) PROVE \A v \in Writer : pc'[v] \in Inside => lock' = v
  BY <1>2 DEF TimeOut, Go
<1>3. ASSUME NEW w \in Writer, TryLock(w) PROVE \A v \in Writer : pc'[v] \in Inside => lock' = v
  BY <1>3 DEF TryLock, Go
<1>4. ASSUME NEW w \in Writer, SeeStale(w) PROVE \A v \in Writer : pc'[v] \in Inside => lock' = v
  BY <1>4 DEF SeeStale, Go
<1>5. ASSUME NEW w \in Writer, Evict(w) PROVE \A v \in Writer : pc'[v] \in Inside => lock' = v
  BY <1>5 DEF Evict, Go, Unlink
<1>6. ASSUME NEW w \in Writer, Unlock(w) PROVE \A v \in Writer : pc'[v] \in Inside => lock' = v
  BY <1>6 DEF Unlock, Go, Unlink
<1>7. ASSUME NEW w \in Writer, Load(w) PROVE \A v \in Writer : pc'[v] \in Inside => lock' = v
  BY <1>7 DEF Load, Go, Refresh, Loaded, Cached, Reread, Found, Noted, Readable
<1>8. ASSUME NEW w \in Writer, Skip(w) PROVE \A v \in Writer : pc'[v] \in Inside => lock' = v
  BY <1>8 DEF Skip, Go, Forget
<1>9. ASSUME NEW w \in Writer, Save(w) PROVE \A v \in Writer : pc'[v] \in Inside => lock' = v
  BY <1>9 DEF Save, Go
<1>10. ASSUME NEW w \in Writer, SaveFails(w) PROVE \A v \in Writer : pc'[v] \in Inside => lock' = v
  BY <1>10 DEF SaveFails, Go, Forget
<1>11. ASSUME NEW p \in Process, Read(p) PROVE \A v \in Writer : pc'[v] \in Inside => lock' = v
  BY <1>11 DEF Read, Refresh, Cached, Found, Noted, Readable
<1>12. ASSUME NEW p \in Process, Expire(p) PROVE \A v \in Writer : pc'[v] \in Inside => lock' = v
  BY <1>12 DEF Expire
<1>13. ASSUME NEW p \in Process, Crash(p) PROVE \A v \in Writer : pc'[v] \in Inside => lock' = v
  BY <1>13 DEF Crash, Forget
<1>14. ASSUME NEW w \in Writer, NEW t \in Times, NEW torn \in Torn(w), Rename(w, t, torn)
      PROVE  \A v \in Writer : pc'[v] \in Inside => lock' = v
  BY <1>14 DEF Rename, Go, Forget, Times, Torn, Outside, Cached
<1>15. CASE LockAges
  BY <1>15 DEF LockAges
<1> QED
  BY <1>1, <1>2, <1>3, <1>4, <1>5, <1>6, <1>7, <1>8, <1>9, <1>10, <1>11, <1>12, <1>13, <1>14, <1>15
    DEF Next, Work, vars

\* A load inside or outside the lock, and what it leaves in the cache.
LEMMA LoadEffect ==
  ASSUME TypeOK, NEW p \in Process, NEW ok \in Readable
  PROVE  /\ causes' = Noted(ok) => Found(ok) = file.content \/ ("unread" \in causes' /\ Found(ok) = {})
         /\ Behind /\ Refresh(p, ok) =>
              \/ Loaded(p, ok) = file.content
              \/ "unread" \in causes' /\ Loaded(p, ok) = {}
         /\ Behind /\ Refresh(p, ok) /\ file' = file => Behind'
<1> USE DEF TypeOK, Snapshot, Found, Noted, Loaded, Refresh, Cached, Readable
<1>1. causes' = Noted(ok) => Found(ok) = file.content \/ ("unread" \in causes' /\ Found(ok) = {})
  OBVIOUS
<1>2. ASSUME Behind, Refresh(p, ok)
      PROVE  Loaded(p, ok) = file.content \/ ("unread" \in causes' /\ Loaded(p, ok) = {})
  BY <1>1, <1>2 DEF Behind
<1>3. ASSUME Behind, Refresh(p, ok), file' = file PROVE Behind'
  <2>1. CASE Cached(p)
    BY <1>3, <2>1 DEF Behind
  <2>2. CASE ~Cached(p)
    <3>1. /\ cache' = [cache EXCEPT ![p] = [content |-> Found(ok), mtime |-> file.mtime]]
          /\ causes' = Noted(ok)
      BY <1>3, <2>2
    <3>2. /\ cache'[p].mtime = file.mtime /\ cache'[p].content = Found(ok)
          /\ \A q \in Process : q # p => cache'[q] = cache[q]
          /\ causes \subseteq causes'
      BY <3>1
    <3> QED
      BY <1>1, <1>3, <3>1, <3>2 DEF Behind
  <2> QED
    BY <2>1, <2>2
<1> QED
  BY <1>1, <1>2, <1>3

\* What a load gives is the content of the file, unless an mtime was taken for
\* the wrong content.
LEMMA LoadCurrent ==
  ASSUME TypeOK, CacheBehind, causes \cap {"torn", "coarse"} = {}, NEW p \in Process
  PROVE  Loaded(p, TRUE) = file.content \/ ("unread" \in causes /\ Loaded(p, TRUE) = {})
<1>1. Behind
  BY DEF CacheBehind
<1>2. CASE Cached(p)
  BY <1>1, <1>2 DEF Behind, Loaded, Cached
<1>3. CASE ~Cached(p)
  BY <1>3 DEF Loaded, Found
<1> QED
  BY <1>2, <1>3

\* A store that comes from no failed read is the file's.
LEMMA ReadCurrent ==
  ASSUME TypeOK, CacheBehind, causes = {}, NEW p \in Process, NEW ok \in Readable,
         causes' = {}
  PROVE  /\ Refresh(p, ok) => Loaded(p, ok) = file.content
         /\ causes' = Noted(ok) => Found(ok) = file.content
BY DEF CacheBehind, Behind, Loaded, Found, Noted, Refresh, Cached, Readable

\* Every step keeps what updateSessionStore has read inside the lock current.
LEMMA StepLocked ==
  /\ TypeOK /\ TypeOK' /\ OwnerInside /\ LockedCurrent /\ CacheBehind
  /\ [Next]_vars
  => LockedCurrent'
<1> DEFINE Looked(v) == KindOf[v] = "entry" /\ causes \cap {"torn", "coarse"} = {}
           Current ==
             \A v \in Writer :
               pc[v] \in {"loaded", "saving"} /\ (KindOf[v] = "update" \/ Looked(v))
                 => base[v] = file.content \/ ("unread" \in causes /\ base[v] = {})
<1> SUFFICES ASSUME TypeOK, TypeOK', OwnerInside, LockedCurrent, CacheBehind, [Next]_vars,
                    "evicted" \notin causes'
             PROVE  Current'
  BY DEF LockedCurrent
<1>0. /\ \A v \in Writer : pc[v] \in Inside => lock = v
      /\ Current
      /\ causes \subseteq causes'
  BY CausesStay DEF OwnerInside, LockedCurrent
<1> USE <1>0 DEF TypeOK, Inside
<1>1. ASSUME NEW w \in Writer, Begin(w) PROVE Current'
  <2>1. \A v \in Writer : pc'[v] \in {"loaded", "saving"} => v # w /\ pc'[v] = pc[v] /\ base'[v] = base[v]
    BY <1>1 DEF Begin, Go
  <2>2. file' = file
    BY <1>1 DEF Begin
  <2> QED
    BY <2>1, <2>2
<1>2. ASSUME NEW w \in Writer, TimeOut(w) PROVE Current'
  BY <1>2 DEF TimeOut, Go
<1>3. ASSUME NEW w \in Writer, TryLock(w) PROVE Current'
  BY <1>3 DEF TryLock, Go
<1>4. ASSUME NEW w \in Writer, SeeStale(w) PROVE Current'
  BY <1>4 DEF SeeStale, Go
<1>5. ASSUME NEW w \in Writer, Evict(w) PROVE Current'
  BY <1>5 DEF Evict, Go, Unlink
<1>6. ASSUME NEW w \in Writer, Unlock(w) PROVE Current'
  BY <1>6 DEF Unlock, Go, Unlink
<1>7. ASSUME NEW w \in Writer, Load(w) PROVE Current'
  <2>1. \A v \in Writer : v # w => pc'[v] = pc[v] /\ base'[v] = base[v]
    BY <1>7 DEF Load, Go
  <2>2. file' = file
    BY <1>7 DEF Load
  <2>3. ASSUME KindOf[w] = "update" \/ Looked(w)'
        PROVE  base'[w] = file.content \/ ("unread" \in causes' /\ base'[w] = {})
    <3>1. CASE KindOf[w] = "update"
      BY <1>7, <3>1, LoadEffect DEF Load, Reread
    <3>2. CASE Looked(w)'
      <4>1. Behind
        BY <1>0, <3>2 DEF CacheBehind
      <4>2. PICK ok \in Readable :
               base' = [base EXCEPT ![w] = Loaded(ProcOf[w], ok)] /\ Refresh(ProcOf[w], ok)
        BY <1>7, <3>2 DEF Load, Reread
      <4>3. base'[w] = Loaded(ProcOf[w], ok)
        BY <4>2
      <4> QED
        BY <4>1, <4>2, <4>3, LoadEffect
    <3> QED
      BY <2>3, <3>1, <3>2
  <2> QED
    BY <2>1, <2>2, <2>3
<1>8. ASSUME NEW w \in Writer, Skip(w) PROVE Current'
  BY <1>8 DEF Skip, Go, Forget
<1>9. ASSUME NEW w \in Writer, Save(w) PROVE Current'
  BY <1>9 DEF Save, Go
<1>10. ASSUME NEW w \in Writer, SaveFails(w) PROVE Current'
  BY <1>10 DEF SaveFails, Go, Forget
<1>11. ASSUME NEW p \in Process, Read(p) PROVE Current'
  BY <1>11 DEF Read, Refresh, Cached, Found, Noted, Readable
<1>12. ASSUME NEW p \in Process, Expire(p) PROVE Current'
  BY <1>12 DEF Expire
<1>13. ASSUME NEW p \in Process, Crash(p) PROVE Current'
  BY <1>13 DEF Crash, Forget
<1>14. ASSUME NEW w \in Writer, NEW t \in Times, NEW torn \in Torn(w), Rename(w, t, torn)
      PROVE  Current'
  BY <1>14 DEF Rename, Go, Forget, Times, Torn, Outside, Cached
<1>15. CASE LockAges
  BY <1>15 DEF LockAges
<1> QED
  BY <1>1, <1>2, <1>3, <1>4, <1>5, <1>6, <1>7, <1>8, <1>9, <1>10, <1>11, <1>12, <1>13, <1>14, <1>15
    DEF Next, Work, vars

\* Every step keeps the caches behind the file.
LEMMA StepCache == TypeOK /\ TypeOK' /\ CacheBehind /\ [Next]_vars => CacheBehind'
<1> SUFFICES ASSUME TypeOK, TypeOK', CacheBehind, [Next]_vars, causes' \cap {"torn", "coarse"} = {}
             PROVE  Behind'
  BY DEF CacheBehind
<1>0. Behind /\ causes \subseteq causes'
  BY CausesStay DEF CacheBehind
<1> USE <1>0 DEF TypeOK, Snapshot, Behind
<1>1. ASSUME NEW w \in Writer, Begin(w) PROVE Behind'
  <2>1. file' = file
    BY <1>1 DEF Begin
  <2>2. CASE KindOf[w] = "save"
    BY <1>0, <1>1, <2>1, <2>2, LoadEffect DEF Begin
  <2>3. CASE KindOf[w] # "save"
    BY <1>0, <1>1, <2>1, <2>3 DEF Begin
  <2> QED
    BY <2>2, <2>3
<1>2. ASSUME NEW w \in Writer, TimeOut(w) PROVE Behind'
  BY <1>2 DEF TimeOut, Go
<1>3. ASSUME NEW w \in Writer, TryLock(w) PROVE Behind'
  BY <1>3 DEF TryLock, Go
<1>4. ASSUME NEW w \in Writer, SeeStale(w) PROVE Behind'
  BY <1>4 DEF SeeStale, Go
<1>5. ASSUME NEW w \in Writer, Evict(w) PROVE Behind'
  BY <1>5 DEF Evict, Go, Unlink
<1>6. ASSUME NEW w \in Writer, Unlock(w) PROVE Behind'
  BY <1>6 DEF Unlock, Go, Unlink
<1>7. ASSUME NEW w \in Writer, Load(w) PROVE Behind'
  <2>1. file' = file
    BY <1>7 DEF Load
  <2>2. cache' = cache \/ \E ok \in Readable : Refresh(ProcOf[w], ok)
    BY <1>7 DEF Load
  <2> QED
    BY <1>0, <2>1, <2>2, LoadEffect
<1>8. ASSUME NEW w \in Writer, Skip(w) PROVE Behind'
  BY <1>8 DEF Skip, Go, Forget
<1>9. ASSUME NEW w \in Writer, Save(w) PROVE Behind'
  BY <1>9 DEF Save, Go
<1>10. ASSUME NEW w \in Writer, SaveFails(w) PROVE Behind'
  BY <1>10 DEF SaveFails, Go, Forget
<1>11. ASSUME NEW p \in Process, Read(p) PROVE Behind'
  BY <1>0, <1>11, LoadEffect DEF Read
<1>12. ASSUME NEW p \in Process, Expire(p) PROVE Behind'
  BY <1>12 DEF Expire
<1>13. ASSUME NEW p \in Process, Crash(p) PROVE Behind'
  BY <1>13 DEF Crash, Forget
<1>14. ASSUME NEW w \in Writer, NEW t \in Times, NEW torn \in Torn(w), Rename(w, t, torn)
      PROVE  Behind'
  BY <1>14 DEF Rename, Go, Forget, Times, Torn, Outside, Cached
<1>15. CASE LockAges
  BY <1>15 DEF LockAges
<1> QED
  BY <1>1, <1>2, <1>3, <1>4, <1>5, <1>6, <1>7, <1>8, <1>9, <1>10, <1>11, <1>12, <1>13, <1>14, <1>15
    DEF Next, Work, vars

\* Every step keeps what writers are about to change current.
LEMMA StepBase ==
  /\ TypeOK /\ TypeOK' /\ OwnerInside /\ CacheBehind /\ BaseCurrent
  /\ [Next]_vars
  => BaseCurrent'
<1> DEFINE Current ==
      \A v \in Writer :
        \/ pc[v] \in {"loaded", "saving"}
        \/ KindOf[v] = "save" /\ pc[v] \in {"locking", "evicting", "locked"}
        => base[v] = file.content
<1> SUFFICES ASSUME TypeOK, TypeOK', OwnerInside, CacheBehind, BaseCurrent, [Next]_vars,
                    causes' = {}
             PROVE  Current'
  BY DEF BaseCurrent
<1>0. /\ \A v \in Writer : pc[v] \in Inside => lock = v
      /\ \A p \in Process, ok \in Readable :
           /\ Refresh(p, ok) => Loaded(p, ok) = file.content
           /\ causes' = Noted(ok) => Found(ok) = file.content
      /\ Current
      /\ causes = {}
  BY CausesStay, ReadCurrent DEF OwnerInside, BaseCurrent
<1> USE <1>0 DEF TypeOK, Inside
<1>1. ASSUME NEW w \in Writer, Begin(w) PROVE Current'
  BY <1>1 DEF Begin, Go
<1>2. ASSUME NEW w \in Writer, TimeOut(w) PROVE Current'
  BY <1>2 DEF TimeOut, Go
<1>3. ASSUME NEW w \in Writer, TryLock(w) PROVE Current'
  BY <1>3 DEF TryLock, Go
<1>4. ASSUME NEW w \in Writer, SeeStale(w) PROVE Current'
  BY <1>4 DEF SeeStale, Go
<1>5. ASSUME NEW w \in Writer, Evict(w) PROVE Current'
  BY <1>5 DEF Evict, Go, Unlink
<1>6. ASSUME NEW w \in Writer, Unlock(w) PROVE Current'
  BY <1>6 DEF Unlock, Go, Unlink
<1>7. ASSUME NEW w \in Writer, Load(w) PROVE Current'
  BY <1>7 DEF Load, Go, Reread
<1>8. ASSUME NEW w \in Writer, Skip(w) PROVE Current'
  BY <1>8 DEF Skip, Go, Forget
<1>9. ASSUME NEW w \in Writer, Save(w) PROVE Current'
  BY <1>9 DEF Save, Go
<1>10. ASSUME NEW w \in Writer, SaveFails(w) PROVE Current'
  BY <1>10 DEF SaveFails, Go, Forget
<1>11. ASSUME NEW p \in Process, Read(p) PROVE Current'
  BY <1>11 DEF Read, Refresh, Cached, Found, Noted, Readable
<1>12. ASSUME NEW p \in Process, Expire(p) PROVE Current'
  BY <1>12 DEF Expire
<1>13. ASSUME NEW p \in Process, Crash(p) PROVE Current'
  BY <1>13 DEF Crash, Forget
<1>14. ASSUME NEW w \in Writer, NEW t \in Times, NEW torn \in Torn(w), Rename(w, t, torn)
      PROVE  Current'
  BY <1>14 DEF Rename, Go, Forget, Times, Torn, Outside, Cached
<1>15. CASE LockAges
  BY <1>15 DEF LockAges
<1> QED
  BY <1>1, <1>2, <1>3, <1>4, <1>5, <1>6, <1>7, <1>8, <1>9, <1>10, <1>11, <1>12, <1>13, <1>14, <1>15
    DEF Next, Work, vars

\* Every step keeps the updates that were answered.
LEMMA StepKept ==
  /\ TypeOK /\ TypeOK' /\ BaseCurrent /\ UpdatesKept
  /\ [Next]_vars
  => UpdatesKept'
<1> DEFINE Kept == \A v \in Writer : pc[v] \in {"saved", "done"} => v \in file.content
<1> SUFFICES ASSUME TypeOK, TypeOK', BaseCurrent, UpdatesKept, [Next]_vars, causes' = {}
             PROVE  Kept'
  BY DEF UpdatesKept
<1>0. Kept /\ \A v \in Writer : pc[v] = "saving" => base[v] = file.content
  BY CausesStay DEF UpdatesKept, BaseCurrent
<1> USE <1>0 DEF TypeOK
<1>1. ASSUME NEW w \in Writer, Begin(w) PROVE Kept'
  BY <1>1 DEF Begin, Go, Refresh, Loaded, Cached, Found, Noted, Readable
<1>2. ASSUME NEW w \in Writer, TimeOut(w) PROVE Kept'
  BY <1>2 DEF TimeOut, Go
<1>3. ASSUME NEW w \in Writer, TryLock(w) PROVE Kept'
  BY <1>3 DEF TryLock, Go
<1>4. ASSUME NEW w \in Writer, SeeStale(w) PROVE Kept'
  BY <1>4 DEF SeeStale, Go
<1>5. ASSUME NEW w \in Writer, Evict(w) PROVE Kept'
  BY <1>5 DEF Evict, Go, Unlink
<1>6. ASSUME NEW w \in Writer, Unlock(w) PROVE Kept'
  BY <1>6 DEF Unlock, Go, Unlink
<1>7. ASSUME NEW w \in Writer, Load(w) PROVE Kept'
  BY <1>7 DEF Load, Go, Refresh, Loaded, Cached, Reread, Found, Noted, Readable
<1>8. ASSUME NEW w \in Writer, Skip(w) PROVE Kept'
  BY <1>8 DEF Skip, Go, Forget
<1>9. ASSUME NEW w \in Writer, Save(w) PROVE Kept'
  BY <1>9 DEF Save, Go
<1>10. ASSUME NEW w \in Writer, SaveFails(w) PROVE Kept'
  BY <1>10 DEF SaveFails, Go, Forget
<1>11. ASSUME NEW p \in Process, Read(p) PROVE Kept'
  BY <1>11 DEF Read, Refresh, Cached, Found, Noted, Readable
<1>12. ASSUME NEW p \in Process, Expire(p) PROVE Kept'
  BY <1>12 DEF Expire
<1>13. ASSUME NEW p \in Process, Crash(p) PROVE Kept'
  BY <1>13 DEF Crash, Forget
<1>14. ASSUME NEW w \in Writer, NEW t \in Times, NEW torn \in Torn(w), Rename(w, t, torn)
      PROVE  Kept'
  BY <1>14 DEF Rename, Go, Forget, Times, Torn, Outside, Cached
<1>15. CASE LockAges
  BY <1>15 DEF LockAges
<1> QED
  BY <1>1, <1>2, <1>3, <1>4, <1>5, <1>6, <1>7, <1>8, <1>9, <1>10, <1>11, <1>12, <1>13, <1>14, <1>15
    DEF Next, Work, vars

-----------------------------------------------------------------------------
\* The inductive invariant holds initially.
LEMMA InitInv == Init => IInv
BY InitTypes DEF Init, IInv, OwnerInside, LockedCurrent, CacheBehind, Behind,
  BaseCurrent, UpdatesKept, Inside

\* Every step keeps it.
LEMMA StepInv == IInv /\ [Next]_vars => IInv'
BY StepTypes, StepOwner, StepLocked, StepCache, StepBase, StepKept DEF IInv

\* The inductive invariant always holds.
THEOREM InvTheorem == Spec => []IInv
BY InitInv, StepInv, PTL DEF Spec

\* No update that was answered is lost, unless a live holder's lock was evicted,
\* a store loaded outside the lock was saved, an mtime was taken for the wrong
\* content, or a read of the file failed.
THEOREM UpdatesKeptTheorem == Spec => []UpdatesKept
<1>1. IInv => UpdatesKept
  BY DEF IInv
<1> QED
  BY <1>1, InvTheorem, PTL

\* A load gives the content of the file as it is or, after a read that failed,
\* nothing, as long as no mtime was taken for the wrong content.
THEOREM LoadsCurrentTheorem == Spec => []LoadsCurrent
<1>1. IInv => LoadsCurrent
  BY LoadCurrent DEF IInv, LoadsCurrent
<1> QED
  BY <1>1, InvTheorem, PTL

\* A writer that has saved has renamed its file.
LEMMA OnlyRename ==
  ASSUME TypeOK, Next, NEW v \in Writer, pc[v] = "saving", pc'[v] = "saved"
  PROVE  \E t \in Times, torn \in Torn(v) : Rename(v, t, torn)
<1> DEFINE Goal == \E t \in Times, torn \in Torn(v) : Rename(v, t, torn)
<1> USE DEF TypeOK
<1> HIDE DEF Goal
<1>1. ASSUME NEW w \in Writer, Begin(w) PROVE Goal
  BY <1>1 DEF Begin, Go, Refresh, Loaded, Cached, Found, Noted, Readable
<1>2. ASSUME NEW w \in Writer, TimeOut(w) PROVE Goal
  BY <1>2 DEF TimeOut, Go
<1>3. ASSUME NEW w \in Writer, TryLock(w) PROVE Goal
  BY <1>3 DEF TryLock, Go
<1>4. ASSUME NEW w \in Writer, SeeStale(w) PROVE Goal
  BY <1>4 DEF SeeStale, Go
<1>5. ASSUME NEW w \in Writer, Evict(w) PROVE Goal
  BY <1>5 DEF Evict, Go, Unlink
<1>6. ASSUME NEW w \in Writer, Unlock(w) PROVE Goal
  BY <1>6 DEF Unlock, Go, Unlink
<1>7. ASSUME NEW w \in Writer, Load(w) PROVE Goal
  BY <1>7 DEF Load, Go, Refresh, Loaded, Cached, Reread, Found, Noted, Readable
<1>8. ASSUME NEW w \in Writer, Skip(w) PROVE Goal
  BY <1>8 DEF Skip, Go, Forget
<1>9. ASSUME NEW w \in Writer, Save(w) PROVE Goal
  BY <1>9 DEF Save, Go
<1>10. ASSUME NEW w \in Writer, SaveFails(w) PROVE Goal
  BY <1>10 DEF SaveFails, Go, Forget
<1>11. ASSUME NEW p \in Process, Read(p) PROVE Goal
  BY <1>11 DEF Read, Refresh, Cached, Found, Noted, Readable
<1>12. ASSUME NEW p \in Process, Expire(p) PROVE Goal
  BY <1>12 DEF Expire
<1>13. ASSUME NEW p \in Process, Crash(p) PROVE Goal
  BY <1>13 DEF Crash, Forget
<1>14. ASSUME NEW w \in Writer, NEW t \in Times, NEW torn \in Torn(w), Rename(w, t, torn)
      PROVE  Goal
  <2>1. w = v
    BY <1>14 DEF Rename, Go
  <2> QED
    BY <1>14, <2>1 DEF Goal
<1>15. CASE LockAges
  BY <1>15 DEF LockAges
<1> QED
  BY <1>1, <1>2, <1>3, <1>4, <1>5, <1>6, <1>7, <1>8, <1>9, <1>10, <1>11, <1>12, <1>13, <1>14, <1>15
    DEF Next, Work, Goal

\* A writer that loads the store inside the lock takes no other writer's update
\* back, unless a live holder's lock was evicted, an mtime was taken for the wrong
\* content of its cache, or its read failed; then it may replace all there was.
THEOREM LockedTheorem == Spec => LockedKeepsOthers
<1> DEFINE Keeps(w) ==
      \/ file.content \subseteq file'.content
      \/ "evicted" \in causes
      \/ KindOf[w] = "entry" /\ causes \cap {"torn", "coarse"} # {}
      \/ "unread" \in causes /\ file'.content = {w}
<1>1. IInv /\ [Next]_vars =>
        [\A w \in Writer :
           KindOf[w] # "save" /\ pc[w] = "saving" /\ pc'[w] = "saved" => Keeps(w)]_vars
  <2> SUFFICES ASSUME IInv, Next, NEW w \in Writer, KindOf[w] # "save", pc[w] = "saving",
                      pc'[w] = "saved", "evicted" \notin causes,
                      KindOf[w] = "update" \/ causes \cap {"torn", "coarse"} = {}
               PROVE  Keeps(w)
    OBVIOUS
  <2>1. base[w] = file.content \/ ("unread" \in causes /\ base[w] = {})
    BY DEF IInv, LockedCurrent
  <2>2. \E t \in Times, torn \in Torn(w) : Rename(w, t, torn)
    BY OnlyRename DEF IInv
  <2>3. file'.content = base[w] \cup {w}
    BY <2>2 DEF Rename
  <2> QED
    BY <2>1, <2>3
<1> QED
  BY <1>1, InvTheorem, PTL DEF Spec, LockedKeepsOthers
-----------------------------------------------------------------------------
(***************************************************************************)
(* The store whose updates are atomic.                                     *)
(***************************************************************************)
Call == [w \in Writer |-> Stages(w)]

\* After a step every writer has its stage.
LEMMA StagesTyped ==
  ASSUME TypeOK'
  PROVE  Call' \in [Writer -> Atomic!Stage]
<1>1. \A w \in Writer : pc'[w] \in Step
  BY DEF TypeOK
<1> QED
  BY <1>1 DEF Call, Stages, Step, Atomic!Stage

\* A writer that goes on leaves the others where they are.
LEMMA OneGoesOn ==
  ASSUME TypeOK, NEW w \in Writer, NEW from, NEW to, Go(w, from, to)
  PROVE  /\ Call' = [Call EXCEPT ![w] = Stages(w)']
         /\ pc[w] = from /\ pc'[w] = to /\ Call[w] = Stages(w)
<1>1. /\ pc[w] = from /\ pc'[w] = to
      /\ \A v \in Writer : v # w => pc'[v] = pc[v]
  BY DEF Go, TypeOK
<1>2. \A v \in Writer : v # w => Stages(v)' = Stages(v)
  BY <1>1 DEF Stages
<1> QED
  BY <1>1, <1>2 DEF Call

\* Steps that do not change what the callers are told.
LEMMA StaysOpen ==
  ASSUME TypeOK, NEW w \in Writer, NEW from, NEW to, Go(w, from, to), Stages(w)' = Stages(w)
  PROVE  Call' = Call
<1>1. Call' = [Call EXCEPT ![w] = Stages(w)'] /\ Call[w] = Stages(w)
  BY OneGoesOn
<1> QED
  BY <1>1 DEF Call

\* The step of the atomic store that one of these steps is.
LEMMA CallStep ==
  ASSUME NEW w \in Writer, causes' = causes, file'.content = file.content,
         Call' = [Call EXCEPT ![w] = Stages(w)'],
         \/ Call[w] = "new" /\ Stages(w)' = "open"
         \/ Call[w] \in {"open", "applied"} /\ Stages(w)' = "refused"
         \/ Call[w] = "applied" /\ Stages(w)' = "answered"
         \/ Call[w] \in {"open", "refused"} /\ Stages(w)' = "failed"
  PROVE  Atomic!Next
<1>1. (causes' = {}) = (causes = {})
  OBVIOUS
<1>2. Atomic!Begin(w) \/ Atomic!Refuse(w) \/ Atomic!Answer(w) \/ Atomic!Fail(w)
  BY DEF Call, Atomic!Begin, Atomic!Refuse, Atomic!Answer, Atomic!Fail, Atomic!Move
<1> QED
  BY <1>1, <1>2, Zenon DEF Atomic!Next

LEMMA ApplyStep ==
  ASSUME NEW w \in Writer, causes = {}, causes' = {}, file'.content = file.content \cup {w},
         Call' = [Call EXCEPT ![w] = "applied"], Call[w] = "open"
  PROVE  Atomic!Next
<1>1. (causes' = {}) = (causes = {})
  OBVIOUS
<1>2. Atomic!Apply(w)
  BY DEF Call, Atomic!Apply, Atomic!Move
<1> QED
  BY <1>1, <1>2, Zenon DEF Atomic!Next

LEMMA DieStep ==
  ASSUME TypeOK', causes' = causes, file'.content = file.content,
         \A w \in Writer :
           \/ Stages(w)' = Stages(w)
           \/ Stages(w) \in {"open", "applied", "refused"} /\ Stages(w)' = "dead"
  PROVE  Atomic!Next
<1>1. (causes' = {}) = (causes = {})
  OBVIOUS
<1>2. Call' \in [Writer -> Atomic!Stage]
  BY StagesTyped
<1>3. Atomic!Die
  BY <1>2 DEF Atomic!Die, Call
<1> QED
  BY <1>1, <1>3, Zenon DEF Atomic!Next

LEMMA BreakStep ==
  ASSUME TypeOK', causes' # {}
  PROVE  Atomic!Next
<1>1. (causes' = {}) = FALSE
  OBVIOUS
<1>2. file'.content \in SUBSET Writer
  BY DEF TypeOK, Snapshot
<1>3. Call' \in [Writer -> Atomic!Stage]
  BY StagesTyped
<1>4. Atomic!Break
  BY <1>1, <1>2, <1>3, Zenon DEF Atomic!Break, Call
<1> QED
  BY <1>4 DEF Atomic!Next

\* A step of the writers and the cache implements one of the atomic store, or none.
LEMMA StepAtomic ==
  IInv /\ [Next]_vars => [Atomic!Next]_(Atomic!vars)
<1> DEFINE Same == causes' = causes /\ file'.content = file.content
           Goal == [Atomic!Next]_(Atomic!vars)
<1> SUFFICES ASSUME TypeOK, TypeOK', BaseCurrent, [Next]_vars PROVE Goal
  BY StepTypes DEF IInv
<1>s. ASSUME Same, Call' = Call PROVE Goal
  <2>1. (causes' = {}) = (causes = {}) /\ file'.content = file.content
    BY <1>s
  <2>2. UNCHANGED Atomic!vars
    BY <1>s, <2>1 DEF Atomic!vars, Call
  <2> QED
    BY <2>2
<1>b. ASSUME causes' # {} PROVE Goal
  BY <1>b, BreakStep
<1>n. ASSUME Atomic!Next PROVE Goal
  BY <1>n
<1>p. \A w \in Writer : pc[w] \in Step
  BY DEF TypeOK
<1> HIDE DEF Goal
<1>1. ASSUME NEW w \in Writer, Begin(w) PROVE Goal
  <2>1. /\ Go(w, "idle", "locking") /\ file' = file
        /\ causes' = causes \/ causes' # {}
    BY <1>1, LoadTypes DEF Begin
  <2>2. Call' = [Call EXCEPT ![w] = Stages(w)'] /\ Call[w] = "new" /\ Stages(w)' = "open"
    BY <2>1, OneGoesOn DEF Stages
  <2> QED
    BY <1>b, <1>n, <2>1, <2>2, CallStep
<1>2. ASSUME NEW w \in Writer, TimeOut(w) PROVE Goal
  <2>1. Go(w, "locking", "failed") /\ Same
    BY <1>2 DEF TimeOut
  <2>2. Call' = [Call EXCEPT ![w] = Stages(w)'] /\ Call[w] = "open" /\ Stages(w)' = "failed"
    BY <2>1, OneGoesOn DEF Stages
  <2> QED
    BY <1>n, <2>1, <2>2, CallStep
<1>3. ASSUME NEW w \in Writer, TryLock(w) \/ SeeStale(w) \/ Load(w) \/ Save(w) PROVE Goal
  <2>1. /\ file' = file /\ (causes' = causes \/ causes' # {})
        /\ \/ Go(w, "locking", "locked") \/ Go(w, "locking", "evicting")
           \/ Go(w, "locked", "loaded") \/ Go(w, "loaded", "saving")
    BY <1>3, LoadTypes DEF TryLock, SeeStale, Load, Save
  <2>2. Call' = Call
    BY <2>1, OneGoesOn, StaysOpen DEF Stages
  <2> QED
    BY <1>b, <1>s, <2>1, <2>2
<1>4. ASSUME NEW w \in Writer, Evict(w) PROVE Goal
  <2>1. Go(w, "evicting", "locking") /\ file' = file /\ (causes' = causes \/ causes' # {})
    BY <1>4 DEF Evict, Unlink
  <2>2. Call' = Call
    BY <2>1, OneGoesOn, StaysOpen DEF Stages
  <2> QED
    BY <1>b, <1>s, <2>1, <2>2
<1>5. ASSUME NEW w \in Writer, Unlock(w) PROVE Goal
  <2>1. /\ file' = file /\ (causes' = causes \/ causes' # {})
        /\ Go(w, "saved", "done") \/ Go(w, "failing", "failed") \/ Go(w, "leaving", "failed")
    BY <1>5 DEF Unlock, Unlink
  <2>2. /\ Call' = [Call EXCEPT ![w] = Stages(w)']
        /\ \/ Call[w] = "applied" /\ Stages(w)' = "answered"
           \/ Call[w] = "refused" /\ Stages(w)' = "failed"
    BY <2>1, OneGoesOn DEF Stages
  <2> QED
    BY <1>b, <1>n, <2>1, <2>2, CallStep
<1>6. ASSUME NEW w \in Writer, Skip(w) \/ SaveFails(w) PROVE Goal
  <2>1. /\ Same
        /\ \/ Go(w, "loaded", "leaving") \/ Go(w, "saving", "failing") \/ Go(w, "saved", "failing")
    BY <1>6 DEF Skip, SaveFails
  <2>2. /\ Call' = [Call EXCEPT ![w] = Stages(w)']
        /\ Call[w] \in {"open", "applied"} /\ Stages(w)' = "refused"
    BY <2>1, OneGoesOn DEF Stages
  <2> QED
    BY <1>n, <2>1, <2>2, CallStep
<1>7. ASSUME NEW w \in Writer, NEW t \in Times, NEW torn \in Torn(w), Rename(w, t, torn)
      PROVE  Goal
  <2>1. Go(w, "saving", "saved") /\ file'.content = base[w] \cup {w}
    BY <1>7 DEF Rename
  <2>2. /\ Call' = [Call EXCEPT ![w] = Stages(w)']
        /\ Call[w] = "open" /\ Stages(w)' = "applied" /\ pc[w] = "saving"
    BY <2>1, OneGoesOn DEF Stages
  <2>3. CASE causes' = {}
    <3>1. causes = {}
      BY <2>3, CausesStay
    <3>2. base[w] = file.content
      BY <2>2, <3>1 DEF BaseCurrent
    <3> QED
      BY <1>n, <2>1, <2>2, <2>3, <3>1, <3>2, ApplyStep
  <2> QED
    BY <1>b, <2>3
<1>8. ASSUME NEW p \in Process, Read(p) \/ Expire(p) PROVE Goal
  <2>1. file' = file /\ pc' = pc /\ (causes' = causes \/ causes' # {})
    BY <1>8, LoadTypes DEF Read, Expire
  <2> QED
    BY <1>b, <1>s, <2>1 DEF Call, Stages
<1>9. ASSUME NEW p \in Process, Crash(p) PROVE Goal
  <2>1. Same
    BY <1>9 DEF Crash
  <2>2. \A w \in Writer :
          \/ pc'[w] = pc[w]
          \/ pc[w] \notin {"idle", "done", "failed"} /\ pc'[w] = "dead"
    BY <1>9 DEF Crash
  <2>3. \A w \in Writer :
          \/ Stages(w)' = Stages(w)
          \/ Stages(w) \in {"open", "applied", "refused"} /\ Stages(w)' = "dead"
    BY <1>p, <2>2 DEF Stages, Step
  <2> QED
    BY <1>n, <2>1, <2>3, DieStep
<1>10. CASE LockAges \/ UNCHANGED vars
  <2>1. Same /\ pc' = pc
    BY <1>10 DEF LockAges, vars
  <2> QED
    BY <1>s, <2>1 DEF Call, Stages
<1> QED
  BY <1>1, <1>2, <1>3, <1>4, <1>5, <1>6, <1>7, <1>8, <1>9, <1>10 DEF Next, Work

\* store.ts: until the first of the five causes, every update is applied at once
\* to what the file then holds, and before its call is answered, through time-outs,
\* failed saves and crashes.
THEOREM ImplementsTheorem == Spec => ImplementsAtomicStore
<1>1. Init => Atomic!Init
  <2> SUFFICES ASSUME Init PROVE Atomic!Init
    OBVIOUS
  <2>1. file.content = {} /\ (causes = {}) = TRUE /\ \A w \in Writer : Stages(w) = "new"
    BY DEF Init, Stages
  <2> QED
    BY <2>1 DEF Atomic!Init
<1>2. IInv /\ [Next]_vars => [Atomic!Next]_(Atomic!vars)
  BY StepAtomic
<1> QED
  BY <1>1, <1>2, InvTheorem, PTL DEF Spec, ImplementsAtomicStore, Atomic!Spec
=============================================================================
