---------------------------- MODULE SessionStore ----------------------------
(***************************************************************************)
(* src/src/config/sessions/store.ts: the JSON file of the sessions, shared *)
(* by the gateway and command-line processes.  Each process caches it with *)
(* its mtime; writers read, change and replace the whole file under a lock *)
(* file.  The content is the set of updates it contains: each writer makes *)
(* one update, to a field of its own.                                      *)
(***************************************************************************)
EXTENDS Naturals, FiniteSets

CONSTANTS
  Writer,   \* calls that write
  Process,
  None,     \* no lock file, no cache entry
  ProcOf,   \* [Writer -> Process]
  KindOf,   \* [Writer -> {"update", "entry", "save"}]: updateSessionStore,
            \* updateSessionStoreEntry and updateLastRoute, or saveSessionStore of a
            \* store loaded before
  Disturb,  \* what may go wrong: subset of {"slow", "torn", "coarse", "unread",
            \* "fail", "crash"}
  MaxCauses \* bound: no read fails and no mtime misleads once as many causes occurred

ASSUME NoneAssumption == None \notin Writer
ASSUME ProcAssumption == ProcOf \in [Writer -> Process]
ASSUME KindAssumption == KindOf \in [Writer -> {"update", "entry", "save"}]

VARIABLES
  file,    \* [content : SUBSET Writer, mtime : Nat]
  lock,    \* owner of the lock file, or None
  stale,   \* is the lock file older than staleMs
  cache,   \* [Process -> SUBSET of updates with an mtime, or None]
  pc,      \* [Writer -> Step]
  base,    \* [Writer -> SUBSET Writer] the store the writer changes
  causes   \* history: what has happened that may cost updates

vars == <<file, lock, stale, cache, pc, base, causes>>

Step == {"idle", "locking", "evicting", "locked", "loaded", "saving", "saved", "failing",
         "leaving", "done", "failed", "dead"}
Inside == {"locked", "loaded", "saving", "saved", "failing", "leaving"}
Snapshot == [content : SUBSET Writer, mtime : Nat]

TypeOK ==
  /\ file \in Snapshot
  /\ lock \in Writer \cup {None} /\ stale \in BOOLEAN
  /\ cache \in [Process -> Snapshot \cup {None}]
  /\ pc \in [Writer -> Step]
  /\ base \in [Writer -> SUBSET Writer]
  /\ causes \subseteq {"evicted", "outside", "torn", "coarse", "unread"}

Init ==
  /\ file = [content |-> {}, mtime |-> 0]
  /\ lock = None /\ stale = FALSE
  /\ cache = [p \in Process |-> None]
  /\ pc = [w \in Writer |-> "idle"]
  /\ base = [w \in Writer |-> {}]
  /\ causes = {}

\* The stores of calls that are through are dropped.
Forget(ws) == base' = [w \in Writer |-> IF w \in ws THEN {} ELSE base[w]]

Go(w, from, to) == pc[w] = from /\ pc' = [pc EXCEPT ![w] = to]

-----------------------------------------------------------------------------
(***************************************************************************)
(* loadSessionStore.                                                       *)
(***************************************************************************)
\* Mutant: a cached store is returned without a look at the file.
CachedAnyway(p) == cache[p] # None

\* The cache entry may be returned; one past its TTL is no entry.
Cached(p) == cache[p] # None /\ cache[p].mtime = file.mtime

\* May trouble of this kind occur.
MayOccur(cause) == cause \in Disturb /\ Cardinality(causes \cup {cause}) <= MaxCauses

\* Can the file be read and parsed; if not, the store is empty, and cached as such.
Readable == {TRUE} \cup (IF MayOccur("unread") THEN {FALSE} ELSE {})
Found(ok) == IF ok THEN file.content ELSE {}
Noted(ok) == IF ok THEN causes ELSE causes \cup {"unread"}

Loaded(p, ok) == IF Cached(p) THEN cache[p].content ELSE Found(ok)

Refresh(p, ok) ==
  IF Cached(p) THEN UNCHANGED <<cache, causes>>
  ELSE /\ cache' = [cache EXCEPT ![p] = [content |-> Found(ok), mtime |-> file.mtime]]
       /\ causes' = Noted(ok)

\* Some reader of the process.
Read(p) ==
  /\ \E ok \in Readable : Refresh(p, ok)
  /\ UNCHANGED <<file, lock, stale, pc, base>>

\* ttl is over.
Expire(p) ==
  /\ cache' = [cache EXCEPT ![p] = None]
  /\ UNCHANGED <<file, lock, stale, pc, base, causes>>

-----------------------------------------------------------------------------
(***************************************************************************)
(* withSessionStoreLock.                                                   *)
(***************************************************************************)
Begin(w) ==
  /\ Go(w, "idle", "locking")
  /\ IF KindOf[w] = "save"
       THEN \E ok \in Readable :
              Refresh(ProcOf[w], ok) /\ base' = [base EXCEPT ![w] = Loaded(ProcOf[w], ok)]
       ELSE UNCHANGED <<cache, base, causes>>
  /\ UNCHANGED <<file, lock, stale>>

\* Mutant: open without the exclusive flag.
TryLockShared(w) ==
  /\ Go(w, "locking", "locked")
  /\ lock' = w /\ stale' = FALSE
  /\ UNCHANGED <<file, cache, base, causes>>

TryLock(w) ==
  /\ lock = None
  /\ Go(w, "locking", "locked")
  /\ lock' = w /\ stale' = FALSE
  /\ UNCHANGED <<file, cache, base, causes>>

\* timeout acquiring session store lock.
TimeOut(w) ==
  /\ lock # None
  /\ Go(w, "locking", "failed")
  /\ UNCHANGED <<file, lock, stale, cache, base, causes>>

\* Mutant: stat looks at the wrong age.
SeeStaleNever(w) == FALSE /\ UNCHANGED vars

SeeStale(w) ==
  /\ lock # None /\ stale
  /\ Go(w, "locking", "evicting")
  /\ UNCHANGED <<file, lock, stale, cache, base, causes>>

\* unlink(lockPath), whosever file it is by now.
Unlink(w) ==
  /\ lock' = None /\ stale' = FALSE
  /\ causes' = IF lock # None /\ lock # w /\ pc[lock] \in Inside
                 THEN causes \cup {"evicted"} ELSE causes

Evict(w) ==
  /\ Go(w, "evicting", "locking")
  /\ Unlink(w)
  /\ UNCHANGED <<file, cache, base>>

\* Half a minute passes: after a crash, or with a holder that is slow.
LockAges ==
  /\ lock # None /\ ~stale
  /\ pc[lock] = "dead" \/ "slow" \in Disturb
  /\ stale' = TRUE
  /\ UNCHANGED <<file, lock, cache, pc, base, causes>>

Unlock(w) ==
  /\ \/ Go(w, "saved", "done")
     \/ Go(w, "failing", "failed")
     \/ Go(w, "leaving", "failed")
  /\ Unlink(w)
  /\ UNCHANGED <<file, cache, base>>

-----------------------------------------------------------------------------
(***************************************************************************)
(* What is done inside the lock.                                           *)
(***************************************************************************)
\* Mutant: updateSessionStore works on the cached store.
RereadCached(w) == FALSE

\* updateSessionStore skips the cache.
Reread(w) == KindOf[w] = "update"

Load(w) ==
  /\ Go(w, "locked", "loaded")
  /\ \/ KindOf[w] = "save" /\ UNCHANGED <<base, cache, causes>>
     \/ /\ KindOf[w] # "save" /\ Reread(w)
        /\ \E ok \in Readable : base' = [base EXCEPT ![w] = Found(ok)] /\ causes' = Noted(ok)
        /\ UNCHANGED cache
     \/ /\ KindOf[w] # "save" /\ ~Reread(w)
        /\ \E ok \in Readable :
             base' = [base EXCEPT ![w] = Loaded(ProcOf[w], ok)] /\ Refresh(ProcOf[w], ok)
  /\ UNCHANGED <<file, lock, stale>>

\* updateSessionStoreEntry finds no entry, or gets no patch.
Skip(w) ==
  /\ KindOf[w] = "entry"
  /\ Go(w, "loaded", "leaving")
  /\ Forget({w})
  /\ UNCHANGED <<file, lock, stale, cache, causes>>

\* saveSessionStoreUnlocked up to its first await.
Save(w) ==
  /\ Go(w, "loaded", "saving")
  /\ cache' = [cache EXCEPT ![ProcOf[w]] = None]
  /\ UNCHANGED <<file, lock, stale, base, causes>>

\* An error of the write or the rename, or of chmod after it.
SaveFails(w) ==
  /\ "fail" \in Disturb
  /\ Go(w, "saving", "failing") \/ Go(w, "saved", "failing")
  /\ Forget({w})
  /\ UNCHANGED <<file, lock, stale, cache, causes>>

\* Writers that hold a store they loaded outside the lock.
Outside(w) == {v \in Writer \ {w} : KindOf[v] = "save" /\ pc[v] \in Inside \cup {"locking", "evicting"}}

\* rename, at mtime t.  A process that is just between reading the old file and
\* asking for the mtime of the new one, torn, caches the old content as new.
Rename(w, t, torn) ==
  /\ Go(w, "saving", "saved")
  /\ file' = [content |-> base[w] \cup {w}, mtime |-> t]
  /\ cache' = [p \in Process |->
                 IF p \in torn THEN [content |-> file.content, mtime |-> t] ELSE cache[p]]
  /\ causes' = causes \cup (IF Outside(w) # {} THEN {"outside"} ELSE {})
                      \cup (IF torn # {} THEN {"torn"} ELSE {})
                      \cup (IF t = file.mtime THEN {"coarse"} ELSE {})
  /\ Forget({w})
  /\ UNCHANGED <<lock, stale>>

Times == {file.mtime + 1} \cup (IF MayOccur("coarse") THEN {file.mtime} ELSE {})
Torn(w) ==
  IF MayOccur("torn") THEN SUBSET {p \in Process \ {ProcOf[w]} : ~Cached(p)} ELSE {{}}

\* The process dies with its calls and its cache; the lock file stays.
Crash(p) ==
  /\ "crash" \in Disturb
  /\ pc' = [w \in Writer |-> IF ProcOf[w] = p /\ pc[w] \notin {"idle", "done", "failed"}
                               THEN "dead" ELSE pc[w]]
  /\ pc' # pc
  /\ cache' = [cache EXCEPT ![p] = None]
  /\ Forget({w \in Writer : pc'[w] = "dead"})
  /\ UNCHANGED <<file, lock, stale, causes>>

Work(w) ==
  \/ TryLock(w) \/ SeeStale(w) \/ Evict(w) \/ Unlock(w)
  \/ Load(w) \/ Skip(w) \/ Save(w) \/ SaveFails(w)
  \/ \E t \in Times, torn \in Torn(w) : Rename(w, t, torn)

Next ==
  \/ \E w \in Writer : Begin(w) \/ TimeOut(w) \/ Work(w)
  \/ \E p \in Process : Read(p) \/ Expire(p) \/ Crash(p)
  \/ LockAges

Spec == Init /\ [][Next]_vars

\* A waiter polls the lock, file operations end, and time passes.
FairSpec == Spec /\ WF_vars(LockAges \/ \E w \in Writer : Work(w))

-----------------------------------------------------------------------------
\* Whatever writers of either process do, crash or be refused, no update that was
\* answered is lost, unless a live holder's lock was evicted, a store loaded
\* outside the lock was saved, an mtime was taken for the wrong content, or a read
\* of the file failed.  Part of what ImplementsAtomicStore says.
UpdatesKept ==
  causes = {} => \A w \in Writer : pc[w] \in {"saved", "done"} => w \in file.content

\* A writer that loads the store inside the lock takes no other writer's update
\* back, whatever those who load it outside do, unless a live holder's lock was
\* evicted or, when it looks in the cache, an mtime was taken for the wrong content;
\* and after a read that failed it may replace everything there was, no less.
LockedKeepsOthers ==
  [][\A w \in Writer :
       KindOf[w] # "save" /\ pc[w] = "saving" /\ pc'[w] = "saved"
         => \/ file.content \subseteq file'.content
            \/ "evicted" \in causes
            \/ KindOf[w] = "entry" /\ causes \cap {"torn", "coarse"} # {}
            \/ "unread" \in causes /\ file'.content = {w}]_vars

\* A load that succeeds never returns anything but the content of the file as it
\* is, in the process that wrote it and in every other, whenever it fills its cache;
\* after a read that failed it may return the empty store, which was cached.
LoadsCurrent ==
  causes \cap {"torn", "coarse"} = {} =>
    \A p \in Process :
      \/ Loaded(p, TRUE) = file.content
      \/ "unread" \in causes /\ Loaded(p, TRUE) = {}

\* The call of w, as the atomic store sees it.
Stages(w) ==
  CASE pc[w] = "idle" -> "new"
    [] pc[w] \in {"locking", "evicting", "locked", "loaded", "saving"} -> "open"
    [] pc[w] = "saved" -> "applied"
    [] pc[w] \in {"failing", "leaving"} -> "refused"
    [] pc[w] = "done" -> "answered"
    [] OTHER -> pc[w]

Atomic == INSTANCE AtomicStore
            WITH Caller <- Writer, content <- file.content, kept <- causes = {},
                 call <- [w \in Writer |-> Stages(w)]

\* As long as none of the five causes occurs, files, lock, caches and copies make
\* up a store whose updates are atomic, through failures, time-outs and crashes.
ImplementsAtomicStore == Atomic!Spec

\* Every call that does not time out gets the lock and answers: the lock file of a
\* crashed process does not block it.
CallsAnswered == []<>(\A w \in Writer : pc[w] \in {"idle", "done", "failed", "dead"})
=============================================================================
