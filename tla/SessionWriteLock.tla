-------------------------- MODULE SessionWriteLock --------------------------
(***************************************************************************)
(* src/src/agents/session-write-lock.ts: the lock file that keeps two      *)
(* processes from writing one session transcript.  One session file is     *)
(* modelled.  A process that dies does not come back under its pid; a      *)
(* restart is another member of Proc.                                      *)
(***************************************************************************)
EXTENDS Naturals, FiniteSets

CONSTANTS
  Proc,    \* processes
  Caller,  \* calls of acquireSessionWriteLock
  ProcOf,  \* [Caller -> Proc]
  None,    \* no lock file, no held lock
  Disturb  \* what happens: subset of {"overlap", "outlive", "signal", "crash", "timeout", "full"}

ASSUME ProcOfAssumption == ProcOf \in [Caller -> Proc]
ASSUME NoneAssumption == None \notin Caller \cup [count : Nat, handle : Caller]

VARIABLES
  file,     \* whose lock file is at the path: Caller \cup {None}
  payload,  \* what it contains: "empty", or an entry that is "fresh" or "old"
  held,     \* [Proc -> HeldLock \cup {None}] HELD_LOCKS of a process
  alive,    \* [Proc -> BOOLEAN]
  pc,       \* [Caller -> Step]
  clean,    \* history: no overlap, overstayed lock or survived signal so far
  astray    \* history: processes that survived a signal, or have opened the file twice

vars == <<file, payload, held, alive, pc, clean, astray>>

Step == {"idle", "open", "write", "read", "remove", "wait", "holding", "unlink", "done",
         "failed", "dead"}

HeldLock == [count : Nat \ {0}, handle : Caller]

Init ==
  /\ file = None
  /\ payload = "empty"
  /\ held = [p \in Proc |-> None]
  /\ alive = [p \in Proc |-> TRUE]
  /\ pc = [c \in Caller |-> "idle"]
  /\ clean = TRUE /\ astray = {}

Goto(c, step) == pc' = [pc EXCEPT ![c] = step]

\* Nobody is between two of its file operations when c begins with its own.
Alone(c) == \A d \in Caller \ {c} : pc[d] \notin {"write", "read", "remove", "unlink"}

\* Mutant: a process that holds the lock shares it without counting.
AcquireUncounted(c) ==
  /\ pc[c] = "idle"
  /\ Goto(c, IF held[ProcOf[c]] # None THEN "holding" ELSE "open")
  /\ UNCHANGED <<file, payload, held, alive, clean, astray>>

\* The look into HELD_LOCKS: a process that holds the lock shares it.
Acquire(c) ==
  LET p == ProcOf[c] IN
    /\ pc[c] = "idle"
    /\ \/ /\ held[p] # None
          /\ held' = [held EXCEPT ![p].count = @ + 1]
          /\ Goto(c, "holding")
       \/ /\ held[p] = None
          /\ Goto(c, "open")
          /\ UNCHANGED held
    /\ UNCHANGED <<file, payload, alive, clean, astray>>

\* A call of p has the file open already.
Taken(p) == held[p] # None \/ \E d \in Caller : ProcOf[d] = p /\ pc[d] = "write"

\* fs.open with flag wx.
Open(c) ==
  /\ pc[c] = "open"
  /\ Alone(c) \/ "overlap" \in Disturb
  /\ clean' = (clean /\ Alone(c))
  /\ \/ /\ file = None
        /\ file' = c
        /\ Goto(c, "write")
        /\ astray' = IF Taken(ProcOf[c]) THEN astray \cup {ProcOf[c]} ELSE astray
     \/ /\ file # None
        /\ Goto(c, "read")
        /\ UNCHANGED <<file, astray>>
  /\ UNCHANGED <<payload, held, alive>>

\* writeFile on the handle, wherever its file is by now, and the entry.
Write(c) ==
  /\ pc[c] = "write"
  /\ payload' = IF file = c THEN "fresh" ELSE payload
  /\ held' = [held EXCEPT ![ProcOf[c]] = [count |-> 1, handle |-> c]]
  /\ Goto(c, "holding")
  /\ UNCHANGED <<file, alive, clean, astray>>

\* writeFile fails: the error is thrown, the empty file stays.
WriteFails(c) ==
  /\ "full" \in Disturb
  /\ pc[c] = "write"
  /\ Goto(c, "failed")
  /\ UNCHANGED <<file, payload, held, alive, clean, astray>>

\* Mutant: only the age of a lock file counts, not its process.
StaleByAge == file = None \/ payload # "fresh"

\* Mutant: the test of the process is inverted.
StaleIfAlive == file = None \/ payload # "fresh" \/ alive[ProcOf[file]]

\* An unreadable payload counts as a stale one.
Stale ==
  \/ file = None
  \/ payload # "fresh"
  \/ ~alive[ProcOf[file]]

Read(c) ==
  /\ pc[c] = "read"
  /\ Goto(c, IF Stale THEN "remove" ELSE "wait")
  /\ UNCHANGED <<file, payload, held, alive, clean, astray>>

NoFile == file' = None /\ payload' = "empty"

\* fs.rm of whatever is at the path.
Remove(c) ==
  /\ pc[c] = "remove"
  /\ NoFile
  /\ Goto(c, "open")
  /\ UNCHANGED <<held, alive, clean, astray>>

Retry(c) ==
  /\ pc[c] = "wait"
  /\ Goto(c, "open")
  /\ UNCHANGED <<file, payload, held, alive, clean, astray>>

\* The deadline is looked at before each attempt.
Timeout(c) ==
  /\ "timeout" \in Disturb
  /\ pc[c] = "open"
  /\ Goto(c, "failed")
  /\ UNCHANGED <<file, payload, held, alive, clean, astray>>

\* release up to its first await: the entry may be gone, or be another's.
Release(c) ==
  LET p == ProcOf[c] IN
    /\ pc[c] = "holding"
    /\ \/ /\ held[p] = None
          /\ Goto(c, "done")
          /\ UNCHANGED held
       \/ /\ held[p] # None /\ held[p].count > 1
          /\ held' = [held EXCEPT ![p].count = @ - 1]
          /\ Goto(c, "done")
       \/ /\ held[p] # None /\ held[p].count = 1
          /\ held' = [held EXCEPT ![p] = None]
          /\ Goto(c, "unlink")
    /\ UNCHANGED <<file, payload, alive, clean, astray>>

\* Mutant: the handle is closed, the file stays.
UnlinkNothing(c) ==
  /\ pc[c] = "unlink"
  /\ Goto(c, "done")
  /\ UNCHANGED <<file, payload, held, alive, clean, astray>>

\* The handle is closed and the path removed, whoever's file it is.
Unlink(c) ==
  /\ pc[c] = "unlink"
  /\ NoFile
  /\ Goto(c, "done")
  /\ UNCHANGED <<held, alive, clean, astray>>

-----------------------------------------------------------------------------
\* More than staleMs pass while a lock is held.
Outlive(c) ==
  /\ "outlive" \in Disturb
  /\ file = c /\ payload = "fresh"
  /\ payload' = "old"
  /\ clean' = FALSE
  /\ UNCHANGED <<file, held, alive, pc, astray>>

\* handleTerminationSignal with another listener for the signal: the locks go
\* at once, the process stays.
Signal(p) ==
  /\ "signal" \in Disturb
  /\ alive[p] /\ held[p] # None
  /\ held' = [held EXCEPT ![p] = None]
  /\ NoFile
  /\ clean' = FALSE /\ astray' = astray \cup {p}
  /\ UNCHANGED <<alive, pc>>

Gone(p) ==
  /\ alive' = [alive EXCEPT ![p] = FALSE]
  /\ held' = [held EXCEPT ![p] = None]
  /\ pc' = [c \in Caller |-> IF ProcOf[c] = p THEN "dead" ELSE pc[c]]
  /\ UNCHANGED <<clean, astray>>

\* The process exits, normally or by a signal it has no other listener for.
Exit(p) ==
  /\ "crash" \in Disturb
  /\ alive[p]
  /\ Gone(p)
  /\ IF held[p] = None THEN UNCHANGED <<file, payload>> ELSE NoFile

\* The process is killed: its lock file stays.
Crash(p) ==
  /\ "crash" \in Disturb
  /\ alive[p]
  /\ Gone(p)
  /\ UNCHANGED <<file, payload>>

Next ==
  \/ \E c \in Caller :
       \/ Acquire(c) \/ Open(c) \/ Write(c) \/ WriteFails(c) \/ Read(c) \/ Remove(c)
       \/ Retry(c) \/ Timeout(c) \/ Release(c) \/ Unlink(c) \/ Outlive(c)
  \/ \E p \in Proc : Signal(p) \/ Exit(p) \/ Crash(p)

Spec == Init /\ [][Next]_vars

\* File operations and timers complete, and a run that holds the lock ends.
Fairness ==
  \A c \in Caller :
    /\ SF_vars(Open(c))
    /\ WF_vars(Write(c)) /\ WF_vars(Read(c)) /\ WF_vars(Remove(c)) /\ WF_vars(Retry(c))
    /\ WF_vars(Release(c)) /\ WF_vars(Unlink(c))

FairSpec == Spec /\ Fairness

-----------------------------------------------------------------------------
TypeOK ==
  /\ file \in Caller \cup {None}
  /\ payload \in {"empty", "fresh", "old"}
  /\ held \in [Proc -> HeldLock \cup {None}]
  /\ alive \in [Proc -> BOOLEAN]
  /\ pc \in [Caller -> Step] /\ clean \in BOOLEAN /\ astray \subseteq Proc

\* Two processes never write the session at the same time.
SingleWriter ==
  \A c, d \in Caller : pc[c] = "holding" /\ pc[d] = "holding" => ProcOf[c] = ProcOf[d]

\* As long as file operations of two callers have not overlapped, no lock was
\* overstayed and no signal survived, crashes, deadlines, stale files and full
\* disks never let two processes write.
SingleWriterIfClean == clean => SingleWriter

\* While anybody holds the lock the file is there and names a holder's process:
\* it is kept until the last release.
FileUntilLastRelease ==
  \A c \in Caller : pc[c] = "holding" => file # None /\ ProcOf[file] = ProcOf[c]

\* The same, on a clean history.
FileKeptIfClean == clean => FileUntilLastRelease

\* The count of a process is the number of its callers still to release, so that no
\* release removes a file that another call of the process relies on - whatever other
\* processes do to the file, and however many calls have looked into HELD_LOCKS before
\* one sets it.  The exceptions are a process that survived a signal, and one in which
\* a call opened the file while another had it, which the first look does not prevent.
CountsHolders ==
  \A p \in Proc \ astray :
    Cardinality({c \in Caller : ProcOf[c] = p /\ pc[c] = "holding"}) =
      IF held[p] = None THEN 0 ELSE held[p].count

\* Whoever waits for the lock gets it, or dies or gives up on its own account,
\* whatever the others do: no dead or overstaying holder, survived signal or
\* half-written file blocks the path for ever.
EveryCallerHolds ==
  \A c \in Caller : pc[c] = "open" ~> pc[c] \in {"holding", "dead", "failed"}

\* Once every call is over no lock file is left, except that of a dead process or of a
\* call whose write failed - whatever was overstayed, overlapped or signalled before.
NoFileLeft ==
  (\A c \in Caller : pc[c] \in {"idle", "done", "failed", "dead"}) =>
    file = None \/ ~alive[ProcOf[file]] \/ pc[file] = "failed"
=============================================================================
