----------------------------- MODULE AtomicStore -----------------------------
(***************************************************************************)
(* What a session store promises its callers: every update is applied at   *)
(* once, to whatever the store then holds, before its call is answered; a  *)
(* call that fails has been applied or has not, and so has one whose       *)
(* process dies.  The promise ends with the first event that may cost      *)
(* updates.  SessionStore is shown to implement it.                        *)
(***************************************************************************)
CONSTANT Caller

VARIABLES
  content,  \* the updates that the store holds
  call,     \* [Caller -> Stage]
  kept      \* does the promise still hold

vars == <<content, call, kept>>

Stage == {"new", "open", "applied", "refused", "answered", "failed", "dead"}

Init == content = {} /\ call = [c \in Caller |-> "new"] /\ kept = TRUE

Move(c, from, to) == call[c] \in from /\ call' = [call EXCEPT ![c] = to]

Begin(c)  == Move(c, {"new"}, "open")
Refuse(c) == Move(c, {"open", "applied"}, "refused")
Answer(c) == Move(c, {"applied"}, "answered")
Fail(c)   == Move(c, {"open", "refused"}, "failed")

Apply(c) == Move(c, {"open"}, "applied") /\ content' = content \cup {c}

\* A process dies with its calls.
Die ==
  /\ call' \in [Caller -> Stage]
  /\ \A c \in Caller :
       \/ call'[c] = call[c]
       \/ call[c] \in {"open", "applied", "refused"} /\ call'[c] = "dead"

\* From here on nothing is said of the store.
Break == kept' = FALSE /\ content' \in SUBSET Caller /\ call' \in [Caller -> Stage]

Next ==
  \/ Break
  \/ /\ UNCHANGED <<content, kept>>
     /\ Die \/ \E c \in Caller : Begin(c) \/ Refuse(c) \/ Answer(c) \/ Fail(c)
  \/ UNCHANGED kept /\ \E c \in Caller : Apply(c)

Spec == Init /\ [][Next]_vars
=============================================================================
