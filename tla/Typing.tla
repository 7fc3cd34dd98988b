------------------------------- MODULE Typing -------------------------------
(***************************************************************************)
(* src/src/auto-reply/reply/typing.ts: the typing indicator of one reply.  *)
(* A caller starts the loop and awaits the first indicator before it sets  *)
(* the interval that repeats it; the end of the run and the idleness of    *)
(* the dispatcher stop it for good.                                        *)
(***************************************************************************)
EXTENDS Naturals

CONSTANTS Caller  \* calls of startTypingLoop

VARIABLES
  typing,    \* [started, active, runComplete, dispatchIdle, sealed : BOOLEAN]
  first,     \* the callers that await the first indicator
  interval,  \* is typingTimer set
  lost,      \* number of intervals whose handle was overwritten or kept by nobody
  ttl        \* is typingTtlTimer set

typingVars == <<typing, first, interval, lost, ttl>>

TypingOK ==
  /\ typing \in [started : BOOLEAN, active : BOOLEAN, runComplete : BOOLEAN,
                 dispatchIdle : BOOLEAN, sealed : BOOLEAN]
  /\ first \subseteq Caller
  /\ interval \in BOOLEAN /\ lost \in Nat /\ ttl \in BOOLEAN

TypingInit ==
  /\ typing = [started |-> FALSE, active |-> FALSE, runComplete |-> FALSE,
               dispatchIdle |-> FALSE, sealed |-> FALSE]
  /\ first = {} /\ interval = FALSE /\ lost = 0 /\ ttl = FALSE

Sealed == [started |-> FALSE, active |-> FALSE, runComplete |-> FALSE,
           dispatchIdle |-> FALSE, sealed |-> TRUE]

\* startTypingOnText and startTypingLoop up to the await.  A caller that finds the
\* indicator started awaits nothing, and sets the interval at once.
StartTyping(k) ==
  LET starts == ~typing.runComplete /\ ~interval IN
  IF typing.sealed THEN UNCHANGED typingVars
  ELSE /\ ttl' = TRUE
       /\ typing' = IF starts THEN [typing EXCEPT !.started = TRUE, !.active = TRUE] ELSE typing
       /\ first' = IF starts /\ ~typing.started THEN first \cup {k} ELSE first
       /\ interval' = (interval \/ (starts /\ typing.started))
       /\ UNCHANGED lost

\* The first indicator has been sent; nothing looks at sealed or the timer again.
IntervalSet(k) ==
  /\ k \in first
  /\ first' = first \ {k}
  /\ interval' = TRUE
  /\ lost' = IF interval THEN lost + 1 ELSE lost
  /\ UNCHANGED <<typing, ttl>>

\* The flag, and cleanup when the other flag is set too.
Mark(flag) ==
  LET now == [typing EXCEPT ![flag] = TRUE] IN
  IF now.active /\ now.runComplete /\ now.dispatchIdle
    THEN /\ typing' = Sealed
         /\ interval' = FALSE /\ ttl' = FALSE
         /\ UNCHANGED <<first, lost>>
    ELSE /\ typing' = now
         /\ UNCHANGED <<first, interval, lost, ttl>>

\* Mutant: the flag, which the next call will look at.
MarkOnly == typing' = [typing EXCEPT !.dispatchIdle = TRUE] /\ UNCHANGED <<first, interval, lost, ttl>>

MarkRunComplete == Mark("runComplete")
MarkDispatchIdle == Mark("dispatchIdle")

\* The indicator has been on for too long.
TtlFires ==
  /\ ttl
  /\ ttl' = FALSE
  /\ IF interval THEN typing' = Sealed /\ interval' = FALSE ELSE UNCHANGED <<typing, interval>>
  /\ UNCHANGED <<first, lost>>

\* An interval sends indicators until the controller is sealed.
Shown == ~typing.sealed /\ (interval \/ lost > 0)
=============================================================================
