--------------------------- MODULE MCCommandQueue ---------------------------
(***************************************************************************)
(* Instances of CommandQueue for TLC.                                      *)
(***************************************************************************)
EXTENDS CommandQueue

CONSTANTS session, global

MCLane == {session, global}

\* How runEmbeddedPiAgent nests: the session-lane task enqueues on the global
\* lane and awaits that.
RunNests == {<<session, global, TRUE>>}

\* What the API allows besides: a task may enqueue on any lane, its own
\* included, without waiting for the result.
ApiNests == RunNests \cup (MCLane \X MCLane \X {FALSE})
=============================================================================
