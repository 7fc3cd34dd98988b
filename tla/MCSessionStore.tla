---------------------------- MODULE MCSessionStore ----------------------------
(***************************************************************************)
(* Instances of SessionStore for TLC.                                      *)
(***************************************************************************)
EXTENDS SessionStore, TLC

CONSTANTS gateway, cli, e, s, x

\* The gateway updates an entry and saves a store, a command updates the store.
Procs == [w \in Writer |-> IF w = x THEN cli ELSE gateway]
Kinds == [w \in Writer |-> CASE w = s -> "save" [] w = e -> "entry" [] OTHER -> "update"]
=============================================================================
