---------------------------- MODULE MCRemoteExec ----------------------------
(***************************************************************************)
(* Instances of RemoteExec for TLC: one node, all connections its own.     *)
(***************************************************************************)
EXTENDS RemoteExec, TLC

CONSTANTS n, q, d

OneNode == [c \in Conn |-> n]
ThatNode == [r \in Request |-> n]
=============================================================================
